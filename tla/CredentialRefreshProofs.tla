---------------------- MODULE CredentialRefreshProofs ----------------------
(***************************************************************************)
(* Proofs about CredentialRefresh, for every number of providers, requests *)
(* tokens and sign-ins.  The invariant has three layers.  Basic says what  *)
(* a request in each phase knows and what the exchanges record.  Kept says *)
(* how far the store can be behind the token that the vendor accepts: not  *)
(* at all, by one answer that is carried, or by one that is being written  *)
(* while the next one waits behind it.  Calm is what Kept becomes while    *)
(* the vendor took nothing back, and why a second try is never refused.    *)
(***************************************************************************)
EXTENDS CredentialRefresh, TLAPS, SequenceTheorems

-----------------------------------------------------------------------------
(* Queues *)

(* A sequence that holds the members of a set, each once. *)
Holds(s, S) ==
    /\ s \in Seq(Calls)
    /\ {s[i] : i \in DOMAIN s} = S
    /\ \A i, j \in DOMAIN s : s[i] = s[j] => i = j

LEMMA HoldsNothing == Holds(<<>>, {})
BY DEF Holds

LEMMA AppendHolds ==
    ASSUME NEW S, NEW s, Holds(s, S), NEW c \in Calls, c \notin S
    PROVE  /\ Holds(Append(s, c), S \cup {c})
           /\ Append(s, c) # <<>>
           /\ Head(Append(s, c)) = IF s = <<>> THEN c ELSE Head(s)
<1>1. s \in Seq(Calls) /\ Len(s) \in Nat /\ DOMAIN s = 1..Len(s)
  BY LenProperties DEF Holds
<1> DEFINE n == Len(s) + 1
           a == Append(s, c)
<1>2. /\ a \in Seq(Calls) /\ Len(a) = n /\ DOMAIN a = 1..n
      /\ \A i \in 1..Len(s) : a[i] = s[i]
      /\ a[n] = c
  BY <1>1, AppendProperties, LenProperties
<1>3. \A i \in DOMAIN s : s[i] \in S
  BY DEF Holds
<1> HIDE DEF a
<1>4. {a[i] : i \in DOMAIN a} = S \cup {c}
  <2>1. ASSUME NEW x \in S PROVE \E i \in DOMAIN a : a[i] = x
    <3>1. PICK i \in DOMAIN s : s[i] = x
      BY DEF Holds
    <3> QED
      BY <1>1, <1>2, <3>1
  <2>2. \A i \in DOMAIN a : a[i] \in S \cup {c}
    BY <1>1, <1>2, <1>3
  <2>3. n \in DOMAIN a
    BY <1>1, <1>2
  <2> QED
    BY <1>2, <2>1, <2>2, <2>3
<1>5. \A i, j \in DOMAIN a : a[i] = a[j] => i = j
  <2> SUFFICES ASSUME NEW i \in DOMAIN a, NEW j \in DOMAIN a, a[i] = a[j] PROVE i = j
    OBVIOUS
  <2>1. i \in 1..n /\ j \in 1..n
    BY <1>2
  <2>2. CASE i = n \/ j = n
    BY <1>1, <1>2, <1>3, <2>1, <2>2
  <2>3. CASE i # n /\ j # n
    BY <1>1, <1>2, <2>1, <2>3 DEF Holds
  <2> QED
    BY <2>2, <2>3
<1>6. a # <<>> /\ Head(a) = a[1]
  BY <1>1, <1>2 DEF a
<1>7. s # <<>> => Head(s) = s[1] /\ Len(s) > 0
  BY <1>1
<1>8. s = <<>> => Len(s) = 0
  BY <1>1
<1> QED
  BY <1>1, <1>2, <1>4, <1>5, <1>6, <1>7, <1>8 DEF Holds, a

LEMMA TailHolds ==
    ASSUME NEW S, NEW s, Holds(s, S), s # <<>>
    PROVE  Head(s) \in S /\ Holds(Tail(s), S \ {Head(s)})
<1>1. /\ Len(s) \in Nat /\ Len(s) > 0 /\ DOMAIN s = 1..Len(s) /\ Head(s) = s[1]
      /\ Tail(s) \in Seq(Calls) /\ Len(Tail(s)) = Len(s) - 1
      /\ \A i \in 1..(Len(s) - 1) : Tail(s)[i] = s[i + 1]
  BY HeadTailProperties, LenProperties, EmptySeq DEF Holds
<1>2. DOMAIN Tail(s) = 1..(Len(s) - 1)
  BY <1>1, LenProperties
<1>3. 1 \in DOMAIN s /\ Head(s) \in S
  BY <1>1 DEF Holds
<1>4. {Tail(s)[i] : i \in DOMAIN Tail(s)} = S \ {Head(s)}
  <2>1. ASSUME NEW x \in S \ {Head(s)} PROVE \E i \in DOMAIN Tail(s) : Tail(s)[i] = x
    <3>1. PICK i \in DOMAIN s : s[i] = x
      BY DEF Holds
    <3>2. i # 1 /\ i - 1 \in 1..(Len(s) - 1)
      BY <1>1, <2>1, <3>1
    <3> QED
      BY <1>1, <1>2, <3>1, <3>2
  <2>2. ASSUME NEW i \in DOMAIN Tail(s) PROVE Tail(s)[i] \in S \ {Head(s)}
    <3>1. i + 1 \in DOMAIN s /\ Tail(s)[i] = s[i + 1]
      BY <1>1, <1>2
    <3>2. i + 1 # 1
      BY <1>2
    <3> QED
      BY <1>1, <1>3, <3>1, <3>2 DEF Holds
  <2> QED
    BY <2>1, <2>2
<1>5. \A i, j \in DOMAIN Tail(s) : Tail(s)[i] = Tail(s)[j] => i = j
  <2> SUFFICES ASSUME NEW i \in DOMAIN Tail(s), NEW j \in DOMAIN Tail(s), Tail(s)[i] = Tail(s)[j]
               PROVE  i = j
    OBVIOUS
  <2>1. i + 1 \in DOMAIN s /\ j + 1 \in DOMAIN s /\ s[i + 1] = s[j + 1]
    BY <1>1, <1>2
  <2>2. i + 1 = j + 1
    BY <2>1 DEF Holds
  <2> QED
    BY <1>1, <1>2, <2>2
<1> QED
  BY <1>1, <1>3, <1>4, <1>5 DEF Holds

-----------------------------------------------------------------------------
(* The inductive invariant: requests and exchanges *)

Carrying == {"answered", "queued", "writing"}

Savers(p) == {c \in Calls : home[c] = p /\ call[c].phase \in {"queued", "writing"}}

Types ==
    /\ issued \in Tokens /\ valid \subseteq 1 .. issued /\ revoked \subseteq 1 .. issued
    /\ current \in valid \cup revoked /\ signIns \in 0 .. MaxSignIns
    /\ store \in Tokens \cup {None} /\ crossed \in BOOLEAN
    /\ cached \in [Providers -> Tokens \cup {None}]
    /\ served \in [Providers -> SUBSET Tokens]
    /\ exchanging \in [Providers -> BOOLEAN]
    /\ exchanges \in [Tokens -> Tokens \cup {None, InFlight}]
    /\ issuedBy \in [Tokens -> Tokens \cup {None}]
    /\ refused \subseteq Tokens
    /\ call \in [Calls -> Request]
    /\ home \in [Calls -> Providers] /\ home \in Homes

(* The saves of a provider stand in a queue, and the one that writes is first. *)
Queues ==
    /\ saving \in [Providers -> Seq(Calls)]
    /\ \A p \in Providers : Holds(saving[p], Savers(p))
    /\ \A c \in Calls : call[c].phase = "writing" =>
          saving[home[c]] # <<>> /\ Head(saving[home[c]]) = c

(* What a request in each phase has, and what is recorded of it. *)
RequestOK(c) ==
    /\ call[c].got # None <=> call[c].phase \in Carrying
    /\ call[c].tok # None => call[c].phase \in {"reading", "post", "wait", "refused"}
    /\ call[c].phase \in {"post", "wait", "refused"} =>
          call[c].tok # None /\ call[c].tok \in served[home[c]]
    /\ call[c].phase = "wait" => exchanges[call[c].tok] = InFlight
    /\ call[c].phase = "refused" => call[c].tok \in refused
    /\ call[c].phase = "signedIn" => exchanging[home[c]]
    /\ exchanging[home[c]] /\ ~call[c].code => call[c].phase \in {"idle", "signedIn"}
    /\ call[c].got # None /\ ~call[c].code => issuedBy[call[c].got] # None

(* Nobody has a token before the vendor issued it. *)
Seen ==
    /\ store <= issued
    /\ \A p \in Providers : cached[p] <= issued
    /\ \A c \in Calls : call[c].tok <= issued /\ call[c].got <= issued
    /\ \A t \in refused : t <= issued
    /\ \A t \in Tokens : exchanges[t] <= issued
    /\ \A t \in Tokens : t > issued => exchanges[t] = None /\ issuedBy[t] = None

(* A token that was rotated has one successor, and as long as the answer is
   recorded nobody is refused the token. *)
ExchangeOK(t) ==
    /\ exchanges[t] = InFlight => \E c \in Calls : Sharing(c, t)
    /\ exchanges[t] \in Tokens => issuedBy[exchanges[t]] # None /\ t \notin refused
    /\ exchanges[t] \in Tokens /\ exchanges[t] # t => t \notin valid
    /\ exchanges[t] = t => issuedBy[t] = t
    /\ issuedBy[t] \notin {None, t} => exchanges[issuedBy[t]] = t
    /\ \A u \in Tokens : exchanges[u] = exchanges[t] /\ exchanges[t] \in Tokens \ {t, u} => t = u
    /\ t \in valid => t \notin refused /\ t \notin revoked

(* Until it is stored, nobody but the request that signs in has its token. *)
SigningIn(c) ==
    /\ call[c].phase \in Carrying /\ call[c].got = current /\ exchanging[home[c]]
    /\ \A d \in Calls : /\ d # c => call[d].got # current
                        /\ d # c /\ home[d] = home[c] => call[d].phase = "idle"
                        /\ call[d].tok # current
    /\ \A p \in Providers : cached[p] = current => p = home[c]
    /\ store # current /\ exchanges[current] = None
    /\ \A u \in Tokens : exchanges[u] # current

(* Nor does anyone else ask anything of its provider until it is done. *)
Alone(c) ==
    call[c].phase = "signedIn" =>
        \A d \in Calls : d # c /\ home[d] = home[c] => call[d].phase = "idle"

Basic ==
    /\ Types /\ Queues /\ Seen
    /\ \A c \in Calls : RequestOK(c)
    /\ \A t \in Tokens : ExchangeOK(t)
    /\ \A c \in Calls : call[c].code => SigningIn(c)
    /\ \A c \in Calls : Alone(c)

LEMMA TokenFacts ==
    /\ None \notin Tokens /\ InFlight \notin Tokens /\ None # InFlight
    /\ Tokens \subseteq Nat /\ None \in Nat /\ 1 \in Tokens
BY CredentialAssumption DEF None, InFlight, Tokens

LEMMA InitBasic == Init => Basic
<1> SUFFICES ASSUME Init PROVE Basic
  OBVIOUS
<1> USE CredentialAssumption DEF Init, Tokens, None, InFlight
<1>0. Idle \in Request
  BY DEF Idle, Request, Phases
<1>1. Types
  <2>1. issued \in Tokens /\ valid \subseteq 1 .. issued /\ current \in valid
    OBVIOUS
  <2>2. home \in [Calls -> Providers] /\ home \in Homes
    OBVIOUS
  <2>3. /\ call \in [Calls -> Request] /\ exchanging \in [Providers -> BOOLEAN]
        /\ cached \in [Providers -> Tokens \cup {None}]
        /\ served \in [Providers -> SUBSET Tokens]
    BY <1>0
  <2>4. /\ exchanges \in [Tokens -> Tokens \cup {None, InFlight}]
        /\ issuedBy \in [Tokens -> Tokens \cup {None}]
    OBVIOUS
  <2>5. revoked = {} /\ refused = {} /\ crossed \in BOOLEAN
    OBVIOUS
  <2>6. signIns \in 0 .. MaxSignIns
    OBVIOUS
  <2>7. store \in Tokens \cup {None}
    OBVIOUS
  <2> QED
    BY <2>1, <2>2, <2>3, <2>4, <2>5, <2>6, <2>7 DEF Types
<1>2. Queues
  <2>1. \A p \in Providers : Savers(p) = {}
    BY DEF Savers, Idle
  <2>2. saving \in [Providers -> Seq(Calls)]
    BY HoldsNothing DEF Holds
  <2>3. \A p \in Providers : Holds(saving[p], Savers(p))
    BY <2>1, HoldsNothing
  <2> QED
    BY <2>2, <2>3 DEF Queues, Idle
<1>3. Seen
  BY DEF Seen, Idle
<1>4. \A c \in Calls : RequestOK(c)
  BY DEF RequestOK, Idle, Carrying
<1>5. \A t \in Tokens : ExchangeOK(t)
  BY DEF ExchangeOK
<1>6. \A c \in Calls : ~call[c].code /\ Alone(c)
  BY DEF Idle, Alone
<1> QED
  BY <1>1, <1>2, <1>3, <1>4, <1>5, <1>6 DEF Basic

LEMMA CallFields ==
    ASSUME Types, NEW c \in Calls
    PROVE  /\ call[c] \in Request /\ home[c] \in Providers
           /\ call[c].phase \in Phases /\ call[c].retry \in BOOLEAN
           /\ call[c].tok \in Tokens \cup {None} /\ call[c].got \in Tokens \cup {None}
           /\ call[c].code \in BOOLEAN /\ call[c].over \in BOOLEAN
           /\ call[c] = [phase |-> call[c].phase, tok |-> call[c].tok, got |-> call[c].got,
                         retry |-> call[c].retry, code |-> call[c].code, over |-> call[c].over]
<1>1. call[c] \in Request /\ home[c] \in Providers
  BY DEF Types
<1> QED
  BY <1>1 DEF Request

LEMMA CurrentIsToken ==
    ASSUME Types
    PROVE  /\ current \in Tokens /\ current <= issued /\ issued \in Tokens
           /\ valid \subseteq Tokens /\ revoked \subseteq Tokens
BY CredentialAssumption DEF Types, Tokens

(* Whoever signs in has the only request of its provider, and it carries. *)
LEMMA OneSignsIn ==
    ASSUME Basic, NEW c \in Calls, call[c].code
    PROVE  /\ \A d \in Calls : call[d].code => d = c
           /\ \A d \in Calls : home[d] = home[c] /\ d # c => call[d].phase = "idle"
           /\ exchanging[home[c]] /\ call[c].got = current /\ call[c].phase \in Carrying
<1>1. SigningIn(c) /\ \A d \in Calls : call[d].code => SigningIn(d)
  BY DEF Basic
<1> QED
  BY <1>1 DEF SigningIn

LEMMA AloneStays ==
    ASSUME Basic, NEW c \in Calls, UNCHANGED home,
           \A d \in Calls \ {c} : call'[d].phase = call[d].phase,
           call[c].phase # "idle" \/ ~exchanging[home[c]], call'[c].phase # "signedIn"
    PROVE  \A d \in Calls : Alone(d)'
<1> SUFFICES ASSUME NEW d \in Calls, NEW e \in Calls, call'[d].phase = "signedIn",
                    e # d, home[e] = home[d]
             PROVE  call'[e].phase = "idle"
  BY DEF Alone
<1>1. d # c /\ call[d].phase = "signedIn"
  OBVIOUS
<1>2. exchanging[home[d]] /\ call[e].phase = "idle"
  BY <1>1 DEF Basic, RequestOK, Alone
<1> QED
  BY <1>2

(* A request of a provider with no sign-in goes on to a phase in which it has
   nothing to save, and what it learns of tokens its provider or the store
   knew. *)
LEMMA Moves ==
    ASSUME Basic, NEW c \in Calls, NEW r \in Request, NEW x,
           ~exchanging[home[c]], call[c].got = None, call[c].phase # "wait",
           r.phase \notin Carrying, r.phase # "wait", r.got = None, ~r.code,
           r.tok \in {None, call[c].tok, cached[home[c]], store},
           x \in {None, call[c].tok, cached[home[c]]},
           call' = [call EXCEPT ![c] = r],
           cached' = [cached EXCEPT ![home[c]] = x],
           served' \in [Providers -> SUBSET Tokens],
           \A p \in Providers : served[p] \subseteq served'[p],
           UNCHANGED <<vendor, records, shared, exchanging, saving, home>>,
           RequestOK(c)', r.phase # "signedIn"
    PROVE  Basic'
<1> USE DEF vendor, records, shared
<1>0. /\ Types /\ Queues /\ Seen /\ \A d \in Calls : RequestOK(d)
      /\ \A t \in Tokens : ExchangeOK(t) /\ \A d \in Calls : call[d].code => SigningIn(d)
  BY DEF Basic
<1>a. /\ call \in [Calls -> Request] /\ cached \in [Providers -> Tokens \cup {None}]
      /\ home[c] \in Providers
  BY <1>0, CallFields DEF Types
<1>b. /\ call'[c] = r /\ \A d \in Calls \ {c} : call'[d] = call[d]
      /\ cached'[home[c]] = x /\ \A p \in Providers \ {home[c]} : cached'[p] = cached[p]
  BY <1>a
<1>c. call[c].tok \in Tokens \cup {None} /\ call[c].phase \notin Carrying
  BY <1>0, CallFields DEF RequestOK
<1>d. x \in Tokens \cup {None} /\ x <= issued /\ r.tok <= issued
  BY <1>0, <1>a, <1>c, TokenFacts, CurrentIsToken DEF Seen, None, Types
<1>1. Types'
  BY <1>0, <1>a, <1>d DEF Types
<1>2. Queues'
  <2>1. \A p \in Providers : Savers(p)' = Savers(p)
    BY <1>b, <1>c DEF Savers, Carrying
  <2>2. \A d \in Calls : call'[d].phase = "writing" => call[d].phase = "writing"
    BY <1>b DEF Carrying
  <2> QED
    BY <1>0, <2>1, <2>2 DEF Queues
<1>3. Seen'
  BY <1>0, <1>a, <1>b, <1>d, TokenFacts DEF Seen, None
<1>4. \A d \in Calls : RequestOK(d)'
  <2> SUFFICES ASSUME NEW d \in Calls, d # c PROVE RequestOK(d)'
    OBVIOUS
  <2>1. call'[d] = call[d] /\ RequestOK(d) /\ served[home[d]] \subseteq served'[home[d]]
    BY <1>0, <1>b, CallFields
  <2> QED
    BY <2>1 DEF RequestOK
<1>5. \A t \in Tokens : ExchangeOK(t)'
  <2> SUFFICES ASSUME NEW t \in Tokens PROVE ExchangeOK(t)'
    OBVIOUS
  <2>1. \A d \in Calls : Sharing(d, t) => Sharing(d, t)'
    BY <1>b DEF Sharing
  <2> QED
    BY <1>0, <2>1 DEF ExchangeOK
<1>6. \A d \in Calls : call'[d].code => SigningIn(d)'
  <2> SUFFICES ASSUME NEW d \in Calls, call'[d].code PROVE SigningIn(d)'
    OBVIOUS
  <2>0. d # c
    BY <1>b
  <2>3. call'[d] = call[d]
    BY <1>b, <2>0
  <2>4. call[d].code
    BY <2>3
  <2>5. SigningIn(d)
    BY <2>4 DEF Basic
  <2>6. exchanging[home[d]]
    BY <2>5 DEF SigningIn
  <2>1. call'[d] = call[d] /\ SigningIn(d) /\ home[d] # home[c]
    BY <2>3, <2>5, <2>6
  <2>2. current # None /\ x # current /\ r.tok # current /\ r.got # current
    BY <1>0, <1>a, <2>1, TokenFacts, CurrentIsToken DEF SigningIn
  <2> QED
    BY <1>b, <2>1, <2>2 DEF SigningIn
<1>7. \A d \in Calls : Alone(d)'
  BY <1>b, <1>0, AloneStays DEF RequestOK
<1> QED
  BY <1>1, <1>2, <1>3, <1>4, <1>5, <1>6, <1>7 DEF Basic

(* A request past its reading runs on a provider with no sign-in. *)
LEMMA NotExchanging ==
    ASSUME Basic, NEW c \in Calls, call[c].phase \notin {"idle", "signedIn"}, ~call[c].code
    PROVE  ~exchanging[home[c]]
BY DEF Basic, RequestOK

LEMMA CodeCarries ==
    ASSUME Basic, NEW c \in Calls, call[c].phase \notin Carrying
    PROVE  ~call[c].code /\ call[c].got = None
BY DEF Basic, RequestOK, SigningIn

LEMMA ReadCachedBasic == ASSUME Basic, NEW c \in Calls, ReadCached(c) PROVE Basic'
<1> DEFINE r == [call[c] EXCEPT !.phase = "post", !.tok = cached[home[c]]]
<1>0. Types /\ RequestOK(c)
  BY DEF Basic
<1>1. call[c].phase \in {"idle", "again"} /\ ~exchanging[home[c]] /\ cached[home[c]] # None
  BY DEF ReadCached, Reads
<1>2. ~call[c].code /\ call[c].got = None
  BY <1>1, CodeCarries DEF Carrying
<1>3. home[c] \in Providers /\ call[c] \in Request /\ cached[home[c]] \in Tokens
  BY <1>0, <1>1, CallFields DEF Types
<1>4. /\ r \in Request /\ r.phase = "post" /\ r.tok = cached[home[c]] /\ r.got = None
      /\ r.code = call[c].code
  BY <1>2, <1>3 DEF Request, Phases
<1>5. call' = [call EXCEPT ![c] = r]
  BY <1>0 DEF ReadCached, Posts, Types, Request
<1>6. /\ served' = [served EXCEPT ![home[c]] = @ \cup {cached[home[c]]}]
      /\ UNCHANGED <<vendor, records, shared, cached, exchanging, saving, home>>
  BY DEF ReadCached, Posts
<1>7. /\ served' \in [Providers -> SUBSET Tokens] /\ \A p \in Providers : served[p] \subseteq served'[p]
      /\ cached[home[c]] \in served'[home[c]]
  BY <1>0, <1>3, <1>6 DEF Types
<1> HIDE DEF r
<1>8. call'[c] = r
  BY <1>0, <1>5 DEF Types
<1>9. RequestOK(c)'
  BY <1>0, <1>1, <1>2, <1>4, <1>6, <1>7, <1>8 DEF RequestOK, Carrying
<1>10. cached' = [cached EXCEPT ![home[c]] = cached[home[c]]]
  BY <1>0, <1>3, <1>6 DEF Types
<1> QED
  BY <1>1, <1>2, <1>4, <1>5, <1>6, <1>7, <1>9, <1>10, Moves DEF Carrying

LEMMA ReadStoreBasic == ASSUME Basic, NEW c \in Calls, ReadStore(c) PROVE Basic'
<1> DEFINE r == [call[c] EXCEPT !.phase = "reading", !.tok = store]
<1>0. Types /\ RequestOK(c)
  BY DEF Basic
<1>1. call[c].phase \in {"idle", "again"} /\ ~exchanging[home[c]]
  BY DEF ReadStore, Reads
<1>2. ~call[c].code /\ call[c].got = None
  BY <1>1, CodeCarries DEF Carrying
<1>3. home[c] \in Providers /\ call[c] \in Request /\ store \in Tokens \cup {None}
  BY <1>0, CallFields DEF Types
<1>4. /\ r \in Request /\ r.phase = "reading" /\ r.tok = store /\ r.got = None
      /\ r.code = call[c].code
  BY <1>2, <1>3 DEF Request, Phases
<1>5. call' = [call EXCEPT ![c] = r]
  BY <1>0 DEF ReadStore, Types, Request
<1>6. UNCHANGED <<vendor, records, shared, cached, served, exchanging, saving, home>>
  BY DEF ReadStore, provider
<1> HIDE DEF r
<1>8. call'[c] = r
  BY <1>0, <1>5 DEF Types
<1>9. RequestOK(c)'
  BY <1>0, <1>1, <1>2, <1>4, <1>6, <1>8 DEF RequestOK, Carrying
<1>10. cached' = [cached EXCEPT ![home[c]] = cached[home[c]]]
  BY <1>0, <1>3, <1>6 DEF Types
<1>11. served' \in [Providers -> SUBSET Tokens] /\ \A p \in Providers : served[p] \subseteq served'[p]
  BY <1>0, <1>6 DEF Types
<1> QED
  BY <1>1, <1>2, <1>4, <1>5, <1>6, <1>9, <1>10, <1>11, Moves DEF Carrying

LEMMA ReadLandsBasic == ASSUME Basic, NEW c \in Calls, ReadLands(c) PROVE Basic'
<1> DEFINE r == [call[c] EXCEPT !.phase = "post", !.tok = call[c].tok]
<1>0. Types /\ RequestOK(c)
  BY DEF Basic
<1>1. call[c].phase = "reading" /\ call[c].tok # None
  BY DEF ReadLands
<1>2. ~call[c].code /\ call[c].got = None /\ ~exchanging[home[c]]
  BY <1>1, CodeCarries, NotExchanging DEF Carrying
<1>3. home[c] \in Providers /\ call[c] \in Request /\ call[c].tok \in Tokens
  BY <1>0, <1>1, CallFields DEF Types
<1>4. /\ r \in Request /\ r.phase = "post" /\ r.tok = call[c].tok /\ r.got = None
      /\ r.code = call[c].code
  BY <1>2, <1>3 DEF Request, Phases
<1>5. call' = [call EXCEPT ![c] = r]
  BY <1>0 DEF ReadLands, Posts, Types, Request
<1>6. /\ served' = [served EXCEPT ![home[c]] = @ \cup {call[c].tok}]
      /\ UNCHANGED <<vendor, records, shared, exchanging, saving, home>>
      /\ cached' = [cached EXCEPT ![home[c]] = call[c].tok]
  BY DEF ReadLands, Posts
<1>7. /\ served' \in [Providers -> SUBSET Tokens] /\ \A p \in Providers : served[p] \subseteq served'[p]
      /\ call[c].tok \in served'[home[c]]
  BY <1>0, <1>3, <1>6 DEF Types
<1> HIDE DEF r
<1>8. call'[c] = r
  BY <1>0, <1>5 DEF Types
<1>9. RequestOK(c)'
  BY <1>0, <1>1, <1>2, <1>4, <1>6, <1>7, <1>8 DEF RequestOK, Carrying
<1> QED
  BY <1>1, <1>2, <1>4, <1>5, <1>6, <1>7, <1>9, Moves DEF Carrying

(* Requests that end, or go on to their second try, without a step of the
   exchange: all they have in common. *)
LEMMA Ends ==
    ASSUME Basic, NEW c \in Calls, NEW r \in Request, NEW x,
           ~exchanging[home[c]], call[c].got = None, call[c].phase # "wait",
           r.phase \in {"idle", "again", "deleting"}, r.got = None, ~r.code, r.tok = None,
           x \in {None, cached[home[c]]},
           call' = [call EXCEPT ![c] = r],
           cached' = [cached EXCEPT ![home[c]] = x],
           UNCHANGED <<vendor, records, shared, served, exchanging, saving, home>>
    PROVE  Basic'
<1>0. Types /\ RequestOK(c)
  BY DEF Basic
<1>1. call'[c] = r
  BY <1>0 DEF Types
<1>2. RequestOK(c)'
  BY <1>0, <1>1 DEF RequestOK, Carrying
<1>3. served' \in [Providers -> SUBSET Tokens] /\ \A p \in Providers : served[p] \subseteq served'[p]
  BY <1>0 DEF Types
<1>4. r.phase \notin Carrying /\ r.phase # "wait"
  BY DEF Carrying
<1> QED
  BY <1>2, <1>3, <1>4, Moves

LEMMA IdleRequest ==
    /\ Idle \in Request /\ Idle.phase = "idle" /\ Idle.tok = None /\ Idle.got = None
    /\ Idle.retry = FALSE /\ Idle.code = FALSE /\ Idle.over = FALSE
BY DEF Idle, Request, Phases

LEMMA NothingStoredBasic == ASSUME Basic, NEW c \in Calls, NothingStored(c) PROVE Basic'
<1>0. Types
  BY DEF Basic
<1>1. call[c].phase = "reading" /\ call' = [call EXCEPT ![c] = Idle]
  BY DEF NothingStored, Reauthorize
<1>2. ~exchanging[home[c]] /\ call[c].got = None
  BY <1>1, CodeCarries, NotExchanging DEF Carrying
<1>3. UNCHANGED <<vendor, records, shared, cached, served, exchanging, saving, home>>
  BY DEF NothingStored, Reauthorize, provider
<1>4. cached' = [cached EXCEPT ![home[c]] = cached[home[c]]]
  BY <1>0, <1>3, CallFields DEF Types
<1> QED
  BY <1>1, <1>2, <1>3, <1>4, IdleRequest, Ends

LEMMA AcceptedBasic == ASSUME Basic, NEW c \in Calls, Accepted(c) PROVE Basic'
<1>0. Types
  BY DEF Basic
<1>1. call[c].phase = "post" /\ call' = [call EXCEPT ![c] = Idle]
  BY DEF Accepted
<1>2. ~exchanging[home[c]] /\ call[c].got = None
  BY <1>1, CodeCarries, NotExchanging DEF Carrying
<1>3. UNCHANGED <<vendor, records, shared, cached, served, exchanging, saving, home>>
  BY DEF Accepted, provider
<1>4. cached' = [cached EXCEPT ![home[c]] = cached[home[c]]]
  BY <1>0, <1>3, CallFields DEF Types
<1> QED
  BY <1>1, <1>2, <1>3, <1>4, IdleRequest, Ends

LEMMA RefusedAgainBasic == ASSUME Basic, NEW c \in Calls, RefusedAgain(c) PROVE Basic'
<1>0. Types
  BY DEF Basic
<1>1. call[c].phase = "refused" /\ call' = [call EXCEPT ![c] = Idle]
  BY DEF RefusedAgain
<1>2. ~exchanging[home[c]] /\ call[c].got = None
  BY <1>1, CodeCarries, NotExchanging DEF Carrying
<1>3. UNCHANGED <<vendor, records, shared, cached, served, exchanging, saving, home>>
  BY DEF RefusedAgain, provider
<1>4. cached' = [cached EXCEPT ![home[c]] = cached[home[c]]]
  BY <1>0, <1>3, CallFields DEF Types
<1> QED
  BY <1>1, <1>2, <1>3, <1>4, IdleRequest, Ends

LEMMA InvalidateBasic == ASSUME Basic, NEW c \in Calls, Invalidate(c) PROVE Basic'
<1> DEFINE r == [Idle EXCEPT !.phase = IF KeepsStored(home[c]) THEN "again" ELSE "deleting",
                             !.retry = TRUE]
<1>1. call[c].phase = "refused" /\ call' = [call EXCEPT ![c] = r]
  BY DEF Invalidate
<1>2. ~exchanging[home[c]] /\ call[c].got = None
  BY <1>1, CodeCarries, NotExchanging DEF Carrying
<1>3. /\ UNCHANGED <<vendor, records, shared, served, exchanging, saving, home>>
      /\ cached' = [cached EXCEPT ![home[c]] = None]
  BY DEF Invalidate
<1>4. /\ r \in Request /\ r.phase \in {"again", "deleting"} /\ r.got = None /\ ~r.code
      /\ r.tok = None
  BY DEF Idle, Request, Phases
<1> HIDE DEF r
<1>5. call[c].phase # "wait" /\ r.phase \in {"idle", "again", "deleting"}
  BY <1>1, <1>4
<1> QED
  BY <1>1, <1>2, <1>3, <1>4, <1>5, Ends

LEMMA QueuesStay ==
    ASSUME Queues, UNCHANGED <<saving, home>>,
           \A d \in Calls : /\ call'[d].phase \in {"queued", "writing"} <=> call[d].phase \in {"queued", "writing"}
                            /\ call'[d].phase = "writing" => call[d].phase = "writing"
    PROVE  Queues'
<1>1. \A p \in Providers : Savers(p)' = Savers(p)
  BY DEF Savers
<1> QED
  BY <1>1 DEF Queues

LEMMA BasicParts ==
    ASSUME Basic
    PROVE  /\ Types /\ Queues /\ Seen /\ \A d \in Calls : RequestOK(d)
           /\ \A t \in Tokens : ExchangeOK(t)
BY DEF Basic

LEMMA SpendBasic == ASSUME Basic, NEW c \in Calls, Spend(c) PROVE Basic'
<1> DEFINE t == call[c].tok
<1>0. Types /\ Queues /\ Seen /\ RequestOK(c)
  BY BasicParts
<1>1. call[c].phase = "post" /\ t \in Tokens /\ ~exchanging[home[c]] /\ call[c].got = None /\ ~call[c].code
  <2>1. call[c].phase = "post"
    BY DEF Spend
  <2> QED
    BY <1>0, <2>1, CodeCarries, NotExchanging, CallFields DEF Carrying, RequestOK
<1>2. /\ UNCHANGED <<vendor, records, provider, issuedBy, refused>>
      /\ home[c] \in Providers /\ call[c] \in Request
  BY <1>0, CallFields DEF Spend
<1>s. ASSUME NEW d \in Calls, call[d].code
      PROVE  SigningIn(d) /\ d # c /\ home[d] # home[c] /\ t # current /\ current \in Tokens
  <2>1. SigningIn(d) /\ d # c
    BY <1>1, <1>s DEF Basic
  <2> QED
    BY <1>0, <1>1, <2>1, CurrentIsToken DEF SigningIn
<1> USE DEF vendor, records, provider
<1>3. CASE exchanges[t] \in Tokens
  <2> DEFINE r == Answered(call[c], exchanges[t])
  <2>1. call' = [call EXCEPT ![c] = r] /\ UNCHANGED exchanges
    BY <1>3, TokenFacts DEF Spend
  <2>2. /\ r \in Request /\ r.phase = "answered" /\ r.tok = None /\ r.got = exchanges[t]
        /\ r.code = call[c].code
    BY <1>2, <1>3 DEF Answered, Request, Phases
  <2> HIDE DEF r
  <2>3. call'[c] = r /\ \A d \in Calls \ {c} : call'[d] = call[d]
    BY <1>0, <2>1 DEF Types
  <2>4. Types'
    BY <1>0, <1>2, <2>1, <2>2 DEF Types
  <2>5. Queues'
    BY <1>0, <1>1, <1>2, <2>2, <2>3, QueuesStay
  <2>6. Seen'
    BY <1>0, <1>1, <1>2, <1>3, <2>1, <2>2, <2>3, TokenFacts DEF Seen, None, Types, Tokens
  <2>7. \A d \in Calls : RequestOK(d)'
    <3>1. RequestOK(c)'
      BY <1>1, <1>2, <1>3, <2>1, <2>2, <2>3, BasicParts, TokenFacts DEF RequestOK, ExchangeOK, Carrying
    <3>2. ASSUME NEW d \in Calls, d # c PROVE RequestOK(d)'
      BY <1>2, <2>1, <2>3, <3>2, BasicParts DEF RequestOK
    <3> QED
      BY <3>1, <3>2
  <2>8. \A u \in Tokens : ExchangeOK(u)'
    <3> SUFFICES ASSUME NEW u \in Tokens PROVE ExchangeOK(u)'
      OBVIOUS
    <3>1. \A d \in Calls : Sharing(d, u) => Sharing(d, u)'
      BY <1>1, <2>3 DEF Sharing
    <3> QED
      BY <1>2, <2>1, <3>1, BasicParts DEF ExchangeOK
  <2>9. \A d \in Calls : call'[d].code => SigningIn(d)'
    <3> SUFFICES ASSUME NEW d \in Calls, call'[d].code PROVE SigningIn(d)'
      OBVIOUS
    <3>0. d # c
      BY <1>1, <2>2, <2>3
    <3>1. call[d].code
      BY <2>3, <3>0
    <3>2. SigningIn(d) /\ home[d] # home[c] /\ current \in Tokens
      BY <1>s, <3>1
    <3>3. exchanges[t] # current /\ None # current
      BY <1>1, <3>2, TokenFacts DEF SigningIn
    <3> QED
      BY <1>2, <2>1, <2>2, <2>3, <3>0, <3>2, <3>3 DEF SigningIn
  <2>10. \A d \in Calls : Alone(d)'
    BY <1>1, <1>2, <2>2, <2>3, AloneStays
  <2> QED
    BY <2>4, <2>5, <2>6, <2>7, <2>8, <2>9, <2>10 DEF Basic
<1>4. CASE exchanges[t] \notin Tokens
  <2> DEFINE r == [call[c] EXCEPT !.phase = "wait"]
  <2>1. call' = [call EXCEPT ![c] = r] /\ exchanges' = [exchanges EXCEPT ![t] = InFlight]
    BY <1>0, <1>4 DEF Spend, Types, Request
  <2>2. /\ r \in Request /\ r.phase = "wait" /\ r.tok = t /\ r.got = None
        /\ r.code = call[c].code
    BY <1>1, <1>2 DEF Request, Phases
  <2> HIDE DEF r
  <2>3. call'[c] = r /\ \A d \in Calls \ {c} : call'[d] = call[d]
    BY <1>0, <2>1 DEF Types
  <2>a. exchanges'[t] = InFlight /\ \A u \in Tokens \ {t} : exchanges'[u] = exchanges[u]
    BY <1>0, <1>1, <2>1 DEF Types
  <2>4. Types'
    BY <1>0, <1>2, <2>1, <2>2 DEF Types
  <2>5. Queues'
    BY <1>0, <1>1, <1>2, <2>2, <2>3, QueuesStay
  <2>6. Seen'
    <3>1. InFlight <= issued /\ t <= issued /\ None <= issued
      BY <1>0, TokenFacts, CurrentIsToken DEF Seen, InFlight, None, Tokens
    <3>2. \A d \in Calls : call'[d].tok <= issued /\ call'[d].got <= issued
      BY <1>0, <1>1, <2>2, <2>3, <3>1 DEF Seen
    <3>3. \A u \in Tokens : exchanges'[u] <= issued
      BY <1>0, <2>a, <3>1 DEF Seen
    <3>4. t \in Nat /\ issued \in Nat
      BY <1>0, <1>1, TokenFacts, CurrentIsToken
    <3>5. \A u \in Tokens : u > issued => exchanges'[u] = None /\ issuedBy[u] = None
      BY <1>0, <2>a, <3>1, <3>4 DEF Seen
    <3> QED
      BY <1>0, <1>2, <3>2, <3>3, <3>5 DEF Seen
  <2>7. \A d \in Calls : RequestOK(d)'
    <3>1. RequestOK(c)'
      BY <1>1, <1>2, <2>2, <2>3, <2>a, BasicParts, TokenFacts DEF RequestOK, Carrying
    <3>2. ASSUME NEW d \in Calls, d # c PROVE RequestOK(d)'
      <4>1. call[d].phase = "wait" => exchanges'[call[d].tok] = InFlight
        BY <1>0, <2>a, BasicParts, CallFields DEF RequestOK
      <4> QED
        BY <1>2, <2>3, <3>2, <4>1, BasicParts DEF RequestOK
    <3> QED
      BY <3>1, <3>2
  <2>8. \A u \in Tokens : ExchangeOK(u)'
    <3> SUFFICES ASSUME NEW u \in Tokens PROVE ExchangeOK(u)'
      OBVIOUS
    <3>1. \A d \in Calls : Sharing(d, u) => Sharing(d, u)'
      BY <1>1, <2>3 DEF Sharing
    <3>2. u = t => Sharing(c, u)'
      BY <2>2, <2>3 DEF Sharing
    <3>3. \A v \in Tokens : exchanges'[v] \in Tokens => v # t /\ exchanges'[v] = exchanges[v]
      BY <2>a, TokenFacts
    <3>4. \A v \in Tokens : issuedBy[v] \notin {None, v} => issuedBy[v] # t /\ issuedBy[v] \in Tokens
      BY <1>0, <1>1, <1>4, BasicParts DEF ExchangeOK, Types
    <3>a. ExchangeOK(u) /\ \A v \in Tokens : ExchangeOK(v)
      BY BasicParts
    <3>5. exchanges'[u] = InFlight => \E d \in Calls : Sharing(d, u)'
      <4>1. u # t /\ exchanges'[u] = InFlight => \E d \in Calls : Sharing(d, u)
        BY <2>a, <3>a DEF ExchangeOK
      <4> QED
        BY <3>1, <3>2, <4>1
    <3>6. /\ exchanges'[u] \in Tokens => issuedBy[exchanges'[u]] # None /\ u \notin refused
          /\ exchanges'[u] \in Tokens /\ exchanges'[u] # u => u \notin valid
          /\ exchanges'[u] = u => issuedBy[u] = u
          /\ u \in valid => u \notin refused /\ u \notin revoked
      BY <3>3, <3>a DEF ExchangeOK
    <3>7. issuedBy[u] \notin {None, u} => exchanges'[issuedBy[u]] = u
      BY <2>a, <3>4, <3>a DEF ExchangeOK
    <3>8. \A v \in Tokens : exchanges'[v] = exchanges'[u] /\ exchanges'[u] \in Tokens \ {u, v} => u = v
      BY <3>3, <3>a DEF ExchangeOK
    <3> QED
      BY <1>2, <3>5, <3>6, <3>7, <3>8 DEF ExchangeOK
  <2>9. \A d \in Calls : call'[d].code => SigningIn(d)'
    <3> SUFFICES ASSUME NEW d \in Calls, call'[d].code PROVE SigningIn(d)'
      OBVIOUS
    <3>0. d # c
      BY <1>1, <2>2, <2>3
    <3>1. call[d].code
      BY <2>3, <3>0
    <3>2. SigningIn(d) /\ home[d] # home[c] /\ current \in Tokens /\ t # current
      BY <1>s, <3>1
    <3>3. None # current /\ InFlight # current
      BY <3>2, TokenFacts
    <3> QED
      BY <1>2, <2>a, <2>2, <2>3, <3>0, <3>2, <3>3 DEF SigningIn
  <2>10. \A d \in Calls : Alone(d)'
    BY <1>1, <1>2, <2>2, <2>3, AloneStays
  <2> QED
    BY <2>4, <2>5, <2>6, <2>7, <2>8, <2>9, <2>10 DEF Basic
<1> QED
  BY <1>3, <1>4

(* What the exchanges record stays as it is as long as those who share an
   exchange still do. *)
LEMMA ExchangesStay ==
    ASSUME Basic, UNCHANGED <<valid, revoked, shared>>,
           \A d \in Calls : call[d].phase = "wait" => call'[d].phase = "wait" /\ call'[d].tok = call[d].tok
    PROVE  \A t \in Tokens : ExchangeOK(t)'
<1> SUFFICES ASSUME NEW t \in Tokens PROVE ExchangeOK(t)'
  OBVIOUS
<1>1. \A d \in Calls : Sharing(d, t) => Sharing(d, t)'
  BY DEF Sharing
<1>2. ExchangeOK(t)
  BY DEF Basic
<1> QED
  BY <1>1, <1>2 DEF ExchangeOK, shared

(* The other requests of a step that moves one. *)
LEMMA OthersStay ==
    ASSUME Basic, NEW d \in Calls, call'[d] = call[d] \/ call'[d] = [call[d] EXCEPT !.over = TRUE],
           UNCHANGED <<home, shared, exchanging>>,
           \A p \in Providers : served[p] \subseteq served'[p]
    PROVE  RequestOK(d)'
<1>1. /\ call'[d].phase = call[d].phase /\ call'[d].tok = call[d].tok
      /\ call'[d].got = call[d].got /\ call'[d].code = call[d].code
      /\ home[d] \in Providers
  BY BasicParts, CallFields
<1> QED
  BY <1>1, BasicParts DEF RequestOK, shared

LEMMA EnqueueBasic == ASSUME Basic, NEW c \in Calls, Enqueue(c) PROVE Basic'
<1> DEFINE r == [call[c] EXCEPT !.phase = "queued"]
           p == home[c]
<1>0. Types /\ Queues /\ Seen /\ RequestOK(c)
  BY BasicParts
<1>1. /\ call[c].phase = "answered" /\ call' = [call EXCEPT ![c] = r]
      /\ saving' = [saving EXCEPT ![p] = Append(saving[p], c)]
      /\ UNCHANGED <<vendor, records, shared, cached, served, exchanging, home>>
  BY <1>0 DEF Enqueue, Types, Request
<1>2. p \in Providers /\ call[c] \in Request
  BY <1>0, CallFields
<1>3. /\ r \in Request /\ r.phase = "queued" /\ r.tok = call[c].tok /\ r.got = call[c].got
      /\ r.code = call[c].code
  BY <1>2 DEF Request, Phases
<1> HIDE DEF r
<1>4. call'[c] = r /\ \A d \in Calls \ {c} : call'[d] = call[d]
  BY <1>0, <1>1 DEF Types
<1> USE DEF vendor, records, shared
<1>5. Types'
  BY <1>0, <1>1, <1>3 DEF Types
<1>6. Queues'
  <2>1. Savers(p)' = Savers(p) \cup {c} /\ \A q \in Providers \ {p} : Savers(q)' = Savers(q)
    BY <1>1, <1>3, <1>4 DEF Savers
  <2>2. c \notin Savers(p) /\ Holds(saving[p], Savers(p)) /\ saving[p] \in Seq(Calls)
    BY <1>0, <1>1, <1>2 DEF Savers, Queues
  <2>3. /\ Holds(Append(saving[p], c), Savers(p) \cup {c})
        /\ Append(saving[p], c) # <<>>
        /\ Head(Append(saving[p], c)) = IF saving[p] = <<>> THEN c ELSE Head(saving[p])
    BY <2>2, AppendHolds
  <2>4. /\ saving'[p] = Append(saving[p], c) /\ \A q \in Providers \ {p} : saving'[q] = saving[q]
        /\ saving' \in [Providers -> Seq(Calls)]
    BY <1>0, <1>1, <1>2, <2>2 DEF Queues
  <2>5. \A q \in Providers : Holds(saving'[q], Savers(q)')
    <3>1. Holds(saving'[p], Savers(p)')
      BY <2>1, <2>3, <2>4
    <3>2. ASSUME NEW q \in Providers, q # p PROVE Holds(saving'[q], Savers(q)')
      <4>1. saving'[q] = saving[q] /\ Savers(q)' = Savers(q) /\ Holds(saving[q], Savers(q))
        BY <1>0, <2>1, <2>4, <3>2 DEF Queues
      <4> QED
        BY <4>1
    <3> QED
      BY <1>1, <3>1, <3>2
  <2>6. \A d \in Calls : call'[d].phase = "writing" =>
            saving'[home[d]] # <<>> /\ Head(saving'[home[d]]) = d
    <3> SUFFICES ASSUME NEW d \in Calls, call'[d].phase = "writing"
                 PROVE  saving'[home[d]] # <<>> /\ Head(saving'[home[d]]) = d
      OBVIOUS
    <3>1. call[d].phase = "writing" /\ d # c
      BY <1>3, <1>4
    <3>2. saving[home[d]] # <<>> /\ Head(saving[home[d]]) = d /\ home[d] \in Providers
      BY <1>0, <3>1, CallFields DEF Queues
    <3> QED
      BY <2>3, <2>4, <3>2
  <2> QED
    BY <1>1, <2>4, <2>5, <2>6 DEF Queues
<1>7. Seen'
  BY <1>0, <1>1, <1>3, <1>4 DEF Seen
<1>8. \A d \in Calls : RequestOK(d)'
  <2>1. RequestOK(c)'
    BY <1>0, <1>1, <1>3, <1>4 DEF RequestOK, Carrying
  <2>2. ASSUME NEW d \in Calls, d # c PROVE RequestOK(d)'
    BY <1>1, <1>4, <2>2, OthersStay
  <2> QED
    BY <2>1, <2>2
<1>9. \A t \in Tokens : ExchangeOK(t)'
  BY <1>1, <1>3, <1>4, ExchangesStay
<1>10. \A d \in Calls : call'[d].code => SigningIn(d)'
  <2> SUFFICES ASSUME NEW d \in Calls, call'[d].code PROVE SigningIn(d)'
    OBVIOUS
  <2>0. call'[d].code = call[d].code
    BY <1>3, <1>4
  <2>1. SigningIn(d)
    BY <2>0 DEF Basic
  <2>2. /\ \A e \in Calls : call'[e].got = call[e].got /\ call'[e].tok = call[e].tok
        /\ \A e \in Calls : call[e].phase = "idle" => call'[e].phase = "idle"
        /\ \A e \in Calls : call[e].phase \in Carrying => call'[e].phase \in Carrying
    BY <1>1, <1>3, <1>4 DEF Carrying
  <2> QED
    BY <1>1, <2>1, <2>2 DEF SigningIn
<1>11. \A d \in Calls : Alone(d)'
  BY <1>1, <1>3, <1>4, AloneStays
<1> QED
  BY <1>5, <1>6, <1>7, <1>8, <1>9, <1>10, <1>11 DEF Basic

(* The first save of a provider ends: it leaves the queue. *)
LEMMA QueuePops ==
    ASSUME Types, Queues, NEW c \in Calls, call[c].phase \in {"queued", "writing"},
           call[c].phase = "queued" => InTurn(c),
           call'[c].phase \notin {"queued", "writing"},
           \A d \in Calls \ {c} : call'[d].phase = call[d].phase,
           saving' = [saving EXCEPT ![home[c]] = Tail(@)],
           UNCHANGED home
    PROVE  Queues'
<1> DEFINE p == home[c]
<1>1. p \in Providers /\ saving \in [Providers -> Seq(Calls)] /\ Holds(saving[p], Savers(p))
  BY CallFields DEF Queues
<1>2. saving'[p] = Tail(saving[p]) /\ \A q \in Providers \ {p} : saving'[q] = saving[q]
  BY <1>1
<1>3. c \in Savers(p) /\ saving[p] # <<>>
  <2>1. c \in Savers(p)
    BY DEF Savers
  <2>2. saving[p] = <<>> => \A i \in DOMAIN saving[p] : FALSE
    BY EmptySeq, LenProperties, <1>1
  <2> QED
    BY <1>1, <2>1, <2>2 DEF Holds
<1>4. Head(saving[p]) = c
  BY DEF Queues, InTurn
<1>5. Holds(Tail(saving[p]), Savers(p) \ {c})
  BY <1>1, <1>3, <1>4, TailHolds
<1>6. Savers(p)' = Savers(p) \ {c} /\ \A q \in Providers \ {p} : Savers(q)' = Savers(q)
  BY DEF Savers
<1>7. \A q \in Providers : Holds(saving'[q], Savers(q)')
  <2>1. Holds(saving'[p], Savers(p)')
    BY <1>2, <1>5, <1>6
  <2>2. ASSUME NEW q \in Providers, q # p PROVE Holds(saving'[q], Savers(q)')
    <3>1. saving'[q] = saving[q] /\ Savers(q)' = Savers(q) /\ Holds(saving[q], Savers(q))
      BY <1>2, <1>6, <2>2 DEF Queues
    <3> QED
      BY <3>1
  <2> QED
    BY <2>1, <2>2
<1>8. saving' \in [Providers -> Seq(Calls)]
  <2>1. Tail(saving[p]) \in Seq(Calls)
    BY <1>5 DEF Holds
  <2> QED
    BY <1>1, <2>1
<1>9. \A d \in Calls : call'[d].phase = "writing" =>
          saving'[home[d]] # <<>> /\ Head(saving'[home[d]]) = d
  <2> SUFFICES ASSUME NEW d \in Calls, call'[d].phase = "writing"
               PROVE  saving'[home[d]] # <<>> /\ Head(saving'[home[d]]) = d
    OBVIOUS
  <2>1. d # c /\ call[d].phase = "writing" /\ home[d] \in Providers
    BY CallFields
  <2>2. saving[home[d]] # <<>> /\ Head(saving[home[d]]) = d
    BY <2>1 DEF Queues
  <2>3. home[d] # p
    BY <1>4, <2>1, <2>2
  <2> QED
    BY <1>2, <2>1, <2>2, <2>3
<1> QED
  BY <1>7, <1>8, <1>9 DEF Queues

LEMMA DropStaleBasic == ASSUME Basic, NEW c \in Calls, DropStale(c) PROVE Basic'
<1> DEFINE p == home[c]
<1>0. Types /\ Queues /\ Seen /\ RequestOK(c)
  BY BasicParts
<1>1. /\ call[c].phase = "queued" /\ InTurn(c) /\ call' = [call EXCEPT ![c] = Idle]
      /\ cached' = [cached EXCEPT ![p] = None]
      /\ saving' = [saving EXCEPT ![p] = Tail(@)]
      /\ UNCHANGED <<vendor, records, shared, served, exchanging, home>>
  BY DEF DropStale
<1>2. p \in Providers /\ call[c] \in Request
  BY <1>0, CallFields
<1>3. ~call[c].code
  <2>1. SpentFor(c) # None
    BY DEF DropStale, StaleResult
  <2>2. ~exchanging[p]
    BY <2>1 DEF SpentFor
  <2>3. call[c].code => SigningIn(c)
    BY DEF Basic
  <2> QED
    BY <2>2, <2>3 DEF SigningIn
<1>4. call'[c] = Idle /\ \A d \in Calls \ {c} : call'[d] = call[d]
  BY <1>0, <1>1 DEF Types
<1>a. cached'[p] = None /\ \A q \in Providers \ {p} : cached'[q] = cached[q]
  BY <1>0, <1>1, <1>2 DEF Types
<1> USE DEF vendor, records, shared
<1>5. Types'
  BY <1>0, <1>1, IdleRequest DEF Types
<1>6. Queues'
  BY <1>0, <1>1, <1>4, IdleRequest, QueuePops
<1>7. Seen'
  <2>1. None <= issued
    BY <1>0, CurrentIsToken, TokenFacts DEF None, Tokens
  <2>2. \A q \in Providers : cached'[q] <= issued
    BY <1>0, <1>a, <2>1 DEF Seen
  <2>3. \A d \in Calls : call'[d].tok <= issued /\ call'[d].got <= issued
    BY <1>0, <1>4, <2>1, IdleRequest DEF Seen
  <2> QED
    BY <1>0, <1>1, <2>2, <2>3 DEF Seen
<1>8. \A d \in Calls : RequestOK(d)'
  <2>1. RequestOK(c)'
    BY <1>0, <1>1, <1>3, <1>4, IdleRequest DEF RequestOK, Carrying
  <2>2. ASSUME NEW d \in Calls, d # c PROVE RequestOK(d)'
    BY <1>1, <1>4, <2>2, OthersStay
  <2> QED
    BY <2>1, <2>2
<1>9. \A t \in Tokens : ExchangeOK(t)'
  BY <1>1, <1>4, ExchangesStay
<1>10. \A d \in Calls : call'[d].code => SigningIn(d)'
  <2> SUFFICES ASSUME NEW d \in Calls, call'[d].code PROVE SigningIn(d)'
    OBVIOUS
  <2>0. d # c
    BY <1>4, IdleRequest
  <2>1. SigningIn(d) /\ current # None
    BY <1>0, <1>4, <2>0, CurrentIsToken, TokenFacts DEF Basic
  <2> QED
    BY <1>1, <1>4, <1>a, <2>0, <2>1, IdleRequest DEF SigningIn
<1>11. \A d \in Calls : Alone(d)'
  BY <1>1, IdleRequest, <1>4, AloneStays
<1> QED
  BY <1>5, <1>6, <1>7, <1>8, <1>9, <1>10, <1>11 DEF Basic

LEMMA BeginWriteBasic == ASSUME Basic, NEW c \in Calls, BeginWrite(c) PROVE Basic'
<1> DEFINE p == home[c]
           r == [call[c] EXCEPT !.phase = "writing"]
<1>0. Types /\ Queues /\ Seen /\ RequestOK(c)
  BY BasicParts
<1>1. /\ call[c].phase = "queued" /\ InTurn(c) /\ call' = [call EXCEPT ![c] = r]
      /\ cached' = [cached EXCEPT ![p] = call[c].got]
      /\ UNCHANGED <<vendor, records, shared, served, exchanging, saving, home>>
  BY <1>0 DEF BeginWrite, Types, Request
<1>2. p \in Providers /\ call[c] \in Request /\ call[c].got \in Tokens
  BY <1>0, <1>1, CallFields DEF RequestOK, Carrying
<1>3. /\ r \in Request /\ r.phase = "writing" /\ r.tok = call[c].tok /\ r.got = call[c].got
      /\ r.code = call[c].code
  BY <1>2 DEF Request, Phases
<1> HIDE DEF r
<1>4. call'[c] = r /\ \A d \in Calls \ {c} : call'[d] = call[d]
  BY <1>0, <1>1 DEF Types
<1>a. cached'[p] = call[c].got /\ \A q \in Providers \ {p} : cached'[q] = cached[q]
  BY <1>0, <1>1, <1>2 DEF Types
<1> USE DEF vendor, records, shared
<1>5. Types'
  BY <1>0, <1>1, <1>2, <1>3 DEF Types
<1>6. Queues'
  <2>1. \A q \in Providers : Savers(q)' = Savers(q)
    BY <1>1, <1>3, <1>4 DEF Savers
  <2>2. saving[p] # <<>> /\ Head(saving[p]) = c
    <3>1. c \in Savers(p) /\ Holds(saving[p], Savers(p))
      BY <1>0, <1>1, <1>2 DEF Savers, Queues
    <3>2. saving[p] = <<>> => \A i \in DOMAIN saving[p] : FALSE
      BY EmptySeq, LenProperties, <3>1 DEF Holds
    <3> QED
      BY <1>1, <3>1, <3>2 DEF Holds, InTurn
  <2> QED
    BY <1>0, <1>1, <1>4, <2>1, <2>2 DEF Queues
<1>7. Seen'
  BY <1>0, <1>1, <1>3, <1>4, <1>a DEF Seen
<1>8. \A d \in Calls : RequestOK(d)'
  <2>1. RequestOK(c)'
    BY <1>0, <1>1, <1>3, <1>4 DEF RequestOK, Carrying
  <2>2. ASSUME NEW d \in Calls, d # c PROVE RequestOK(d)'
    BY <1>1, <1>4, <2>2, OthersStay
  <2> QED
    BY <2>1, <2>2
<1>9. \A t \in Tokens : ExchangeOK(t)'
  BY <1>1, <1>3, <1>4, ExchangesStay
<1>10. \A d \in Calls : call'[d].code => SigningIn(d)'
  <2> SUFFICES ASSUME NEW d \in Calls, call'[d].code PROVE SigningIn(d)'
    OBVIOUS
  <2>0. call'[d].code = call[d].code
    BY <1>3, <1>4
  <2>1. SigningIn(d)
    BY <2>0 DEF Basic
  <2>2. /\ \A e \in Calls : call'[e].got = call[e].got /\ call'[e].tok = call[e].tok
        /\ \A e \in Calls : call[e].phase = "idle" => call'[e].phase = "idle"
        /\ \A e \in Calls : call[e].phase \in Carrying => call'[e].phase \in Carrying
    BY <1>1, <1>3, <1>4 DEF Carrying
  <2>3. \A q \in Providers : cached'[q] = current => q = home[d]
    <3>1. d # c => call[c].got # current
      BY <2>1 DEF SigningIn
    <3> QED
      BY <1>a, <2>1, <3>1 DEF SigningIn
  <2> QED
    BY <1>1, <2>1, <2>2, <2>3 DEF SigningIn
<1>11. \A d \in Calls : Alone(d)'
  BY <1>1, <1>3, <1>4, AloneStays
<1> QED
  BY <1>5, <1>6, <1>7, <1>8, <1>9, <1>10, <1>11 DEF Basic

LEMMA StoresFacts ==
    ASSUME Types, NEW c \in Calls, NEW t \in Tokens \cup {None}, NEW r \in Request, Stores(c, t, r)
    PROVE  /\ call' \in [Calls -> Request] /\ crossed' \in BOOLEAN /\ store' = t /\ call'[c] = r
           /\ \A d \in Calls \ {c} :
                 /\ call'[d] = call[d] \/ call'[d] = [call[d] EXCEPT !.over = TRUE]
                 /\ call'[d].phase = call[d].phase /\ call'[d].tok = call[d].tok
                 /\ call'[d].got = call[d].got /\ call'[d].code = call[d].code
                 /\ call'[d].retry = call[d].retry
                 /\ call[d].over => call'[d].over
                 /\ call[d].phase \in {"writing", "deleting"} /\ home[d] # home[c] /\ store # t =>
                       call'[d].over
                 /\ call'[d].over => call[d].over \/ store # t
<1>1. call'[c] = r
  BY DEF Stores
<1>2. ASSUME NEW d \in Calls, d # c
      PROVE  /\ call'[d] \in Request
             /\ call'[d] = call[d] \/ call'[d] = [call[d] EXCEPT !.over = TRUE]
             /\ call'[d].phase = call[d].phase /\ call'[d].tok = call[d].tok
             /\ call'[d].got = call[d].got /\ call'[d].code = call[d].code
             /\ call'[d].retry = call[d].retry
             /\ call[d].over => call'[d].over
             /\ call[d].phase \in {"writing", "deleting"} /\ home[d] # home[c] /\ store # t =>
                   call'[d].over
             /\ call'[d].over => call[d].over \/ store # t
  <2> DEFINE o == call[d].phase \in {"writing", "deleting"} /\ home[d] # home[c] /\ store # t
  <2>1. call'[d] = IF o THEN [call[d] EXCEPT !.over = TRUE] ELSE call[d]
    BY <1>2 DEF Stores
  <2>2. call[d] \in Request
    BY CallFields
  <2> HIDE DEF o
  <2>3. /\ call'[d] \in Request
        /\ call'[d] = call[d] \/ call'[d] = [call[d] EXCEPT !.over = TRUE]
        /\ call'[d].phase = call[d].phase /\ call'[d].tok = call[d].tok
        /\ call'[d].got = call[d].got /\ call'[d].code = call[d].code
        /\ call'[d].retry = call[d].retry
    BY <2>1, <2>2 DEF Request
  <2>4. o => call'[d].over = TRUE
    BY <2>1, <2>2 DEF Request
  <2>5. ~o => call'[d].over = call[d].over
    BY <2>1
  <2>6. call'[d].over = (call[d].over \/ o)
    <3>1. call[d].over \in BOOLEAN
      BY CallFields
    <3> QED
      BY <2>4, <2>5, <3>1
  <2> QED
    BY <2>3, <2>6 DEF o
<1>3. call' \in [Calls -> Request]
  <2>1. \A d \in Calls : call'[d] \in Request
    BY <1>1, <1>2
  <2>2. call' = [d \in Calls |-> call'[d]]
    BY DEF Stores
  <2> QED
    BY <2>1, <2>2
<1>4. store' = t /\ crossed' \in BOOLEAN
  <2>1. call[c].over \in BOOLEAN /\ crossed \in BOOLEAN
    BY CallFields DEF Types
  <2> QED
    BY <2>1 DEF Stores
<1> QED
  BY <1>1, <1>2, <1>3, <1>4

LEMMA EndWriteBasic == ASSUME Basic, NEW c \in Calls, EndWrite(c) PROVE Basic'
<1> DEFINE p == home[c]
           r == IF call[c].code THEN [Idle EXCEPT !.phase = "signedIn"] ELSE Idle
           t == call[c].got
<1>0. Types /\ Queues /\ Seen /\ RequestOK(c)
  BY BasicParts
<1>1. /\ call[c].phase = "writing" /\ Stores(c, t, r)
      /\ saving' = [saving EXCEPT ![p] = Tail(@)]
      /\ UNCHANGED <<vendor, shared, cached, served, exchanging, home>>
  BY DEF EndWrite
<1>2. p \in Providers /\ call[c] \in Request /\ t \in Tokens /\ call[c].code \in BOOLEAN
  BY <1>0, <1>1, CallFields DEF RequestOK, Carrying
<1>3. /\ r \in Request /\ r.phase = IF call[c].code THEN "signedIn" ELSE "idle"
      /\ r.tok = None /\ r.got = None /\ r.code = FALSE /\ r.over = FALSE
  BY <1>2 DEF Request, Phases, Idle
<1> HIDE DEF r
<1>4. /\ call'[c] = r /\ call' \in [Calls -> Request] /\ crossed' \in BOOLEAN /\ store' = t
      /\ \A d \in Calls \ {c} :
            /\ call'[d] = call[d] \/ call'[d] = [call[d] EXCEPT !.over = TRUE]
            /\ call'[d].phase = call[d].phase /\ call'[d].tok = call[d].tok
            /\ call'[d].got = call[d].got /\ call'[d].code = call[d].code
  BY <1>0, <1>1, <1>2, <1>3, StoresFacts
<1>c. call[c].code => SigningIn(c)
  BY DEF Basic
<1> USE DEF vendor, shared
<1>5. Types'
  BY <1>0, <1>1, <1>2, <1>4 DEF Types
<1>6. Queues'
  BY <1>0, <1>1, <1>3, <1>4, QueuePops
<1>7. Seen'
  <2>1. None <= issued
    BY <1>0, CurrentIsToken, TokenFacts DEF None, Tokens
  <2>3. \A d \in Calls : call'[d].tok <= issued /\ call'[d].got <= issued
    BY <1>0, <1>3, <1>4, <2>1 DEF Seen
  <2>4. store' <= issued
    BY <1>0, <1>4 DEF Seen
  <2> QED
    BY <1>0, <1>1, <2>3, <2>4 DEF Seen
<1>8. \A d \in Calls : RequestOK(d)'
  <2>1. RequestOK(c)'
    BY <1>0, <1>1, <1>2, <1>3, <1>4, <1>c DEF RequestOK, Carrying, SigningIn
  <2>2. ASSUME NEW d \in Calls, d # c PROVE RequestOK(d)'
    BY <1>1, <1>4, <2>2, OthersStay
  <2> QED
    BY <2>1, <2>2
<1>9. \A u \in Tokens : ExchangeOK(u)'
  BY <1>1, <1>4, ExchangesStay
<1>10. \A d \in Calls : call'[d].code => SigningIn(d)'
  <2> SUFFICES ASSUME NEW d \in Calls, call'[d].code PROVE SigningIn(d)'
    OBVIOUS
  <2>0. d # c
    BY <1>3, <1>4
  <2>1. SigningIn(d) /\ current # None
    BY <1>0, <1>4, <2>0, CurrentIsToken, TokenFacts DEF Basic
  <2>2. home[c] # home[d] /\ t # current
    BY <1>1, <2>0, <2>1 DEF SigningIn
  <2> QED
    BY <1>1, <1>3, <1>4, <2>0, <2>1, <2>2 DEF SigningIn
<1>11. \A d \in Calls : Alone(d)'
  <2> SUFFICES ASSUME NEW d \in Calls, NEW e \in Calls, call'[d].phase = "signedIn",
                      e # d, home[e] = home[d]
               PROVE  call'[e].phase = "idle"
    BY <1>1 DEF Alone
  <2>1. CASE d = c
    BY <1>3, <1>4, <1>c, <2>1 DEF SigningIn
  <2>2. CASE d # c
    <3>1. call[d].phase = "signedIn"
      BY <1>4, <2>2
    <3>2. call[e].phase = "idle"
      BY <3>1 DEF Basic, Alone
    <3> QED
      BY <1>1, <1>4, <3>2
  <2> QED
    BY <2>1, <2>2
<1> QED
  BY <1>5, <1>6, <1>7, <1>8, <1>9, <1>10, <1>11 DEF Basic

LEMMA DeleteTokensBasic == ASSUME Basic, NEW c \in Calls, DeleteTokens(c) PROVE Basic'
<1> DEFINE p == home[c]
           r == [call[c] EXCEPT !.phase = "again", !.over = FALSE]
<1>0. Types /\ Queues /\ Seen /\ RequestOK(c)
  BY BasicParts
<1>1. /\ call[c].phase = "deleting" /\ Stores(c, None, r)
      /\ UNCHANGED <<vendor, shared, cached, served, exchanging, saving, home>>
  BY DEF DeleteTokens, provider
<1>2. p \in Providers /\ call[c] \in Request /\ call[c].tok = None /\ call[c].got = None /\ ~call[c].code
  BY <1>0, <1>1, CallFields, CodeCarries DEF RequestOK, Carrying
<1>3. /\ r \in Request /\ r.phase = "again"
      /\ r.tok = None /\ r.got = None /\ r.code = call[c].code
  BY <1>2 DEF Request, Phases
<1> HIDE DEF r
<1>4. /\ call'[c] = r /\ call' \in [Calls -> Request] /\ crossed' \in BOOLEAN /\ store' = None
      /\ \A d \in Calls \ {c} :
            /\ call'[d] = call[d] \/ call'[d] = [call[d] EXCEPT !.over = TRUE]
            /\ call'[d].phase = call[d].phase /\ call'[d].tok = call[d].tok
            /\ call'[d].got = call[d].got /\ call'[d].code = call[d].code
  BY <1>0, <1>1, <1>2, <1>3, StoresFacts
<1> USE DEF vendor, shared
<1>5. Types'
  BY <1>0, <1>1, <1>2, <1>4 DEF Types
<1>6. Queues'
  BY <1>0, <1>1, <1>3, <1>4, QueuesStay
<1>7. Seen'
  <2>1. None <= issued
    BY <1>0, CurrentIsToken, TokenFacts DEF None, Tokens
  <2>3. \A d \in Calls : call'[d].tok <= issued /\ call'[d].got <= issued
    BY <1>0, <1>3, <1>4, <2>1 DEF Seen
  <2> QED
    BY <1>0, <1>1, <1>4, <2>1, <2>3 DEF Seen
<1>8. \A d \in Calls : RequestOK(d)'
  <2>1. RequestOK(c)'
    BY <1>0, <1>1, <1>2, <1>3, <1>4 DEF RequestOK, Carrying
  <2>2. ASSUME NEW d \in Calls, d # c PROVE RequestOK(d)'
    BY <1>1, <1>4, <2>2, OthersStay
  <2> QED
    BY <2>1, <2>2
<1>9. \A u \in Tokens : ExchangeOK(u)'
  BY <1>1, <1>4, ExchangesStay
<1>10. \A d \in Calls : call'[d].code => SigningIn(d)'
  <2> SUFFICES ASSUME NEW d \in Calls, call'[d].code PROVE SigningIn(d)'
    OBVIOUS
  <2>0. d # c
    BY <1>2, <1>3, <1>4
  <2>1. SigningIn(d) /\ current # None
    BY <1>0, <1>4, <2>0, CurrentIsToken, TokenFacts DEF Basic
  <2>2. home[c] # home[d]
    BY <1>1, <2>0, <2>1 DEF SigningIn
  <2> QED
    BY <1>1, <1>3, <1>4, <2>0, <2>1, <2>2 DEF SigningIn
<1>11. \A d \in Calls : Alone(d)'
  BY <1>1, <1>3, <1>4, AloneStays
<1> QED
  BY <1>5, <1>6, <1>7, <1>8, <1>9, <1>10, <1>11 DEF Basic

LEMMA SignedInBasic == ASSUME Basic, NEW c \in Calls, SignedIn(c) PROVE Basic'
<1> DEFINE p == home[c]
<1>0. Types /\ Queues /\ Seen /\ RequestOK(c)
  BY BasicParts
<1>1. /\ call[c].phase = "signedIn" /\ call' = [call EXCEPT ![c] = Idle]
      /\ exchanging' = [exchanging EXCEPT ![p] = FALSE]
      /\ UNCHANGED <<vendor, records, shared, cached, served, saving, home>>
  BY DEF SignedIn
<1>2. p \in Providers /\ call[c] \in Request /\ call[c].tok = None /\ call[c].got = None /\ ~call[c].code
  BY <1>0, <1>1, CallFields, CodeCarries DEF RequestOK, Carrying
<1>3. \A d \in Calls : d # c /\ home[d] = p => call[d].phase = "idle" /\ ~call[d].code
  <2>1. \A d \in Calls : d # c /\ home[d] = p => call[d].phase = "idle"
    BY <1>1 DEF Basic, Alone
  <2> QED
    BY <2>1, CodeCarries DEF Carrying
<1>4. call'[c] = Idle /\ \A d \in Calls \ {c} : call'[d] = call[d]
  BY <1>0, <1>1 DEF Types
<1>a. ~exchanging'[p] /\ \A q \in Providers \ {p} : exchanging'[q] = exchanging[q]
  BY <1>0, <1>1, <1>2 DEF Types
<1> USE DEF vendor, shared, records
<1>5. Types'
  BY <1>0, <1>1, <1>2, IdleRequest DEF Types
<1>6. Queues'
  BY <1>0, <1>1, <1>4, IdleRequest, QueuesStay
<1>7. Seen'
  <2>1. None <= issued
    BY <1>0, CurrentIsToken, TokenFacts DEF None, Tokens
  <2>3. \A d \in Calls : call'[d].tok <= issued /\ call'[d].got <= issued
    BY <1>0, <1>4, <2>1, IdleRequest DEF Seen
  <2> QED
    BY <1>0, <1>1, <2>3 DEF Seen
<1>8. \A d \in Calls : RequestOK(d)'
  <2>1. RequestOK(c)'
    BY <1>0, <1>1, <1>2, <1>4, <1>a, IdleRequest DEF RequestOK, Carrying
  <2>2. ASSUME NEW d \in Calls, d # c, home[d] = p PROVE RequestOK(d)'
    <3>1. call'[d] = call[d] /\ RequestOK(d) /\ call[d].phase = "idle" /\ ~call[d].code
      BY <1>3, <1>4, <2>2, BasicParts
    <3> QED
      BY <1>1, <1>a, <2>2, <3>1 DEF RequestOK, Carrying
  <2>3. ASSUME NEW d \in Calls, d # c, home[d] # p PROVE RequestOK(d)'
    <3>1. call'[d] = call[d] /\ RequestOK(d) /\ exchanging'[home[d]] = exchanging[home[d]]
      BY <1>0, <1>a, <1>4, <2>3, BasicParts, CallFields
    <3> QED
      BY <1>1, <2>3, <3>1 DEF RequestOK
  <2> QED
    BY <2>1, <2>2, <2>3
<1>9. \A u \in Tokens : ExchangeOK(u)'
  BY <1>1, <1>4, ExchangesStay
<1>10. \A d \in Calls : call'[d].code => SigningIn(d)'
  <2> SUFFICES ASSUME NEW d \in Calls, call'[d].code PROVE SigningIn(d)'
    OBVIOUS
  <2>0. d # c
    BY <1>4, IdleRequest
  <2>1. SigningIn(d) /\ current # None
    BY <1>0, <1>4, <2>0, CurrentIsToken, TokenFacts DEF Basic
  <2>2. home[c] # home[d] /\ home[d] \in Providers
    BY <1>0, <1>1, <2>0, <2>1, CallFields DEF SigningIn, Carrying
  <2> QED
    BY <1>1, <1>4, <1>a, <2>0, <2>1, <2>2, IdleRequest DEF SigningIn
<1>11. \A d \in Calls : Alone(d)'
  BY <1>1, <1>4, IdleRequest, AloneStays
<1> QED
  BY <1>5, <1>6, <1>7, <1>8, <1>9, <1>10, <1>11 DEF Basic

LEMMA SignInBasic == ASSUME Basic, NEW c \in Calls, SignIn(c) PROVE Basic'
<1> DEFINE p == home[c]
           t == issued + 1
           r == [Answered(Idle, t) EXCEPT !.code = TRUE]
<1>0. Types /\ Queues /\ Seen /\ RequestOK(c) /\ issued \in Nat /\ t \in Nat /\ t > issued
  <2>1. Types /\ Queues /\ Seen /\ RequestOK(c)
    BY BasicParts
  <2>2. issued \in Nat
    BY <2>1, CurrentIsToken, TokenFacts
  <2> QED
    BY <2>1, <2>2
<1>1. /\ \A q \in Providers : ~exchanging[q]
      /\ \A d \in Calls : home[d] = p => call[d].phase = "idle"
      /\ signIns < MaxSignIns /\ t \in Tokens
      /\ signIns' = signIns + 1
      /\ issued' = t /\ current' = t /\ valid' = valid \cup {t}
      /\ exchanging' = [exchanging EXCEPT ![p] = TRUE]
      /\ call' = [call EXCEPT ![c] = r]
      /\ UNCHANGED <<records, shared, cached, served, saving, revoked, home>>
  BY DEF SignIn, NoFlowInFlight
<1>2. p \in Providers /\ call[c] \in Request /\ call[c].phase = "idle" /\ call[c].tok = None /\ call[c].got = None
  BY <1>0, <1>1, CallFields DEF RequestOK, Carrying
<1>3. /\ r \in Request /\ r.phase = "answered" /\ r.tok = None /\ r.got = t /\ r.code = TRUE
  BY <1>1 DEF Answered, Idle, Request, Phases
<1> HIDE DEF r
<1>4. call'[c] = r /\ \A d \in Calls \ {c} : call'[d] = call[d]
  BY <1>0, <1>1 DEF Types
<1>a. exchanging'[p] /\ \A q \in Providers \ {p} : exchanging'[q] = exchanging[q]
  BY <1>0, <1>1, <1>2 DEF Types
<1>b. \A d \in Calls : ~call[d].code /\ home[d] \in Providers
  <2> TAKE d \in Calls
  <2>1. home[d] \in Providers /\ ~exchanging[home[d]]
    BY <1>0, <1>1, CallFields
  <2> QED
    BY <2>1, OneSignsIn
<1> USE DEF shared, records
<1>5. Types'
  <2>1. valid' \subseteq 1 .. issued' /\ revoked' \subseteq 1 .. issued' /\ current' \in valid'
    BY <1>0, <1>1, TokenFacts DEF Types
  <2>2. signIns' \in 0 .. MaxSignIns
    BY <1>0, <1>1, CredentialAssumption DEF Types
  <2>3. call' \in [Calls -> Request] /\ exchanging' \in [Providers -> BOOLEAN]
    BY <1>0, <1>1, <1>3 DEF Types
  <2> QED
    BY <1>0, <1>1, <2>1, <2>2, <2>3 DEF Types
<1>6. Queues'
  BY <1>0, <1>1, <1>2, <1>3, <1>4, QueuesStay
<1>s. /\ store < t /\ store <= t /\ \A q \in Providers : cached[q] < t /\ cached[q] <= t
      /\ \A d \in Calls : call[d].tok < t /\ call[d].tok <= t /\ call[d].got < t /\ call[d].got <= t
      /\ \A u \in refused : u < t /\ u <= t
      /\ \A u \in Tokens : exchanges[u] < t /\ exchanges[u] <= t
      /\ exchanges[t] = None /\ issuedBy[t] = None
      /\ \A u \in Tokens : u > t => exchanges[u] = None /\ issuedBy[u] = None
  <2>1. store \in Nat /\ \A q \in Providers : cached[q] \in Nat
    BY <1>0, TokenFacts DEF Types
  <2>2. \A d \in Calls : call[d].tok \in Nat /\ call[d].got \in Nat
    BY <1>0, CallFields, TokenFacts
  <2>3. \A u \in Tokens : exchanges[u] \in Int
    <3>1. InFlight \in Int /\ \A x \in Tokens \cup {None} : x \in Int
      BY TokenFacts DEF InFlight
    <3> QED
      BY <1>0, <3>1 DEF Types
  <2>4. \A u \in refused : u \in Nat
    BY <1>0, TokenFacts DEF Types
  <2>5. \A x \in Int : x <= issued => x < t /\ x <= t
    BY <1>0
  <2>6. store < t /\ store <= t /\ \A q \in Providers : cached[q] < t /\ cached[q] <= t
    BY <1>0, <2>1, <2>5 DEF Seen
  <2>7. \A d \in Calls : call[d].tok < t /\ call[d].tok <= t /\ call[d].got < t /\ call[d].got <= t
    BY <1>0, <2>2, <2>5 DEF Seen
  <2>8. (\A u \in Tokens : exchanges[u] < t /\ exchanges[u] <= t) /\ \A u \in refused : u < t /\ u <= t
    BY <1>0, <2>3, <2>4, <2>5 DEF Seen
  <2>9. exchanges[t] = None /\ issuedBy[t] = None
    BY <1>0, <1>1 DEF Seen
  <2>10. \A u \in Tokens : u > t => exchanges[u] = None /\ issuedBy[u] = None
    <3>1. \A u \in Tokens : u > t => u > issued
      BY <1>0, TokenFacts
    <3> QED
      BY <1>0, <3>1 DEF Seen
  <2> QED
    BY <2>6, <2>7, <2>8, <2>9, <2>10
<1>7. Seen'
  <2>1. None <= t /\ t <= t
    BY <1>0 DEF None
  <2>2. \A d \in Calls : call'[d].tok <= t /\ call'[d].got <= t
    BY <1>3, <1>4, <1>s, <2>1
  <2>3. \A u \in Tokens : u > t => exchanges[u] = None /\ issuedBy[u] = None
    BY <1>s
  <2> QED
    BY <1>1, <1>s, <2>2, <2>3 DEF Seen
<1>8. \A d \in Calls : RequestOK(d)'
  <2>1. RequestOK(c)'
    BY <1>0, <1>1, <1>2, <1>3, <1>4, <1>a, TokenFacts DEF RequestOK, Carrying
  <2>2. ASSUME NEW d \in Calls, d # c, home[d] = p PROVE RequestOK(d)'
    <3>1. call'[d] = call[d] /\ RequestOK(d) /\ call[d].phase = "idle"
      BY <1>1, <1>4, <2>2, BasicParts
    <3> QED
      BY <1>1, <1>a, <2>2, <3>1 DEF RequestOK
  <2>3. ASSUME NEW d \in Calls, d # c, home[d] # p PROVE RequestOK(d)'
    <3>1. call'[d] = call[d] /\ RequestOK(d) /\ exchanging'[home[d]] = exchanging[home[d]]
      BY <1>0, <1>a, <1>4, <2>3, BasicParts, CallFields
    <3> QED
      BY <1>1, <2>3, <3>1 DEF RequestOK
  <2> QED
    BY <2>1, <2>2, <2>3
<1>9. \A u \in Tokens : ExchangeOK(u)'
  <2> SUFFICES ASSUME NEW u \in Tokens PROVE ExchangeOK(u)'
    OBVIOUS
  <2>1. \A d \in Calls : Sharing(d, u) => Sharing(d, u)'
    BY <1>2, <1>4 DEF Sharing
  <2>2. t \notin refused /\ t \notin revoked
    <3>1. t \notin refused
      BY <1>0, <1>s
    <3>2. t \notin revoked
      BY <1>0, TokenFacts DEF Types
    <3> QED
      BY <3>1, <3>2
  <2>3. u \in valid' => u = t \/ u \in valid
    BY <1>1
  <2>4. ExchangeOK(u)
    BY BasicParts
  <2> QED
    BY <1>1, <1>s, <2>1, <2>2, <2>3, <2>4, TokenFacts DEF ExchangeOK
<1>10. \A d \in Calls : call'[d].code => SigningIn(d)'
  <2> SUFFICES SigningIn(c)'
    BY <1>3, <1>4, <1>b
  <2>1. store # t /\ \A q \in Providers : cached[q] # t
    BY <1>0, <1>s
  <2>2. \A d \in Calls : call[d].tok # t /\ call[d].got # t
    BY <1>0, <1>s
  <2>3. \A u \in Tokens : exchanges[u] # t
    BY <1>0, <1>s
  <2>4. None # t
    BY <1>1, TokenFacts
  <2> QED
    BY <1>1, <1>3, <1>4, <1>a, <1>s, <2>1, <2>2, <2>3, <2>4 DEF SigningIn, Carrying
<1>11. \A d \in Calls : Alone(d)'
  <2> SUFFICES ASSUME NEW d \in Calls, call'[d].phase = "signedIn" PROVE FALSE
    BY DEF Alone
  <2>1. call[d].phase = "signedIn" /\ home[d] \in Providers
    BY <1>3, <1>4, <1>0, CallFields
  <2> QED
    BY <1>1, <2>1, BasicParts DEF RequestOK
<1> QED
  BY <1>5, <1>6, <1>7, <1>8, <1>9, <1>10, <1>11 DEF Basic

LEMMA RevokedBasic == ASSUME Basic, NEW t \in Tokens, Revoked(t) PROVE Basic'
<1>1. /\ t \in valid /\ valid' = valid \ {t} /\ revoked' = revoked \cup {t}
      /\ UNCHANGED <<issued, current, signIns, store, crossed, cached, served, exchanging, saving, home,
                     call, exchanges, issuedBy, refused>>
  BY DEF Revoked, records, provider, shared
<1>2. Types'
  <2>1. valid' \subseteq 1 .. issued /\ revoked' \subseteq 1 .. issued /\ current \in valid' \cup revoked'
    BY <1>1, BasicParts DEF Types
  <2> QED
    BY <1>1, <2>1, BasicParts DEF Types
<1>3. \A u \in Tokens : ExchangeOK(u)'
  <2> SUFFICES ASSUME NEW u \in Tokens PROVE ExchangeOK(u)'
    OBVIOUS
  <2>1. \A d \in Calls : Sharing(d, u) => Sharing(d, u)'
    BY <1>1 DEF Sharing
  <2> QED
    BY <1>1, <2>1, BasicParts DEF ExchangeOK
<1>4. Queues' /\ Seen'
  <2>1. Queues'
    BY <1>1, BasicParts, QueuesStay
  <2> QED
    BY <1>1, <2>1, BasicParts DEF Seen
<1>5. \A d \in Calls : RequestOK(d)' /\ Alone(d)' /\ (call'[d].code => SigningIn(d)')
  <2> SUFFICES ASSUME NEW d \in Calls
               PROVE  RequestOK(d)' /\ Alone(d)' /\ (call'[d].code => SigningIn(d)')
    OBVIOUS
  <2>1. RequestOK(d) /\ Alone(d) /\ (call[d].code => SigningIn(d))
    BY DEF Basic
  <2> QED
    BY <1>1, <2>1 DEF RequestOK, Alone, SigningIn
<1> QED
  BY <1>2, <1>3, <1>4, <1>5 DEF Basic

LEMMA ForgetRefusedBasic == ASSUME Basic, NEW t \in Tokens, ForgetRefused(t) PROVE Basic'
<1>1. /\ Unhurried /\ refused' = refused \ {t}
      /\ UNCHANGED <<valid, issued, current, revoked, signIns, store, crossed, cached, served, exchanging,
                     saving, home, call, exchanges, issuedBy>>
  BY DEF ForgetRefused, records, provider, vendor
<1>2. Types'
  BY <1>1, BasicParts DEF Types
<1>3. \A u \in Tokens : ExchangeOK(u)'
  <2> SUFFICES ASSUME NEW u \in Tokens PROVE ExchangeOK(u)'
    OBVIOUS
  <2>1. \A d \in Calls : Sharing(d, u) => Sharing(d, u)'
    BY <1>1 DEF Sharing
  <2> QED
    BY <1>1, <2>1, BasicParts DEF ExchangeOK
<1>4. Queues' /\ Seen'
  <2>1. Queues'
    BY <1>1, BasicParts, QueuesStay
  <2> QED
    BY <1>1, <2>1, BasicParts DEF Seen
<1>5. \A d \in Calls : RequestOK(d)' /\ Alone(d)' /\ (call'[d].code => SigningIn(d)')
  <2> SUFFICES ASSUME NEW d \in Calls
               PROVE  RequestOK(d)' /\ Alone(d)' /\ (call'[d].code => SigningIn(d)')
    OBVIOUS
  <2>1. RequestOK(d) /\ Alone(d) /\ (call[d].code => SigningIn(d))
    BY DEF Basic
  <2>2. call[d].phase # "refused"
    BY <1>1 DEF Unhurried
  <2> QED
    BY <1>1, <2>1, <2>2 DEF RequestOK, Alone, SigningIn
<1> QED
  BY <1>2, <1>3, <1>4, <1>5 DEF Basic

(* The end of an exchange moves those who wait for it, and only them. *)
LEMMA SharersMove ==
    ASSUME Basic, NEW t \in Tokens, NEW n, NEW x, NEW g \in [Calls -> Request], exchanges[t] = InFlight,
           \A c \in Calls : Sharing(c, t) =>
               /\ g[c].phase \in {"answered", "refused", "idle"} /\ g[c].code = FALSE
               /\ g[c].tok \in {None, t} /\ g[c].got \in {None, n},
           call' = [c \in Calls |-> IF Sharing(c, t) THEN g[c] ELSE call[c]],
           exchanges' = [exchanges EXCEPT ![t] = x],
           (\E c \in Calls : call[c].code) => current' = current /\ n # current /\ x # current,
           UNCHANGED <<store, cached, exchanging, saving, home>>
    PROVE  /\ call' \in [Calls -> Request]
           /\ \A c \in Calls : Sharing(c, t) => call'[c] = g[c]
           /\ \A c \in Calls : ~Sharing(c, t) => call'[c] = call[c]
           /\ Queues' /\ \A c \in Calls : Alone(c)'
           /\ \A c \in Calls : call'[c].code => SigningIn(c)'
<1>1. \A c \in Calls : /\ Sharing(c, t) => call'[c] = g[c] /\ call[c].phase = "wait"
                       /\ ~Sharing(c, t) => call'[c] = call[c]
  BY DEF Sharing
<1>2. call' \in [Calls -> Request]
  BY BasicParts DEF Types
<1>3. Queues'
  <2>1. Queues
    BY BasicParts
  <2> QED
    BY <1>1, <2>1, QueuesStay
<1>4. ASSUME NEW d \in Calls PROVE Alone(d)'
  <2> SUFFICES ASSUME NEW e \in Calls, call'[d].phase = "signedIn", e # d, home[e] = home[d]
               PROVE  call'[e].phase = "idle"
    BY DEF Alone
  <2>1. call[d].phase = "signedIn"
    BY <1>1
  <2>2. call[e].phase = "idle"
    BY <2>1 DEF Basic, Alone
  <2> QED
    BY <1>1, <2>2
<1>5. ASSUME NEW d \in Calls, call'[d].code PROVE SigningIn(d)'
  <2>1. ~Sharing(d, t) /\ call'[d] = call[d]
    BY <1>1, <1>5
  <2>2. SigningIn(d) /\ current' = current /\ n # current /\ x # current /\ current \in Tokens
    BY <1>5, <2>1, BasicParts, CurrentIsToken DEF Basic
  <2>3. current # t /\ None # current
    BY <2>2, TokenFacts DEF SigningIn
  <2>4. \A u \in Tokens : exchanges'[u] = (IF u = t THEN x ELSE exchanges[u])
    BY BasicParts DEF Types
  <2>5. \A e \in Calls : e # d => call'[e].got # current
    BY <1>1, <2>2, <2>3 DEF SigningIn
  <2>6. \A e \in Calls : call'[e].tok # current
    BY <1>1, <2>2, <2>3 DEF SigningIn
  <2>7. \A e \in Calls : e # d /\ home[e] = home[d] => call'[e].phase = "idle"
    BY <1>1, <2>2 DEF SigningIn
  <2>8. exchanges'[current] = None /\ \A u \in Tokens : exchanges'[u] # current
    BY <2>2, <2>3, <2>4 DEF SigningIn
  <2> QED
    BY <2>1, <2>2, <2>5, <2>6, <2>7, <2>8 DEF SigningIn
<1> QED
  BY <1>1, <1>2, <1>3, <1>4, <1>5

LEMMA RefusedBasic == ASSUME Basic, NEW t \in Tokens, Refused(t) PROVE Basic'
<1> DEFINE g == [c \in Calls |-> [call[c] EXCEPT !.phase = "refused"]]
<1>1. /\ exchanges[t] = InFlight /\ t \notin valid
      /\ exchanges' = [exchanges EXCEPT ![t] = None] /\ refused' = refused \cup {t}
      /\ call' = [c \in Calls |-> IF Sharing(c, t) THEN g[c] ELSE call[c]]
      /\ UNCHANGED <<valid, issued, current, revoked, signIns, store, crossed, cached, served, exchanging,
                     saving, home, issuedBy>>
  BY DEF Refused, vendor, records, provider
<1>2. g \in [Calls -> Request] /\ \A c \in Calls :
        /\ g[c].phase = "refused" /\ g[c].code = call[c].code /\ g[c].tok = call[c].tok /\ g[c].got = call[c].got
  <2>1. \A c \in Calls : [call[c] EXCEPT !.phase = "refused"] \in Request
    BY BasicParts, CallFields DEF Request, Phases
  <2> QED
    BY <2>1, BasicParts, CallFields DEF Request
<1>3. \A c \in Calls : Sharing(c, t) =>
        /\ call[c].tok = t /\ call[c].got = None /\ call[c].code = FALSE /\ t \in served[home[c]]
        /\ ~exchanging[home[c]]
  <2> SUFFICES ASSUME NEW c \in Calls, Sharing(c, t)
               PROVE  /\ call[c].tok = t /\ call[c].got = None /\ call[c].code = FALSE
                      /\ t \in served[home[c]] /\ ~exchanging[home[c]]
    OBVIOUS
  <2>1. call[c].phase = "wait" /\ call[c].tok = t /\ RequestOK(c) /\ call[c].code \in BOOLEAN
    BY BasicParts, CallFields DEF Sharing
  <2>2. ~call[c].code /\ ~exchanging[home[c]]
    BY <2>1, CodeCarries, NotExchanging DEF Carrying
  <2> QED
    BY <2>1, <2>2 DEF RequestOK, Carrying
<1>4. \A u \in Tokens : exchanges'[u] = (IF u = t THEN None ELSE exchanges[u])
  BY <1>1, BasicParts DEF Types
<1>5. (\E c \in Calls : call[c].code) => None # current
  BY BasicParts, CurrentIsToken, TokenFacts
<1> HIDE DEF g
<1>6. /\ call' \in [Calls -> Request]
      /\ \A c \in Calls : Sharing(c, t) => call'[c] = g[c]
      /\ \A c \in Calls : ~Sharing(c, t) => call'[c] = call[c]
      /\ Queues' /\ \A c \in Calls : Alone(c)'
      /\ \A c \in Calls : call'[c].code => SigningIn(c)'
  <2>1. \A c \in Calls : Sharing(c, t) =>
            /\ g[c].phase \in {"answered", "refused", "idle"} /\ g[c].code = FALSE
            /\ g[c].tok \in {None, t} /\ g[c].got \in {None, None}
    BY <1>2, <1>3
  <2>2. (\E c \in Calls : call[c].code) => current' = current /\ None # current /\ None # current
    BY <1>1, <1>5
  <2>3. g \in [Calls -> Request] /\ UNCHANGED <<store, cached, exchanging, saving, home>>
    BY <1>1, <1>2
  <2> QED
    BY <1>1, <2>1, <2>2, <2>3, SharersMove
<1>7. Types'
  BY <1>1, <1>6, BasicParts DEF Types
<1>8. Seen'
  <2>1. Seen /\ Types
    BY BasicParts
  <2>2. t <= issued /\ None <= issued
    <3>1. exchanges[t] # None /\ issued \in Nat /\ t \in Nat
      BY <1>1, <2>1, CurrentIsToken, TokenFacts
    <3> QED
      BY <2>1, <3>1 DEF Seen, None
  <2>3. \A d \in Calls : call'[d].tok <= issued /\ call'[d].got <= issued
    BY <1>2, <1>6, <2>1 DEF Seen
  <2>4. \A u \in Tokens : exchanges'[u] <= issued
    BY <1>4, <2>1, <2>2 DEF Seen
  <2>5. \A u \in Tokens : u > issued => exchanges'[u] = None /\ issuedBy[u] = None
    BY <1>4, <2>1 DEF Seen
  <2> QED
    BY <1>1, <2>1, <2>2, <2>3, <2>4, <2>5 DEF Seen
<1>9. ASSUME NEW d \in Calls PROVE RequestOK(d)'
  <2>1. CASE Sharing(d, t)
    BY <1>1, <1>2, <1>3, <1>6, <2>1, TokenFacts DEF RequestOK, Carrying
  <2>2. CASE ~Sharing(d, t)
    <3>1. call'[d] = call[d] /\ RequestOK(d)
      BY <1>6, <2>2, BasicParts
    <3>2. call[d].phase = "wait" => exchanges'[call[d].tok] = InFlight
      <4>1. call[d].phase = "wait" => call[d].tok \in Tokens /\ call[d].tok # t
        BY <2>2, <3>1, BasicParts, CallFields DEF Sharing, RequestOK
      <4> QED
        BY <1>4, <3>1, <4>1 DEF RequestOK
    <3> QED
      BY <1>1, <3>1, <3>2 DEF RequestOK
  <2> QED
    BY <2>1, <2>2
<1>10. ASSUME NEW u \in Tokens PROVE ExchangeOK(u)'
  <2>1. ExchangeOK(u) /\ \A v \in Tokens : ExchangeOK(v)
    BY BasicParts
  <2>2. exchanges'[u] = InFlight => \E d \in Calls : Sharing(d, u)'
    <3>1. u # t => \A d \in Calls : Sharing(d, u) => Sharing(d, u)'
      BY <1>6 DEF Sharing
    <3> QED
      BY <1>4, <2>1, <3>1, TokenFacts DEF ExchangeOK
  <2>3. \A v \in Tokens : exchanges'[v] \in Tokens => v # t /\ exchanges'[v] = exchanges[v]
    BY <1>4, TokenFacts
  <2>4. issuedBy[u] \notin {None, u} => issuedBy[u] # t /\ issuedBy[u] \in Tokens
    BY <1>1, <2>1, BasicParts, TokenFacts DEF ExchangeOK, Types
  <2>5. /\ exchanges'[u] \in Tokens => issuedBy[exchanges'[u]] # None /\ u \notin refused'
        /\ exchanges'[u] \in Tokens /\ exchanges'[u] # u => u \notin valid
        /\ exchanges'[u] = u => issuedBy[u] = u
        /\ u \in valid => u \notin refused' /\ u \notin revoked
    BY <1>1, <2>1, <2>3 DEF ExchangeOK
  <2>6. issuedBy[u] \notin {None, u} => exchanges'[issuedBy[u]] = u
    BY <1>4, <2>1, <2>4 DEF ExchangeOK
  <2>7. \A v \in Tokens : exchanges'[v] = exchanges'[u] /\ exchanges'[u] \in Tokens \ {u, v} => u = v
    BY <2>1, <2>3 DEF ExchangeOK
  <2> QED
    BY <1>1, <2>2, <2>5, <2>6, <2>7 DEF ExchangeOK
<1> QED
  BY <1>6, <1>7, <1>8, <1>9, <1>10 DEF Basic

LEMMA UnavailableBasic == ASSUME Basic, NEW t \in Tokens, Unavailable(t) PROVE Basic'
<1> DEFINE g == [c \in Calls |-> Idle]
<1>1. /\ exchanges[t] = InFlight /\ exchanges' = [exchanges EXCEPT ![t] = None]
      /\ call' = [c \in Calls |-> IF Sharing(c, t) THEN g[c] ELSE call[c]]
      /\ UNCHANGED <<valid, issued, current, revoked, signIns, store, crossed, cached, served, exchanging,
                     saving, home, issuedBy, refused>>
  BY DEF Unavailable, Reauthorize, vendor, records, provider
<1>2. g \in [Calls -> Request] /\ \A c \in Calls :
        g[c].phase = "idle" /\ g[c].code = FALSE /\ g[c].tok = None /\ g[c].got = None
  BY IdleRequest
<1>4. \A u \in Tokens : exchanges'[u] = (IF u = t THEN None ELSE exchanges[u])
  BY <1>1, BasicParts DEF Types
<1>5. (\E c \in Calls : call[c].code) => None # current
  BY BasicParts, CurrentIsToken, TokenFacts
<1> HIDE DEF g
<1>6. /\ call' \in [Calls -> Request]
      /\ \A c \in Calls : Sharing(c, t) => call'[c] = g[c]
      /\ \A c \in Calls : ~Sharing(c, t) => call'[c] = call[c]
      /\ Queues' /\ \A c \in Calls : Alone(c)'
      /\ \A c \in Calls : call'[c].code => SigningIn(c)'
  <2>1. \A c \in Calls : Sharing(c, t) =>
            /\ g[c].phase \in {"answered", "refused", "idle"} /\ g[c].code = FALSE
            /\ g[c].tok \in {None, t} /\ g[c].got \in {None, None}
    BY <1>2
  <2>2. (\E c \in Calls : call[c].code) => current' = current /\ None # current /\ None # current
    BY <1>1, <1>5
  <2>3. g \in [Calls -> Request] /\ UNCHANGED <<store, cached, exchanging, saving, home>>
    BY <1>1, <1>2
  <2> QED
    BY <1>1, <2>1, <2>2, <2>3, SharersMove
<1>7. Types'
  BY <1>1, <1>6, BasicParts DEF Types
<1>8. Seen'
  <2>1. Seen /\ Types
    BY BasicParts
  <2>2. t <= issued /\ None <= issued
    <3>1. exchanges[t] # None /\ issued \in Nat /\ t \in Nat
      BY <1>1, <2>1, CurrentIsToken, TokenFacts
    <3> QED
      BY <2>1, <3>1 DEF Seen, None
  <2>3. \A d \in Calls : call'[d].tok <= issued /\ call'[d].got <= issued
    BY <1>2, <1>6, <2>1, <2>2 DEF Seen
  <2>4. \A u \in Tokens : exchanges'[u] <= issued
    BY <1>4, <2>1, <2>2 DEF Seen
  <2>5. \A u \in Tokens : u > issued => exchanges'[u] = None /\ issuedBy[u] = None
    BY <1>4, <2>1 DEF Seen
  <2> QED
    BY <1>1, <2>1, <2>2, <2>3, <2>4, <2>5 DEF Seen
<1>9. ASSUME NEW d \in Calls PROVE RequestOK(d)'
  <2>1. CASE Sharing(d, t)
    BY <1>1, <1>2, <1>6, <2>1 DEF RequestOK, Carrying
  <2>2. CASE ~Sharing(d, t)
    <3>1. call'[d] = call[d] /\ RequestOK(d)
      BY <1>6, <2>2, BasicParts
    <3>2. call[d].phase = "wait" => exchanges'[call[d].tok] = InFlight
      <4>1. call[d].phase = "wait" => call[d].tok \in Tokens /\ call[d].tok # t
        BY <2>2, <3>1, BasicParts, CallFields DEF Sharing, RequestOK
      <4> QED
        BY <1>4, <3>1, <4>1 DEF RequestOK
    <3> QED
      BY <1>1, <3>1, <3>2 DEF RequestOK
  <2> QED
    BY <2>1, <2>2
<1>10. ASSUME NEW u \in Tokens PROVE ExchangeOK(u)'
  <2>1. ExchangeOK(u) /\ \A v \in Tokens : ExchangeOK(v)
    BY BasicParts
  <2>2. exchanges'[u] = InFlight => \E d \in Calls : Sharing(d, u)'
    <3>1. u # t => \A d \in Calls : Sharing(d, u) => Sharing(d, u)'
      BY <1>6 DEF Sharing
    <3> QED
      BY <1>4, <2>1, <3>1, TokenFacts DEF ExchangeOK
  <2>3. \A v \in Tokens : exchanges'[v] \in Tokens => v # t /\ exchanges'[v] = exchanges[v]
    BY <1>4, TokenFacts
  <2>4. issuedBy[u] \notin {None, u} => issuedBy[u] # t /\ issuedBy[u] \in Tokens
    BY <1>1, <2>1, BasicParts, TokenFacts DEF ExchangeOK, Types
  <2>5. /\ exchanges'[u] \in Tokens => issuedBy[exchanges'[u]] # None /\ u \notin refused
        /\ exchanges'[u] \in Tokens /\ exchanges'[u] # u => u \notin valid
        /\ exchanges'[u] = u => issuedBy[u] = u
        /\ u \in valid => u \notin refused /\ u \notin revoked
    BY <1>1, <2>1, <2>3 DEF ExchangeOK
  <2>6. issuedBy[u] \notin {None, u} => exchanges'[issuedBy[u]] = u
    BY <1>4, <2>1, <2>4 DEF ExchangeOK
  <2>7. \A v \in Tokens : exchanges'[v] = exchanges'[u] /\ exchanges'[u] \in Tokens \ {u, v} => u = v
    BY <2>1, <2>3 DEF ExchangeOK
  <2> QED
    BY <1>1, <2>2, <2>5, <2>6, <2>7 DEF ExchangeOK
<1> QED
  BY <1>6, <1>7, <1>8, <1>9, <1>10 DEF Basic

(* What an exchange that succeeds changes, and where its answer can be. *)
LEMMA ExchangedFacts ==
    ASSUME Basic, NEW t \in Tokens, NEW n \in Tokens, Exchanged(t, n)
    PROVE  /\ t \in valid /\ exchanges[t] = InFlight
           /\ valid' = (valid \ {t}) \cup {n} /\ current' = (IF current = t THEN n ELSE current)
           /\ exchanges' \in [Tokens -> Tokens \cup {None, InFlight}]
           /\ issuedBy' \in [Tokens -> Tokens \cup {None}]
           /\ \A u \in Tokens : exchanges'[u] = (IF u = t THEN n ELSE exchanges[u])
           /\ \A u \in Tokens : issuedBy'[u] = (IF u = n THEN t ELSE issuedBy[u])
           /\ UNCHANGED <<store, crossed, cached, served, exchanging, saving, home, refused, revoked, signIns>>
           /\ issued \in Nat /\ issued' \in Nat /\ issued <= issued' /\ n <= issued' /\ issued' \in Tokens
           /\ \A u \in Tokens : u > issued' => u > issued /\ u # n
           /\ n # t => /\ n = issued + 1 /\ exchanges[n] = None /\ issuedBy[n] = None
                       /\ \A u \in Tokens : exchanges[u] # n
                       /\ n \notin refused /\ n \notin revoked /\ n \notin valid /\ n # current
                       /\ store # n /\ \A p \in Providers : cached[p] # n
                       /\ \A c \in Calls : call[c].tok # n /\ call[c].got # n
<1>1. /\ t \in valid /\ exchanges[t] = InFlight
      /\ valid' = (valid \ {t}) \cup {n} /\ current' = (IF current = t THEN n ELSE current)
      /\ exchanges' = [exchanges EXCEPT ![t] = n] /\ issuedBy' = [issuedBy EXCEPT ![n] = t]
      /\ UNCHANGED <<store, crossed, cached, served, exchanging, saving, home, refused, revoked, signIns>>
      /\ \/ n = t /\ issued' = issued
         \/ n = issued + 1 /\ issued' = n
  BY DEF Exchanged, records, provider
<1>2. /\ Types /\ Seen /\ issued \in Tokens /\ issued \in Nat /\ n \in Nat /\ t \in Nat /\ Tokens \subseteq Nat
      /\ current <= issued /\ current \in Nat
  BY BasicParts, CurrentIsToken, TokenFacts
<1>3. /\ exchanges' \in [Tokens -> Tokens \cup {None, InFlight}]
      /\ issuedBy' \in [Tokens -> Tokens \cup {None}]
      /\ \A u \in Tokens : exchanges'[u] = (IF u = t THEN n ELSE exchanges[u])
      /\ \A u \in Tokens : issuedBy'[u] = (IF u = n THEN t ELSE issuedBy[u])
  BY <1>1, <1>2 DEF Types
<1>4. t <= issued
  BY <1>1, <1>2 DEF Types
<1>5. /\ issued' \in Nat /\ issued <= issued' /\ n <= issued' /\ issued' \in Tokens
      /\ \A u \in Tokens : u > issued' => u > issued /\ u # n
  BY <1>1, <1>2, <1>4
<1>6. ASSUME n # t
      PROVE  /\ n = issued + 1 /\ exchanges[n] = None /\ issuedBy[n] = None
             /\ \A u \in Tokens : exchanges[u] # n
             /\ n \notin refused /\ n \notin revoked /\ n \notin valid /\ n # current
             /\ store # n /\ \A p \in Providers : cached[p] # n
             /\ \A c \in Calls : call[c].tok # n /\ call[c].got # n
  <2>1. n = issued + 1 /\ n > issued
    BY <1>1, <1>2, <1>6
  <2>2. exchanges[n] = None /\ issuedBy[n] = None
    BY <1>2, <2>1 DEF Seen
  <2>3. \A x : x <= issued => x # n
    BY <1>2, <2>1
  <2>4. \A u \in valid \cup revoked : u <= issued
    BY <1>2 DEF Types
  <2>5. (\A u \in Tokens : exchanges[u] # n) /\ \A u \in refused : u # n
    BY <1>2, <2>3 DEF Seen
  <2>6. n \notin valid /\ n \notin revoked /\ n # current
    BY <1>2, <2>3, <2>4
  <2>7. store # n /\ \A p \in Providers : cached[p] # n
    BY <1>2, <2>3 DEF Seen
  <2>8. \A c \in Calls : call[c].tok # n /\ call[c].got # n
    BY <1>2, <2>3 DEF Seen
  <2> QED
    BY <2>1, <2>2, <2>5, <2>6, <2>7, <2>8
<1> QED
  BY <1>1, <1>2, <1>3, <1>5, <1>6

LEMMA ExchangedBasic == ASSUME Basic, NEW t \in Tokens, NEW n \in Tokens, Exchanged(t, n) PROVE Basic'
<1> DEFINE g == [c \in Calls |-> Answered(call[c], n)]
<1>1. /\ t \in valid /\ exchanges[t] = InFlight
      /\ valid' = (valid \ {t}) \cup {n} /\ current' = (IF current = t THEN n ELSE current)
      /\ exchanges' \in [Tokens -> Tokens \cup {None, InFlight}]
      /\ issuedBy' \in [Tokens -> Tokens \cup {None}]
      /\ UNCHANGED <<store, crossed, cached, served, exchanging, saving, home, refused, revoked, signIns>>
      /\ issued \in Nat /\ issued' \in Nat /\ issued <= issued' /\ n <= issued' /\ issued' \in Tokens
      /\ \A u \in Tokens : u > issued' => u > issued /\ u # n
  BY ExchangedFacts
<1>2. /\ \A u \in Tokens : exchanges'[u] = (IF u = t THEN n ELSE exchanges[u])
      /\ \A u \in Tokens : issuedBy'[u] = (IF u = n THEN t ELSE issuedBy[u])
  BY ExchangedFacts
<1>3. n # t => /\ n = issued + 1 /\ exchanges[n] = None /\ issuedBy[n] = None
               /\ \A u \in Tokens : exchanges[u] # n
               /\ n \notin refused /\ n \notin revoked /\ n \notin valid /\ n # current
  BY ExchangedFacts
<1>4. exchanges' = [exchanges EXCEPT ![t] = n]
      /\ call' = [c \in Calls |-> IF Sharing(c, t) THEN g[c] ELSE call[c]]
  BY DEF Exchanged
<1>5. g \in [Calls -> Request] /\ \A c \in Calls :
        /\ g[c].phase = "answered" /\ g[c].code = call[c].code /\ g[c].tok = None /\ g[c].got = n
  <2>1. \A c \in Calls : Answered(call[c], n) \in Request
    BY BasicParts, CallFields DEF Request, Phases, Answered
  <2> QED
    BY <2>1, BasicParts, CallFields DEF Request, Answered
<1>6. \A c \in Calls : Sharing(c, t) => call[c].code = FALSE /\ ~exchanging[home[c]]
  <2> SUFFICES ASSUME NEW c \in Calls, Sharing(c, t)
               PROVE  call[c].code = FALSE /\ ~exchanging[home[c]]
    OBVIOUS
  <2>1. call[c].phase = "wait" /\ call[c].code \in BOOLEAN
    BY BasicParts, CallFields DEF Sharing
  <2>2. ~call[c].code /\ ~exchanging[home[c]]
    BY <2>1, CodeCarries, NotExchanging DEF Carrying
  <2> QED
    BY <2>1, <2>2
<1>7. (\E c \in Calls : call[c].code) => current' = current /\ n # current
  <2> SUFFICES ASSUME NEW c \in Calls, call[c].code PROVE current' = current /\ n # current
    OBVIOUS
  <2>1. exchanges[current] = None /\ current # t
    BY <1>1, TokenFacts DEF Basic, SigningIn
  <2> QED
    BY <1>1, <1>3, <2>1
<1> HIDE DEF g
<1>8. /\ call' \in [Calls -> Request]
      /\ \A c \in Calls : Sharing(c, t) => call'[c] = g[c]
      /\ \A c \in Calls : ~Sharing(c, t) => call'[c] = call[c]
      /\ Queues' /\ \A c \in Calls : Alone(c)'
      /\ \A c \in Calls : call'[c].code => SigningIn(c)'
  <2>1. \A c \in Calls : Sharing(c, t) =>
            /\ g[c].phase \in {"answered", "refused", "idle"} /\ g[c].code = FALSE
            /\ g[c].tok \in {None, t} /\ g[c].got \in {None, n}
    BY <1>5, <1>6
  <2>2. (\E c \in Calls : call[c].code) => current' = current /\ n # current /\ n # current
    BY <1>7
  <2>3. g \in [Calls -> Request] /\ UNCHANGED <<store, cached, exchanging, saving, home>>
    BY <1>1, <1>5
  <2> QED
    BY <1>1, <1>4, <2>1, <2>2, <2>3, SharersMove
<1>9. Types'
  <2>1. valid' \subseteq 1 .. issued'
    BY <1>1, BasicParts, TokenFacts DEF Types, Tokens
  <2>2. revoked' \subseteq 1 .. issued'
    BY <1>1, BasicParts DEF Types
  <2>3. current' \in valid' \cup revoked'
    BY <1>1, BasicParts DEF Types
  <2> QED
    BY <1>1, <1>8, <2>1, <2>2, <2>3, BasicParts DEF Types
<1>10. Seen'
  <2>1. Seen /\ Types
    BY BasicParts
  <2>2. n \in Nat /\ None \in Nat /\ None <= issued'
    BY <1>1, TokenFacts DEF None
  <2>3. \A x \in Int : x <= issued => x <= issued'
    BY <1>1
  <2>4. /\ store \in Int /\ \A p \in Providers : cached[p] \in Int
        /\ \A d \in Calls : call[d].tok \in Int /\ call[d].got \in Int
    BY <2>1, TokenFacts, CallFields DEF Types
  <2>5. (\A u \in refused : u \in Int) /\ \A u \in Tokens : exchanges[u] \in Int
    <3>1. InFlight \in Int /\ \A x \in Tokens \cup {None} : x \in Int
      BY TokenFacts DEF InFlight
    <3> QED
      BY <2>1, <3>1 DEF Types
  <2>6. store <= issued' /\ \A p \in Providers : cached[p] <= issued'
    BY <2>1, <2>3, <2>4 DEF Seen
  <2>7. \A d \in Calls : call'[d].tok <= issued' /\ call'[d].got <= issued'
    BY <1>1, <1>5, <1>8, <2>1, <2>2, <2>3, <2>4 DEF Seen
  <2>8. (\A u \in refused : u <= issued') /\ \A u \in Tokens : exchanges'[u] <= issued'
    BY <1>1, <1>2, <2>1, <2>3, <2>5 DEF Seen
  <2>9. \A u \in Tokens : u > issued' => exchanges'[u] = None /\ issuedBy'[u] = None
    <3> SUFFICES ASSUME NEW u \in Tokens, u > issued' PROVE exchanges'[u] = None /\ issuedBy'[u] = None
      OBVIOUS
    <3>1. exchanges[u] = None /\ issuedBy[u] = None /\ u # n
      BY <1>1, <2>1 DEF Seen
    <3>2. u # t
      BY <1>1, <3>1, TokenFacts
    <3> QED
      BY <1>2, <3>1, <3>2
  <2> QED
    BY <1>1, <2>6, <2>7, <2>8, <2>9 DEF Seen
<1>11. ASSUME NEW d \in Calls PROVE RequestOK(d)'
  <2>0. n \in Tokens /\ issuedBy'[n] = t /\ issuedBy'[n] # None
    BY <1>2, TokenFacts
  <2>1. CASE Sharing(d, t)
    BY <1>1, <1>5, <1>6, <1>8, <2>0, <2>1, TokenFacts DEF RequestOK, Carrying
  <2>2. CASE ~Sharing(d, t)
    <3>1. call'[d] = call[d] /\ RequestOK(d)
      BY <1>8, <2>2, BasicParts
    <3>2. call[d].phase = "wait" => exchanges'[call[d].tok] = InFlight
      <4>1. call[d].phase = "wait" => call[d].tok \in Tokens /\ call[d].tok # t
        BY <2>2, <3>1, BasicParts, CallFields DEF Sharing, RequestOK
      <4> QED
        BY <1>2, <3>1, <4>1 DEF RequestOK
    <3>3. call[d].got # None /\ ~call[d].code => issuedBy'[call[d].got] # None
      BY <1>2, <2>0, <3>1, BasicParts, CallFields, TokenFacts DEF RequestOK
    <3> QED
      BY <1>1, <3>1, <3>2, <3>3 DEF RequestOK
  <2> QED
    BY <2>1, <2>2
<1>12. ASSUME NEW u \in Tokens PROVE ExchangeOK(u)'
  <2>1. ExchangeOK(u) /\ ExchangeOK(t) /\ \A v \in Tokens : ExchangeOK(v)
    BY BasicParts
  <2>2. exchanges'[u] = InFlight => \E d \in Calls : Sharing(d, u)'
    <3>1. u # t => \A d \in Calls : Sharing(d, u) => Sharing(d, u)'
      BY <1>8 DEF Sharing
    <3> QED
      BY <1>2, <2>1, <3>1, TokenFacts DEF ExchangeOK
  <2>3. exchanges'[u] \in Tokens => issuedBy'[exchanges'[u]] # None /\ u \notin refused
    <3>1. CASE u = t
      BY <1>1, <1>2, <2>1, <3>1, TokenFacts DEF ExchangeOK
    <3>2. CASE u # t
      <4>1. exchanges'[u] = exchanges[u]
        BY <1>2, <3>2
      <4>2. exchanges[u] \in Tokens => issuedBy[exchanges[u]] # None /\ u \notin refused
        BY <2>1 DEF ExchangeOK
      <4> QED
        BY <1>2, <4>1, <4>2, TokenFacts
    <3> QED
      BY <3>1, <3>2
  <2>4. exchanges'[u] \in Tokens /\ exchanges'[u] # u => u \notin valid'
    <3>1. CASE u = t
      BY <1>1, <1>2, <3>1
    <3>2. CASE u # t
      BY <1>1, <1>2, <1>3, <2>1, <3>2, TokenFacts DEF ExchangeOK
    <3> QED
      BY <3>1, <3>2
  <2>5. exchanges'[u] = u => issuedBy'[u] = u
    <3>1. CASE u = t
      BY <1>2, <3>1
    <3>2. CASE u # t
      BY <1>2, <1>3, <2>1, <3>2, TokenFacts DEF ExchangeOK
    <3> QED
      BY <3>1, <3>2
  <2>6. issuedBy'[u] \notin {None, u} => exchanges'[issuedBy'[u]] = u
    <3>1. CASE u = n
      BY <1>2, <3>1
    <3>2. CASE u # n
      <4>1. issuedBy'[u] = issuedBy[u] /\ issuedBy[u] \in Tokens \cup {None}
        BY <1>2, <3>2, BasicParts DEF Types
      <4>2. issuedBy[u] \notin {None, u} => issuedBy[u] # t
        BY <1>1, <2>1, TokenFacts DEF ExchangeOK
      <4> QED
        BY <1>2, <2>1, <4>1, <4>2 DEF ExchangeOK
    <3> QED
      BY <3>1, <3>2
  <2>7. \A v \in Tokens : exchanges'[v] = exchanges'[u] /\ exchanges'[u] \in Tokens \ {u, v} => u = v
    <3> SUFFICES ASSUME NEW v \in Tokens, exchanges'[v] = exchanges'[u], exchanges'[u] \in Tokens \ {u, v}
                 PROVE  u = v
      OBVIOUS
    <3>1. CASE u # t /\ v # t
      BY <1>2, <2>1, <3>1 DEF ExchangeOK
    <3>2. CASE u = t /\ v # t
      BY <1>2, <1>3, <3>2
    <3>3. CASE v = t /\ u # t
      BY <1>2, <1>3, <3>3
    <3> QED
      BY <3>1, <3>2, <3>3
  <2>8. u \in valid' => u \notin refused /\ u \notin revoked
    <3>1. n \notin refused /\ n \notin revoked
      BY <1>1, <1>3, <2>1 DEF ExchangeOK
    <3> QED
      BY <1>1, <2>1, <3>1 DEF ExchangeOK
  <2> QED
    BY <1>1, <2>2, <2>3, <2>4, <2>5, <2>6, <2>7, <2>8 DEF ExchangeOK
<1> QED
  BY <1>8, <1>9, <1>10, <1>11, <1>12 DEF Basic

LEMMA ReplayEndsFacts ==
    ASSUME Basic, NEW t \in Tokens, ReplayEnds(t)
    PROVE  /\ exchanges[t] \in Tokens
           /\ \A c \in Calls : /\ call[c].phase \in {"idle", "wait"} /\ call[c].got = None
                               /\ ~call[c].code
           /\ exchanges' \in [Tokens -> Tokens \cup {None, InFlight}]
           /\ issuedBy' \in [Tokens -> Tokens \cup {None}]
           /\ \A u \in Tokens : exchanges'[u] = (IF u = t THEN None ELSE exchanges[u])
           /\ \A u \in Tokens : issuedBy'[u] \in {None, issuedBy[u]}
           /\ \A u \in Tokens : issuedBy'[u] # issuedBy[u] => u = exchanges[t]
           /\ issuedBy'[exchanges[t]] # None => \E u \in Tokens \ {t} : exchanges[u] = exchanges[t]
           /\ \A u \in Tokens \ {t} : exchanges[u] = exchanges[t] => issuedBy' = issuedBy
           /\ UNCHANGED <<valid, issued, current, revoked, signIns, store, crossed, cached, served, exchanging,
                          saving, home, call, refused>>
<1> DEFINE n == exchanges[t]
           Again == \E u \in Tokens \ {t} : exchanges[u] = n
<1>1. /\ n \in Tokens /\ Unhurried /\ exchanges' = [exchanges EXCEPT ![t] = None]
      /\ UNCHANGED <<valid, issued, current, revoked, signIns, store, crossed, cached, served, exchanging,
                     saving, home, call, refused>>
  BY DEF ReplayEnds, vendor, records, provider
<1>a. issuedBy' = IF Again THEN issuedBy ELSE [issuedBy EXCEPT ![n] = None]
  BY DEF ReplayEnds
<1>2. ASSUME NEW c \in Calls
      PROVE  call[c].phase \in {"idle", "wait"} /\ call[c].got = None /\ ~call[c].code
  <2>1. call[c].phase \in {"idle", "wait"}
    BY <1>1 DEF Unhurried
  <2> QED
    BY <2>1, CodeCarries DEF Carrying
<1>3. /\ exchanges' \in [Tokens -> Tokens \cup {None, InFlight}]
      /\ \A u \in Tokens : exchanges'[u] = (IF u = t THEN None ELSE exchanges[u])
  BY <1>1, BasicParts DEF Types
<1>4. issuedBy \in [Tokens -> Tokens \cup {None}]
  BY BasicParts DEF Types
<1>b. Again <=> \E u \in Tokens \ {t} : exchanges[u] = exchanges[t]
  OBVIOUS
<1> HIDE DEF Again, n
<1>c. n = exchanges[t]
  BY DEF n
<1>5. /\ issuedBy' \in [Tokens -> Tokens \cup {None}]
      /\ \A u \in Tokens : issuedBy'[u] \in {None, issuedBy[u]}
      /\ \A u \in Tokens : issuedBy'[u] # issuedBy[u] => u = n
      /\ issuedBy'[n] # None => Again
      /\ Again => issuedBy' = issuedBy
  <2>1. CASE Again
    BY <1>4, <1>a, <2>1
  <2>2. CASE ~Again
    <3>1. issuedBy' = [issuedBy EXCEPT ![n] = None]
      BY <1>a, <2>2
    <3> QED
      BY <1>1, <1>4, <2>2, <3>1
  <2> QED
    BY <2>1, <2>2
<1>6. /\ issuedBy'[exchanges[t]] # None => \E u \in Tokens \ {t} : exchanges[u] = exchanges[t]
      /\ \A u \in Tokens \ {t} : exchanges[u] = exchanges[t] => issuedBy' = issuedBy
  BY <1>5, <1>b, <1>c
<1> QED
  BY <1>1, <1>2, <1>3, <1>5, <1>6, <1>c

LEMMA ReplayEndsBasic == ASSUME Basic, NEW t \in Tokens, ReplayEnds(t) PROVE Basic'
<1>1. /\ exchanges[t] \in Tokens
      /\ exchanges' \in [Tokens -> Tokens \cup {None, InFlight}]
      /\ issuedBy' \in [Tokens -> Tokens \cup {None}]
      /\ UNCHANGED <<valid, issued, current, revoked, signIns, store, crossed, cached, served, exchanging,
                     saving, home, call, refused>>
  BY ReplayEndsFacts
<1>2. \A c \in Calls : call[c].phase \in {"idle", "wait"} /\ call[c].got = None /\ ~call[c].code
  BY ReplayEndsFacts
<1>3. \A u \in Tokens : exchanges'[u] = (IF u = t THEN None ELSE exchanges[u])
  BY ReplayEndsFacts
<1>4. /\ \A u \in Tokens : issuedBy'[u] \in {None, issuedBy[u]}
      /\ \A u \in Tokens : issuedBy'[u] # issuedBy[u] => u = exchanges[t]
      /\ issuedBy'[exchanges[t]] # None => \E u \in Tokens \ {t} : exchanges[u] = exchanges[t]
      /\ \A u \in Tokens \ {t} : exchanges[u] = exchanges[t] => issuedBy' = issuedBy
  BY ReplayEndsFacts
<1>5. Types'
  BY <1>1, BasicParts DEF Types
<1>6. Queues'
  BY <1>1, BasicParts, QueuesStay
<1>7. Seen'
  <2>1. None <= issued
    BY BasicParts, CurrentIsToken, TokenFacts DEF None, Tokens
  <2>2. \A u \in Tokens : exchanges'[u] <= issued
    BY <1>3, <2>1, BasicParts DEF Seen
  <2>3. \A u \in Tokens : u > issued => exchanges'[u] = None /\ issuedBy'[u] = None
    BY <1>3, <1>4, BasicParts DEF Seen
  <2> QED
    BY <1>1, <2>2, <2>3, BasicParts DEF Seen
<1>8. ASSUME NEW d \in Calls PROVE RequestOK(d)'
  <2>1. RequestOK(d) /\ call'[d] = call[d]
    BY <1>1, BasicParts
  <2>2. call[d].phase = "wait" => exchanges'[call[d].tok] = InFlight
    <3>1. call[d].phase = "wait" => call[d].tok \in Tokens /\ exchanges[call[d].tok] = InFlight
      BY <2>1, BasicParts, CallFields DEF RequestOK
    <3> QED
      BY <1>1, <1>3, <3>1, TokenFacts
  <2> QED
    BY <1>1, <1>2, <2>1, <2>2 DEF RequestOK
<1>9. ASSUME NEW d \in Calls PROVE Alone(d)' /\ ~call'[d].code
  BY <1>1, <1>2 DEF Alone
<1>10. ASSUME NEW u \in Tokens PROVE ExchangeOK(u)'
  <2>1. ExchangeOK(u) /\ ExchangeOK(t) /\ \A v \in Tokens : ExchangeOK(v)
    BY BasicParts
  <2>2. exchanges'[u] = InFlight => \E d \in Calls : Sharing(d, u)'
    <3>1. \A d \in Calls : Sharing(d, u) => Sharing(d, u)'
      BY <1>1 DEF Sharing
    <3> QED
      BY <1>3, <2>1, <3>1, TokenFacts DEF ExchangeOK
  <2>3. \A v \in Tokens : exchanges'[v] \in Tokens => v # t /\ exchanges'[v] = exchanges[v]
    BY <1>3, TokenFacts
  <2>4. \A v \in Tokens : exchanges'[v] \in Tokens => issuedBy'[exchanges[v]] = issuedBy[exchanges[v]]
    BY <1>4, <2>3
  <2>5. /\ exchanges'[u] \in Tokens => issuedBy'[exchanges'[u]] # None /\ u \notin refused
        /\ exchanges'[u] \in Tokens /\ exchanges'[u] # u => u \notin valid
        /\ exchanges'[u] = u => issuedBy'[u] = u
        /\ u \in valid => u \notin refused /\ u \notin revoked
    BY <1>1, <2>1, <2>3, <2>4 DEF ExchangeOK
  <2>6. issuedBy'[u] \notin {None, u} => exchanges'[issuedBy'[u]] = u
    <3> SUFFICES ASSUME issuedBy'[u] \notin {None, u} PROVE exchanges'[issuedBy'[u]] = u
      OBVIOUS
    <3>1. issuedBy'[u] = issuedBy[u] /\ issuedBy[u] \in Tokens
      BY <1>4, BasicParts DEF Types
    <3>2. exchanges[issuedBy[u]] = u
      BY <2>1, <3>1 DEF ExchangeOK
    <3>3. issuedBy[u] # t
      <4> SUFFICES ASSUME issuedBy[u] = t PROVE FALSE
        OBVIOUS
      <4>1. exchanges[t] = u /\ u # t
        BY <3>1, <3>2
      <4>2. PICK v \in Tokens \ {t} : exchanges[v] = u
        BY <1>4, <4>1
      <4>3. v = u
        BY <2>1, <4>1, <4>2 DEF ExchangeOK
      <4> QED
        BY <2>1, <3>1, <4>2, <4>3 DEF ExchangeOK
    <3> QED
      BY <1>3, <3>1, <3>2, <3>3
  <2>7. \A v \in Tokens : exchanges'[v] = exchanges'[u] /\ exchanges'[u] \in Tokens \ {u, v} => u = v
    BY <2>1, <2>3 DEF ExchangeOK
  <2> QED
    BY <1>1, <2>2, <2>5, <2>6, <2>7 DEF ExchangeOK
<1> QED
  BY <1>5, <1>6, <1>7, <1>8, <1>9, <1>10 DEF Basic

-----------------------------------------------------------------------------
(* The inductive invariant: what is stored *)

(* A request on p could still spend t, or p would serve it. *)
KnownOn(p, t) == cached[p] = t \/ \E c \in Calls : home[c] = p /\ call[c].tok = t

WrittenOn(p, t) == \E c \in Calls : home[c] = p /\ call[c].phase = "writing" /\ call[c].got = t

(* The store is one answer behind t: the answer is carried, it will not be
   dropped as stale, and a provider that serves it already is the one to write
   it, so that nobody spends it and loses it. *)
AwaitsSave(t) ==
    /\ store # t /\ exchanges[store] = t /\ Carried(t)
    /\ issuedBy[t] = store \/ \E p \in Providers : WrittenOn(p, t)
    /\ \A p \in Providers : KnownOn(p, t) => WrittenOn(p, t)

(* The store is two answers behind: a provider wrote the first into its cache,
   spent it before it was stored, and saves the second behind the first. *)
AwaitsTwo(t) ==
    LET s == exchanges[store]
    IN  /\ s \in Tokens \ {store, t} /\ store # t /\ exchanges[s] = t /\ Carried(t)
        /\ issuedBy[t] = s
        /\ \A p \in Providers : KnownOn(p, s) => WrittenOn(p, s)
        /\ \A c \in Calls : call[c].got = t => WrittenOn(home[c], s)
        /\ \A p \in Providers : ~KnownOn(p, t)

WriteOK(c) ==
    /\ call[c].phase = "deleting" => call[c].over
    /\ call[c].phase = "writing" /\ ~call[c].over /\ ~call[c].code =>
          call[c].got \in {store, exchanges[store]}

SettledAt(t) ==
    /\ store # None
    /\ \A c \in Calls : WriteOK(c)
    /\ store = t \/ AwaitsSave(t) \/ AwaitsTwo(t)

(* A step that leaves the store alone and hands no token on. *)
LEMMA Quiet ==
    ASSUME Basic, Basic', NEW t \in valid, SettledAt(t), UNCHANGED <<store, home>>,
           \A u \in Tokens : exchanges[u] \in Tokens => exchanges'[u] = exchanges[u],
           issuedBy'[t] = issuedBy[t],
           \A p \in Providers, x \in Tokens : x # store =>
               (KnownOn(p, x)' => KnownOn(p, x) \/ WrittenOn(p, x)'),
           AwaitsTwo(t) => \A p \in Providers : KnownOn(p, t)' => KnownOn(p, t),
           \A p \in Providers, x \in Tokens : x # store => (WrittenOn(p, x) => WrittenOn(p, x)'),
           store # t /\ Carried(t) => Carried(t)',
           AwaitsTwo(t) => \A c \in Calls : call'[c].got = t =>
                               call[c].got = t \/ KnownOn(home[c], exchanges[store]),
           \A c \in Calls : call'[c].phase = "deleting" => call'[c].over,
           \A c \in Calls : call'[c].phase = "writing" /\ ~call'[c].over /\ ~call'[c].code =>
               call'[c].got \in {store, exchanges[store]}
    PROVE  SettledAt(t)'
<1>0. t \in Tokens /\ store \in Tokens /\ \A c \in Calls : home[c] \in Providers
  BY BasicParts, CurrentIsToken, CallFields DEF SettledAt, Types
<1>1. \A c \in Calls : WriteOK(c)'
  <2> SUFFICES ASSUME NEW c \in Calls PROVE WriteOK(c)'
    OBVIOUS
  <2>1. call'[c].phase = "writing" => call'[c].got \in Tokens
    <3>1. RequestOK(c)' /\ Types'
      BY DEF Basic
    <3>2. call'[c] \in Request
      BY <3>1 DEF Types
    <3>3. call'[c].got \in Tokens \cup {None}
      BY <3>2 DEF Request
    <3> QED
      BY <3>1, <3>3 DEF RequestOK, Carrying
  <2> QED
    BY <1>0, <2>1 DEF WriteOK
<1>2. CASE store = t
  BY <1>1, <1>2 DEF SettledAt
<1>3. CASE AwaitsSave(t)
  <2>1. exchanges[store] = t /\ exchanges'[store] = t
    BY <1>0, <1>3 DEF AwaitsSave
  <2>2. Carried(t)' /\ (issuedBy'[t] = store \/ \E p \in Providers : WrittenOn(p, t)')
    BY <1>0, <1>3 DEF AwaitsSave
  <2>3. \A p \in Providers : KnownOn(p, t)' => WrittenOn(p, t)'
    BY <1>0, <1>3 DEF AwaitsSave
  <2>4. AwaitsSave(t)'
    BY <1>3, <2>1, <2>2, <2>3 DEF AwaitsSave
  <2> QED
    BY <1>1, <2>4 DEF SettledAt
<1>4. CASE AwaitsTwo(t)
  <2>1. PICK s \in Tokens : s = exchanges[store]
    BY <1>4 DEF AwaitsTwo
  <2>2. /\ s # store /\ s # t /\ store # t /\ exchanges[s] = t /\ Carried(t) /\ issuedBy[t] = s
        /\ \A p \in Providers : KnownOn(p, s) => WrittenOn(p, s)
        /\ \A c \in Calls : call[c].got = t => WrittenOn(home[c], s)
        /\ \A p \in Providers : ~KnownOn(p, t)
    BY <1>4, <2>1 DEF AwaitsTwo, WrittenOn, KnownOn
  <2>3. exchanges'[store'] = s /\ exchanges'[s] = t /\ issuedBy'[t] = s /\ Carried(t)'
    BY <1>0, <2>1, <2>2
  <2>4. \A p \in Providers : WrittenOn(p, s) => WrittenOn(p, s)'
    BY <2>2
  <2>5. \A p \in Providers : KnownOn(p, s)' => WrittenOn(p, s)'
    BY <2>2, <2>4
  <2>6. ASSUME NEW c \in Calls, call'[c].got = t PROVE WrittenOn(home[c], s)
    <3>1. call[c].got = t \/ KnownOn(home[c], exchanges[store])
      BY <1>4, <2>6
    <3>2. KnownOn(home[c], exchanges[store]) => KnownOn(home[c], s)
      BY <2>1 DEF KnownOn
    <3> QED
      BY <1>0, <2>2, <3>1, <3>2
  <2>7. ASSUME NEW c \in Calls, call'[c].got = t PROVE WrittenOn(home[c], s)'
    <3>1. PICK p \in Providers : p = home[c]
      BY <1>0
    <3>2. WrittenOn(p, s)
      BY <2>6, <2>7, <3>1
    <3>3. WrittenOn(p, s)'
      BY <2>4, <3>2
    <3> QED
      BY <3>1, <3>3 DEF WrittenOn
  <2>8. \A p \in Providers : ~KnownOn(p, t)'
    BY <1>4, <2>2
  <2>9. AwaitsTwo(t)'
    <3>1. \A p \in Providers : KnownOn(p, exchanges[store])' => WrittenOn(p, exchanges[store])'
      BY <2>3, <2>5 DEF KnownOn, WrittenOn
    <3>2. \A c \in Calls : call'[c].got = t => WrittenOn(home[c], exchanges[store])'
      BY <2>3, <2>7 DEF WrittenOn
    <3> QED
      BY <2>2, <2>3, <2>8, <3>1, <3>2 DEF AwaitsTwo
  <2> QED
    BY <1>1, <2>9 DEF SettledAt
<1> QED
  BY <1>2, <1>3, <1>4 DEF SettledAt

(* A step of one request that does not write. *)
LEMMA OneQuiet ==
    ASSUME Basic, Basic', NEW t \in valid, SettledAt(t), NEW c \in Calls, UNCHANGED <<store, home, issuedBy>>,
           \A u \in Tokens : exchanges[u] \in Tokens => exchanges'[u] = exchanges[u],
           \A d \in Calls \ {c} : call'[d] = call[d],
           \A p \in Providers \ {home[c]} : cached'[p] = cached[p],
           cached'[home[c]] \in {None, cached[home[c]], call[c].tok},
           call'[c].tok \in {None, call[c].tok, cached[home[c]], store},
           call[c].phase # "writing", call'[c].phase \notin {"writing", "deleting"},
           call[c].got = t => store = t \/ call'[c].got = t \/ \E d \in Calls \ {c} : call[d].got = t,
           call'[c].got = t => call[c].got = t \/ (call[c].tok \in Tokens /\ exchanges[call[c].tok] = t)
    PROVE  SettledAt(t)'
<1>0. t \in Tokens /\ store \in Tokens /\ \A d \in Calls : home[d] \in Providers
  BY BasicParts, CurrentIsToken, CallFields DEF SettledAt, Types
<1>1. ASSUME NEW p \in Providers, NEW x \in Tokens, x # store, KnownOn(p, x)' PROVE KnownOn(p, x)
  <2>1. CASE cached'[p] = x
    <3>1. p # home[c] => cached[p] = x
      BY <2>1
    <3>2. p = home[c] => cached[p] = x \/ call[c].tok = x
      BY <2>1, TokenFacts
    <3> QED
      BY <3>1, <3>2 DEF KnownOn
  <2>2. CASE \E d \in Calls : home'[d] = p /\ call'[d].tok = x
    <3>1. PICK d \in Calls : home[d] = p /\ call'[d].tok = x
      BY <2>2
    <3>2. CASE d = c
      BY <1>1, <3>1, <3>2, TokenFacts DEF KnownOn
    <3>3. CASE d # c
      BY <3>1, <3>3 DEF KnownOn
    <3> QED
      BY <3>2, <3>3
  <2> QED
    BY <1>1, <2>1, <2>2 DEF KnownOn
<1>2. ASSUME NEW p \in Providers, NEW x \in Tokens, WrittenOn(p, x) PROVE WrittenOn(p, x)'
  <2>1. PICK d \in Calls : home[d] = p /\ call[d].phase = "writing" /\ call[d].got = x
    BY <1>2 DEF WrittenOn
  <2>2. call'[d] = call[d]
    BY <2>1
  <2> QED
    BY <2>1, <2>2 DEF WrittenOn
<1>3. ASSUME store # t, Carried(t) PROVE Carried(t)'
  <2>1. PICK d \in Calls : call[d].got = t
    BY <1>3 DEF Carried
  <2>2. \E e \in Calls : call'[e].got = t
    BY <1>3, <2>1
  <2> QED
    BY <2>2 DEF Carried
<1>4. ASSUME AwaitsTwo(t), NEW d \in Calls, call'[d].got = t
      PROVE  call[d].got = t \/ KnownOn(home[d], exchanges[store])
  <2>1. CASE d # c
    BY <1>4, <2>1
  <2>2. CASE d = c /\ call[c].got # t
    <3>1. call[c].tok \in Tokens /\ exchanges[call[c].tok] = t
      BY <1>4, <2>2
    <3>2. /\ exchanges[store] \in Tokens /\ exchanges[store] # t /\ exchanges[exchanges[store]] = t
          /\ ~KnownOn(home[c], t)
      BY <1>0, <1>4 DEF AwaitsTwo
    <3>3. call[c].tok # t
      BY <3>2 DEF KnownOn
    <3>4. ExchangeOK(call[c].tok)
      BY <3>1, BasicParts
    <3>5. call[c].tok = exchanges[store]
      BY <1>0, <3>1, <3>2, <3>3, <3>4 DEF ExchangeOK
    <3> QED
      BY <2>2, <3>5 DEF KnownOn
  <2> QED
    BY <2>1, <2>2
<1>5. ASSUME NEW d \in Calls
      PROVE  /\ call'[d].phase = "deleting" => call'[d].over
             /\ call'[d].phase = "writing" /\ ~call'[d].over /\ ~call'[d].code =>
                   call'[d].got \in {store, exchanges[store]}
  <2>1. CASE d = c
    BY <2>1
  <2>2. CASE d # c
    BY <2>2 DEF SettledAt, WriteOK
  <2> QED
    BY <2>1, <2>2
<1>6. \A p \in Providers, x \in Tokens : x # store =>
          (KnownOn(p, x)' => KnownOn(p, x) \/ WrittenOn(p, x)')
  BY <1>1
<1>7. AwaitsTwo(t) => \A p \in Providers : KnownOn(p, t)' => KnownOn(p, t)
  BY <1>0, <1>1 DEF AwaitsTwo
<1>8. \A p \in Providers, x \in Tokens : x # store => (WrittenOn(p, x) => WrittenOn(p, x)')
  BY <1>2
<1>9. AwaitsTwo(t) => \A d \in Calls : call'[d].got = t =>
          call[d].got = t \/ KnownOn(home[d], exchanges[store])
  BY <1>4
<1>10. store # t /\ Carried(t) => Carried(t)'
  BY <1>3
<1>11. issuedBy'[t] = issuedBy[t] /\ UNCHANGED <<store, home>>
  OBVIOUS
<1> QED
  BY <1>5, <1>6, <1>7, <1>8, <1>9, <1>10, <1>11, Quiet

(* Steps of one request: reads, ends, and the next step towards a save. *)
LEMMA ReadCachedSettled ==
    ASSUME Basic, Basic', NEW c \in Calls, ReadCached(c), NEW t \in valid, SettledAt(t) PROVE SettledAt(t)'
<1>0. t \in Tokens /\ home[c] \in Providers /\ t # None
  BY BasicParts, CurrentIsToken, CallFields, TokenFacts
<1>1. /\ call[c].phase \in {"idle", "again"}
      /\ call' = [call EXCEPT ![c].phase = "post", ![c].tok = cached[home[c]]]
      /\ cached' = cached
      /\ UNCHANGED <<store, home, issuedBy, exchanges>>
  BY DEF ReadCached, Reads, Posts, records, shared
<1>2. call[c].got = None
  BY <1>1, CodeCarries DEF Carrying
<1>3. /\ \A d \in Calls \ {c} : call'[d] = call[d]
      /\ call'[c].got = None /\ call'[c].tok \in {cached[home[c]]} /\ call'[c].phase = "post"
  BY <1>1, <1>2, BasicParts, CallFields DEF Types, Request
<1>4. /\ \A p \in Providers \ {home[c]} : cached'[p] = cached[p]
      /\ cached'[home[c]] \in {None, cached[home[c]], call[c].tok}
  BY <1>0, <1>1, BasicParts DEF Types
<1> QED
  BY <1>0, <1>1, <1>2, <1>3, <1>4, OneQuiet

LEMMA ReadStoreSettled ==
    ASSUME Basic, Basic', NEW c \in Calls, ReadStore(c), NEW t \in valid, SettledAt(t) PROVE SettledAt(t)'
<1>0. t \in Tokens /\ home[c] \in Providers /\ t # None
  BY BasicParts, CurrentIsToken, CallFields, TokenFacts
<1>1. /\ call[c].phase \in {"idle", "again"}
      /\ call' = [call EXCEPT ![c].phase = "reading", ![c].tok = store]
      /\ cached' = cached
      /\ UNCHANGED <<store, home, issuedBy, exchanges>>
  BY DEF ReadStore, Reads, records, shared, provider
<1>2. call[c].got = None
  BY <1>1, CodeCarries DEF Carrying
<1>3. /\ \A d \in Calls \ {c} : call'[d] = call[d]
      /\ call'[c].got = None /\ call'[c].tok \in {store} /\ call'[c].phase = "reading"
  BY <1>1, <1>2, BasicParts, CallFields DEF Types, Request
<1>4. /\ \A p \in Providers \ {home[c]} : cached'[p] = cached[p]
      /\ cached'[home[c]] \in {None, cached[home[c]], call[c].tok}
  BY <1>0, <1>1, BasicParts DEF Types
<1> QED
  BY <1>0, <1>1, <1>2, <1>3, <1>4, OneQuiet

LEMMA ReadLandsSettled ==
    ASSUME Basic, Basic', NEW c \in Calls, ReadLands(c), NEW t \in valid, SettledAt(t) PROVE SettledAt(t)'
<1>0. t \in Tokens /\ home[c] \in Providers /\ t # None
  BY BasicParts, CurrentIsToken, CallFields, TokenFacts
<1>1. /\ call[c].phase = "reading"
      /\ call' = [call EXCEPT ![c].phase = "post", ![c].tok = call[c].tok]
      /\ cached' = [cached EXCEPT ![home[c]] = call[c].tok]
      /\ UNCHANGED <<store, home, issuedBy, exchanges>>
  BY DEF ReadLands, Posts, records, shared
<1>2. call[c].got = None
  BY <1>1, CodeCarries DEF Carrying
<1>3. /\ \A d \in Calls \ {c} : call'[d] = call[d]
      /\ call'[c].got = None /\ call'[c].tok \in {call[c].tok} /\ call'[c].phase = "post"
  BY <1>1, <1>2, BasicParts, CallFields DEF Types, Request
<1>4. /\ \A p \in Providers \ {home[c]} : cached'[p] = cached[p]
      /\ cached'[home[c]] \in {None, cached[home[c]], call[c].tok}
  BY <1>0, <1>1, BasicParts DEF Types
<1> QED
  BY <1>0, <1>1, <1>2, <1>3, <1>4, OneQuiet

LEMMA NothingStoredSettled ==
    ASSUME Basic, Basic', NEW c \in Calls, NothingStored(c), NEW t \in valid, SettledAt(t) PROVE SettledAt(t)'
<1>0. t \in Tokens /\ home[c] \in Providers /\ t # None
  BY BasicParts, CurrentIsToken, CallFields, TokenFacts
<1>1. /\ call[c].phase = "reading"
      /\ call' = [call EXCEPT ![c] = Idle]
      /\ cached' = cached
      /\ UNCHANGED <<store, home, issuedBy, exchanges>>
  BY DEF NothingStored, Reauthorize, records, shared, provider
<1>2. call[c].got = None
  BY <1>1, CodeCarries DEF Carrying
<1>3. /\ \A d \in Calls \ {c} : call'[d] = call[d]
      /\ call'[c].got = None /\ call'[c].tok \in {None} /\ call'[c].phase = "idle"
  BY <1>1, <1>2, BasicParts, CallFields, IdleRequest DEF Types
<1>4. /\ \A p \in Providers \ {home[c]} : cached'[p] = cached[p]
      /\ cached'[home[c]] \in {None, cached[home[c]], call[c].tok}
  BY <1>0, <1>1, BasicParts DEF Types
<1> QED
  BY <1>0, <1>1, <1>2, <1>3, <1>4, OneQuiet

LEMMA AcceptedSettled ==
    ASSUME Basic, Basic', NEW c \in Calls, Accepted(c), NEW t \in valid, SettledAt(t) PROVE SettledAt(t)'
<1>0. t \in Tokens /\ home[c] \in Providers /\ t # None
  BY BasicParts, CurrentIsToken, CallFields, TokenFacts
<1>1. /\ call[c].phase = "post"
      /\ call' = [call EXCEPT ![c] = Idle]
      /\ cached' = cached
      /\ UNCHANGED <<store, home, issuedBy, exchanges>>
  BY DEF Accepted, records, shared, provider
<1>2. call[c].got = None
  BY <1>1, CodeCarries DEF Carrying
<1>3. /\ \A d \in Calls \ {c} : call'[d] = call[d]
      /\ call'[c].got = None /\ call'[c].tok \in {None} /\ call'[c].phase = "idle"
  BY <1>1, <1>2, BasicParts, CallFields, IdleRequest DEF Types
<1>4. /\ \A p \in Providers \ {home[c]} : cached'[p] = cached[p]
      /\ cached'[home[c]] \in {None, cached[home[c]], call[c].tok}
  BY <1>0, <1>1, BasicParts DEF Types
<1> QED
  BY <1>0, <1>1, <1>2, <1>3, <1>4, OneQuiet

LEMMA RefusedAgainSettled ==
    ASSUME Basic, Basic', NEW c \in Calls, RefusedAgain(c), NEW t \in valid, SettledAt(t) PROVE SettledAt(t)'
<1>0. t \in Tokens /\ home[c] \in Providers /\ t # None
  BY BasicParts, CurrentIsToken, CallFields, TokenFacts
<1>1. /\ call[c].phase = "refused"
      /\ call' = [call EXCEPT ![c] = Idle]
      /\ cached' = cached
      /\ UNCHANGED <<store, home, issuedBy, exchanges>>
  BY DEF RefusedAgain, records, shared, provider
<1>2. call[c].got = None
  BY <1>1, CodeCarries DEF Carrying
<1>3. /\ \A d \in Calls \ {c} : call'[d] = call[d]
      /\ call'[c].got = None /\ call'[c].tok \in {None} /\ call'[c].phase = "idle"
  BY <1>1, <1>2, BasicParts, CallFields, IdleRequest DEF Types
<1>4. /\ \A p \in Providers \ {home[c]} : cached'[p] = cached[p]
      /\ cached'[home[c]] \in {None, cached[home[c]], call[c].tok}
  BY <1>0, <1>1, BasicParts DEF Types
<1> QED
  BY <1>0, <1>1, <1>2, <1>3, <1>4, OneQuiet

LEMMA SignedInSettled ==
    ASSUME Basic, Basic', NEW c \in Calls, SignedIn(c), NEW t \in valid, SettledAt(t) PROVE SettledAt(t)'
<1>0. t \in Tokens /\ home[c] \in Providers /\ t # None
  BY BasicParts, CurrentIsToken, CallFields, TokenFacts
<1>1. /\ call[c].phase = "signedIn"
      /\ call' = [call EXCEPT ![c] = Idle]
      /\ cached' = cached
      /\ UNCHANGED <<store, home, issuedBy, exchanges>>
  BY DEF SignedIn, records, shared, provider
<1>2. call[c].got = None
  BY <1>1, CodeCarries DEF Carrying
<1>3. /\ \A d \in Calls \ {c} : call'[d] = call[d]
      /\ call'[c].got = None /\ call'[c].tok \in {None} /\ call'[c].phase = "idle"
  BY <1>1, <1>2, BasicParts, CallFields, IdleRequest DEF Types
<1>4. /\ \A p \in Providers \ {home[c]} : cached'[p] = cached[p]
      /\ cached'[home[c]] \in {None, cached[home[c]], call[c].tok}
  BY <1>0, <1>1, BasicParts DEF Types
<1> QED
  BY <1>0, <1>1, <1>2, <1>3, <1>4, OneQuiet

LEMMA SpendSettled ==
    ASSUME Basic, Basic', NEW c \in Calls, Spend(c), NEW t \in valid, SettledAt(t) PROVE SettledAt(t)'
<1> DEFINE k == call[c].tok
<1>0. t \in Tokens /\ home[c] \in Providers /\ t # None
  BY BasicParts, CurrentIsToken, CallFields, TokenFacts
<1>1. /\ call[c].phase = "post"
      /\ UNCHANGED <<store, home, issuedBy, cached>>
      /\ \/ /\ exchanges[k] \in Tokens /\ call' = [call EXCEPT ![c] = Answered(@, exchanges[k])]
            /\ exchanges' = exchanges
         \/ /\ exchanges[k] \in {None, InFlight} /\ call' = [call EXCEPT ![c].phase = "wait"]
            /\ exchanges' = [exchanges EXCEPT ![k] = InFlight]
  BY DEF Spend, records, provider
<1>2. call[c].got = None /\ k \in Tokens
  <2>1. RequestOK(c) /\ call[c].tok \in Tokens \cup {None}
    BY BasicParts, CallFields
  <2> QED
    BY <1>1, <2>1, CodeCarries DEF Carrying, RequestOK
<1>3. CASE exchanges[k] \in Tokens
  <2>1. call' = [call EXCEPT ![c] = Answered(call[c], exchanges[k])] /\ exchanges' = exchanges
    BY <1>1, <1>3, TokenFacts
  <2>2. /\ \A d \in Calls \ {c} : call'[d] = call[d]
        /\ call'[c].got = exchanges[k] /\ call'[c].tok = None /\ call'[c].phase = "answered"
    BY <2>1, BasicParts, CallFields DEF Types, Answered, Request
  <2> QED
    BY <1>0, <1>1, <1>2, <1>3, <2>1, <2>2, OneQuiet
<1>4. CASE exchanges[k] \notin Tokens
  <2>1. call' = [call EXCEPT ![c].phase = "wait"] /\ exchanges' = [exchanges EXCEPT ![k] = InFlight]
    BY <1>1, <1>4
  <2>2. /\ \A d \in Calls \ {c} : call'[d] = call[d]
        /\ call'[c].got = None /\ call'[c].tok = k /\ call'[c].phase = "wait"
    BY <1>2, <2>1, BasicParts, CallFields DEF Types, Request
  <2>3. \A u \in Tokens : exchanges[u] \in Tokens => exchanges'[u] = exchanges[u]
    BY <1>4, <2>1, BasicParts DEF Types
  <2> QED
    BY <1>0, <1>1, <1>2, <2>2, <2>3, OneQuiet
<1> QED
  BY <1>3, <1>4

LEMMA EnqueueSettled ==
    ASSUME Basic, Basic', NEW c \in Calls, Enqueue(c), NEW t \in valid, SettledAt(t) PROVE SettledAt(t)'
<1>1. /\ call[c].phase = "answered" /\ call' = [call EXCEPT ![c].phase = "queued"]
      /\ UNCHANGED <<store, home, issuedBy, cached, exchanges>>
  BY DEF Enqueue, records, shared
<1>2. /\ \A d \in Calls \ {c} : call'[d] = call[d]
      /\ call'[c].got = call[c].got /\ call'[c].tok = call[c].tok /\ call'[c].phase = "queued"
  BY <1>1, BasicParts, CallFields DEF Types, Request
<1> QED
  BY <1>1, <1>2, OneQuiet

LEMMA SignInSettled ==
    ASSUME Basic, Basic', NEW c \in Calls, SignIn(c), NEW t \in valid, SettledAt(t) PROVE SettledAt(t)'
<1> DEFINE n == issued + 1
<1>0. t \in Tokens /\ t # None /\ t # n
  <2>1. t \in Tokens /\ t <= issued /\ issued \in Nat
    <3>1. t \in Tokens /\ issued \in Nat
      BY BasicParts, CurrentIsToken, TokenFacts
    <3>2. t \in 1 .. issued
      BY BasicParts DEF Types
    <3> QED
      BY <3>1, <3>2
  <2> QED
    BY <2>1, TokenFacts
<1>1. /\ call[c].phase = "idle" /\ call' = [call EXCEPT ![c] = [Answered(Idle, n) EXCEPT !.code = TRUE]]
      /\ UNCHANGED <<store, home, issuedBy, cached, exchanges>>
  BY DEF SignIn, records, shared
<1>2. call[c].got = None
  BY <1>1, CodeCarries DEF Carrying
<1>3. /\ \A d \in Calls \ {c} : call'[d] = call[d]
      /\ call'[c].got = n /\ call'[c].tok = None /\ call'[c].phase = "answered"
  BY <1>1, BasicParts DEF Types, Answered, Idle
<1> QED
  BY <1>0, <1>1, <1>2, <1>3, OneQuiet

(* A refused request finds that the store has moved on. *)
LEMMA StoreNotRefused ==
    ASSUME Basic, NEW t \in valid, SettledAt(t)
    PROVE  store \in Tokens /\ store \notin refused /\ (store = t \/ exchanges[store] \in Tokens)
<1>1. t \in Tokens /\ store \in Tokens
  BY BasicParts, CurrentIsToken DEF SettledAt, Types
<1>2. store = t \/ exchanges[store] \in Tokens
  BY <1>1 DEF SettledAt, AwaitsSave, AwaitsTwo
<1>3. ExchangeOK(store)
  BY <1>1, BasicParts
<1> QED
  BY <1>1, <1>2, <1>3 DEF ExchangeOK

LEMMA InvalidateSettled ==
    ASSUME Basic, Basic', NEW c \in Calls, Invalidate(c), NEW t \in valid, SettledAt(t) PROVE SettledAt(t)'
<1> DEFINE r == [Idle EXCEPT !.phase = IF KeepsStored(home[c]) THEN "again" ELSE "deleting",
                             !.retry = TRUE]
<1>0. t \in Tokens /\ home[c] \in Providers /\ t # None
  BY BasicParts, CurrentIsToken, CallFields, TokenFacts
<1>1. /\ call[c].phase = "refused" /\ call' = [call EXCEPT ![c] = r]
      /\ cached' = [cached EXCEPT ![home[c]] = None]
      /\ UNCHANGED <<store, home, issuedBy, exchanges>>
  BY DEF Invalidate, records, shared
<1>2. KeepsStored(home[c])
  <2>1. call[c].tok \in served[home[c]] /\ call[c].tok \in refused
    BY <1>1, BasicParts DEF RequestOK
  <2>2. store # None /\ store \notin refused
    BY StoreNotRefused DEF SettledAt
  <2> QED
    BY <2>1, <2>2 DEF KeepsStored
<1>3. r.phase = "again" /\ r.tok = None /\ r.got = None
  BY <1>2 DEF Idle
<1> HIDE DEF r
<1>4. /\ \A d \in Calls \ {c} : call'[d] = call[d]
      /\ call'[c] = r
  BY <1>1, BasicParts DEF Types
<1>5. call[c].got = None
  BY <1>1, CodeCarries DEF Carrying
<1>6. cached'[home[c]] = None /\ \A p \in Providers \ {home[c]} : cached'[p] = cached[p]
  BY <1>0, <1>1, BasicParts DEF Types
<1> QED
  BY <1>0, <1>1, <1>3, <1>4, <1>5, <1>6, OneQuiet

(* A save that is dropped: the store has moved past the token it was for, so
   its answer is not the one the store waits for. *)
LEMMA DropStaleSettled ==
    ASSUME Basic, Basic', NEW c \in Calls, DropStale(c), NEW t \in valid, SettledAt(t) PROVE SettledAt(t)'
<1>0. t \in Tokens /\ home[c] \in Providers /\ t # None /\ store # None
  BY BasicParts, CurrentIsToken, CallFields, TokenFacts DEF SettledAt
<1>1. /\ call[c].phase = "queued" /\ InTurn(c) /\ StaleResult(c) /\ call' = [call EXCEPT ![c] = Idle]
      /\ cached' = [cached EXCEPT ![home[c]] = None]
      /\ UNCHANGED <<store, home, issuedBy, exchanges>>
  BY DEF DropStale, records, shared
<1>2. /\ \A d \in Calls \ {c} : call'[d] = call[d]
      /\ call'[c].got = None /\ call'[c].tok = None /\ call'[c].phase = "idle"
      /\ cached'[home[c]] = None /\ \A p \in Providers \ {home[c]} : cached'[p] = cached[p]
  BY <1>0, <1>1, BasicParts, IdleRequest DEF Types
<1>3. store \notin {call[c].got, issuedBy[call[c].got]}
  BY <1>0, <1>1 DEF StaleResult, SpentFor
<1>4. ASSUME call[c].got = t, store # t PROVE \E d \in Calls \ {c} : call[d].got = t
  <2>1. CASE AwaitsSave(t)
    <3>1. PICK p \in Providers : WrittenOn(p, t)
      BY <1>3, <1>4, <2>1 DEF AwaitsSave
    <3> QED
      BY <1>1, <3>1 DEF WrittenOn
  <2>2. CASE AwaitsTwo(t)
    <3>1. PICK d \in Calls : home[d] = home[c] /\ call[d].phase = "writing"
      BY <1>4, <2>2 DEF AwaitsTwo, WrittenOn
    <3>2. Head(saving[home[c]]) = d
      BY <3>1, BasicParts DEF Queues
    <3> QED
      BY <1>1, <3>1, <3>2 DEF InTurn
  <2> QED
    BY <1>4, <2>1, <2>2 DEF SettledAt
<1> QED
  BY <1>0, <1>1, <1>2, <1>4, OneQuiet

(* What a save that is not stale writes, the store is at or one answer behind. *)
LEMMA WritesNext ==
    ASSUME Basic, NEW c \in Calls, call[c].phase = "queued", ~call[c].code, ~StaleResult(c), store # None
    PROVE  call[c].got \in {store, exchanges[store]}
<1>1. ~exchanging[home[c]]
  BY NotExchanging
<1>2. call[c].got \in Tokens /\ issuedBy[call[c].got] # None
  BY BasicParts, CallFields DEF RequestOK, Carrying
<1>3. store = call[c].got \/ store = issuedBy[call[c].got]
  BY <1>1, <1>2 DEF StaleResult, SpentFor
<1>4. ExchangeOK(call[c].got)
  BY <1>2, BasicParts
<1> QED
  BY <1>2, <1>3, <1>4 DEF ExchangeOK

LEMMA BeginWriteSettled ==
    ASSUME Basic, Basic', NEW c \in Calls, BeginWrite(c), NEW t \in valid, SettledAt(t) PROVE SettledAt(t)'
<1> DEFINE n == call[c].got
<1>0. t \in Tokens /\ home[c] \in Providers /\ t # None /\ store # None /\ \A d \in Calls : home[d] \in Providers
  BY BasicParts, CurrentIsToken, CallFields, TokenFacts DEF SettledAt
<1>1. /\ call[c].phase = "queued" /\ InTurn(c) /\ ~StaleResult(c)
      /\ call' = [call EXCEPT ![c].phase = "writing"]
      /\ cached' = [cached EXCEPT ![home[c]] = n]
      /\ UNCHANGED <<store, home, issuedBy, exchanges>>
  BY DEF BeginWrite, records, shared
<1>2. /\ \A d \in Calls \ {c} : call'[d] = call[d]
      /\ call'[c].got = n /\ call'[c].tok = call[c].tok /\ call'[c].phase = "writing"
      /\ call'[c].code = call[c].code /\ call'[c].over = call[c].over
      /\ cached'[home[c]] = n /\ \A p \in Providers \ {home[c]} : cached'[p] = cached[p]
  BY <1>0, <1>1, BasicParts, CallFields DEF Types, Request
<1>3. ASSUME NEW p \in Providers, NEW x \in Tokens, WrittenOn(p, x) PROVE WrittenOn(p, x)'
  <2>1. PICK d \in Calls : home[d] = p /\ call[d].phase = "writing" /\ call[d].got = x
    BY <1>3 DEF WrittenOn
  <2>2. call'[d] = call[d]
    BY <1>1, <1>2, <2>1
  <2> QED
    BY <1>1, <2>1, <2>2 DEF WrittenOn
<1>4. ASSUME NEW p \in Providers, NEW x \in Tokens, KnownOn(p, x)', ~KnownOn(p, x)
      PROVE  p = home[c] /\ x = n /\ WrittenOn(p, x)'
  <2>1. \A d \in Calls : call'[d].tok = call[d].tok
    BY <1>2
  <2>2. cached'[p] = x /\ cached[p] # x
    BY <1>1, <1>4, <2>1 DEF KnownOn
  <2>3. p = home[c] /\ x = n
    BY <1>2, <2>2
  <2>4. home'[c] = p /\ call'[c].phase = "writing" /\ call'[c].got = x
    BY <1>1, <1>2, <2>3
  <2> QED
    BY <2>3, <2>4 DEF WrittenOn
<1>5. ASSUME AwaitsTwo(t) PROVE n # t
  <2> SUFFICES ASSUME n = t PROVE FALSE
    OBVIOUS
  <2>1. PICK d \in Calls : home[d] = home[c] /\ call[d].phase = "writing"
    BY <1>5 DEF AwaitsTwo, WrittenOn
  <2>2. Head(saving[home[c]]) = d
    BY <2>1, BasicParts DEF Queues
  <2> QED
    BY <1>1, <2>1, <2>2 DEF InTurn
<1>6. \A p \in Providers, x \in Tokens : x # store =>
          (KnownOn(p, x)' => KnownOn(p, x) \/ WrittenOn(p, x)')
  BY <1>4
<1>7. AwaitsTwo(t) => \A p \in Providers : KnownOn(p, t)' => KnownOn(p, t)
  BY <1>0, <1>4, <1>5
<1>8. \A p \in Providers, x \in Tokens : x # store => (WrittenOn(p, x) => WrittenOn(p, x)')
  BY <1>3
<1>9. /\ AwaitsTwo(t) => \A d \in Calls : call'[d].got = t =>
             call[d].got = t \/ KnownOn(home[d], exchanges[store])
      /\ store # t /\ Carried(t) => Carried(t)'
  <2>1. \A d \in Calls : call'[d].got = call[d].got
    BY <1>2
  <2> QED
    BY <2>1 DEF Carried
<1>10. ASSUME NEW d \in Calls
       PROVE  /\ call'[d].phase = "deleting" => call'[d].over
              /\ call'[d].phase = "writing" /\ ~call'[d].over /\ ~call'[d].code =>
                    call'[d].got \in {store, exchanges[store]}
  <2>1. CASE d = c
    BY <1>0, <1>1, <1>2, <2>1, WritesNext
  <2>2. CASE d # c
    BY <1>2, <2>2 DEF SettledAt, WriteOK
  <2> QED
    BY <2>1, <2>2
<1>11. issuedBy'[t] = issuedBy[t] /\ UNCHANGED <<store, home>>
       /\ \A u \in Tokens : exchanges[u] \in Tokens => exchanges'[u] = exchanges[u]
  BY <1>1
<1> QED
  BY <1>6, <1>7, <1>8, <1>9, <1>10, <1>11, Quiet

(* An exchange that ends and does not replace t. *)
LEMMA SharersQuiet ==
    ASSUME Basic, Basic', NEW t \in valid, SettledAt(t), NEW u \in Tokens, exchanges[u] = InFlight,
           UNCHANGED <<store, home, cached>>, issuedBy'[t] = issuedBy[t],
           \A v \in Tokens \ {u} : exchanges'[v] = exchanges[v],
           \A c \in Calls : ~Sharing(c, u) => call'[c] = call[c],
           \A c \in Calls : Sharing(c, u) =>
               /\ call'[c].phase \in {"answered", "refused", "idle"} /\ call'[c].tok \in {None, u}
               /\ call'[c].got # t
    PROVE  SettledAt(t)'
<1>0. t \in Tokens /\ t # None /\ InFlight \notin Tokens
  BY BasicParts, CurrentIsToken, TokenFacts
<1>1. \A p \in Providers, x \in Tokens : x # store => (KnownOn(p, x)' => KnownOn(p, x) \/ WrittenOn(p, x)')
  <2> SUFFICES ASSUME NEW p \in Providers, NEW x \in Tokens, KnownOn(p, x)' PROVE KnownOn(p, x)
    OBVIOUS
  <2>1. CASE cached'[p] = x
    BY <2>1 DEF KnownOn
  <2>2. CASE \E d \in Calls : home'[d] = p /\ call'[d].tok = x
    <3>1. PICK d \in Calls : home[d] = p /\ call'[d].tok = x
      BY <2>2
    <3>2. call[d].tok = x
      BY <3>1, TokenFacts DEF Sharing
    <3> QED
      BY <3>1, <3>2 DEF KnownOn
  <2> QED
    BY <2>1, <2>2 DEF KnownOn
<1>2. AwaitsTwo(t) => \A p \in Providers : KnownOn(p, t)' => KnownOn(p, t)
  BY <1>0, <1>1 DEF AwaitsTwo, KnownOn, Sharing
<1>3. \A p \in Providers, x \in Tokens : x # store => (WrittenOn(p, x) => WrittenOn(p, x)')
  <2> SUFFICES ASSUME NEW p \in Providers, NEW x \in Tokens, WrittenOn(p, x) PROVE WrittenOn(p, x)'
    OBVIOUS
  <2>1. PICK d \in Calls : home[d] = p /\ call[d].phase = "writing" /\ call[d].got = x
    BY DEF WrittenOn
  <2>2. call'[d] = call[d]
    BY <2>1 DEF Sharing
  <2> QED
    BY <2>1, <2>2 DEF WrittenOn
<1>4. store # t /\ Carried(t) => Carried(t)'
  <2> SUFFICES ASSUME NEW d \in Calls, call[d].got = t PROVE call'[d].got = t
    BY DEF Carried
  <2>1. call[d].phase # "wait"
    BY <1>0, CodeCarries DEF Carrying
  <2> QED
    BY <2>1 DEF Sharing
<1>5. AwaitsTwo(t) => \A c \in Calls : call'[c].got = t => call[c].got = t \/ KnownOn(home[c], exchanges[store])
  OBVIOUS
<1>6. ASSUME NEW d \in Calls
      PROVE  /\ call'[d].phase = "deleting" => call'[d].over
             /\ call'[d].phase = "writing" /\ ~call'[d].over /\ ~call'[d].code =>
                   call'[d].got \in {store, exchanges[store]}
  <2>1. CASE Sharing(d, u)
    BY <2>1
  <2>2. CASE ~Sharing(d, u)
    BY <2>2 DEF SettledAt, WriteOK
  <2> QED
    BY <2>1, <2>2
<1>7. \A v \in Tokens : exchanges[v] \in Tokens => exchanges'[v] = exchanges[v]
  BY <1>0
<1>8. UNCHANGED <<store, home>>
  OBVIOUS
<1> QED
  BY <1>1, <1>2, <1>3, <1>4, <1>5, <1>6, <1>7, <1>8, Quiet

LEMMA RefusedSettled ==
    ASSUME Basic, Basic', NEW u \in Tokens, Refused(u), NEW t \in valid, SettledAt(t) PROVE SettledAt(t)'
<1>1. /\ exchanges[u] = InFlight /\ exchanges' = [exchanges EXCEPT ![u] = None]
      /\ UNCHANGED <<store, home, cached, issuedBy>>
      /\ call' = [c \in Calls |-> IF Sharing(c, u) THEN [call[c] EXCEPT !.phase = "refused"] ELSE call[c]]
  BY DEF Refused, records, provider
<1>2. \A v \in Tokens \ {u} : exchanges'[v] = exchanges[v]
  BY <1>1, BasicParts DEF Types
<1>3. \A c \in Calls : ~Sharing(c, u) => call'[c] = call[c]
  BY <1>1
<1>4. ASSUME NEW c \in Calls, Sharing(c, u)
      PROVE  call'[c].phase = "refused" /\ call'[c].tok \in {None, u} /\ call'[c].got # t
  <2>1. call'[c] = [call[c] EXCEPT !.phase = "refused"]
    BY <1>1, <1>4
  <2>2. call'[c].phase = "refused" /\ call'[c].tok = call[c].tok /\ call'[c].got = call[c].got
    BY <2>1, BasicParts, CallFields DEF Request
  <2>3. call[c].tok = u /\ call[c].got = None
    BY <1>4, CodeCarries DEF Sharing, Carrying
  <2>4. t # None
    BY BasicParts, CurrentIsToken, TokenFacts
  <2> QED
    BY <2>2, <2>3, <2>4
<1> QED
  BY <1>1, <1>2, <1>3, <1>4, SharersQuiet

LEMMA UnavailableSettled ==
    ASSUME Basic, Basic', NEW u \in Tokens, Unavailable(u), NEW t \in valid, SettledAt(t) PROVE SettledAt(t)'
<1>1. /\ exchanges[u] = InFlight /\ exchanges' = [exchanges EXCEPT ![u] = None]
      /\ UNCHANGED <<store, home, cached, issuedBy>>
      /\ call' = [c \in Calls |-> IF Sharing(c, u) THEN Idle ELSE call[c]]
  BY DEF Unavailable, Reauthorize, records, provider
<1>2. \A v \in Tokens \ {u} : exchanges'[v] = exchanges[v]
  BY <1>1, BasicParts DEF Types
<1>3. \A c \in Calls : ~Sharing(c, u) => call'[c] = call[c]
  BY <1>1
<1>4. ASSUME NEW c \in Calls, Sharing(c, u)
      PROVE  call'[c].phase = "idle" /\ call'[c].tok \in {None, u} /\ call'[c].got # t
  <2>1. call'[c] = Idle /\ t # None
    BY <1>1, <1>4, BasicParts, CurrentIsToken, TokenFacts
  <2> QED
    BY <2>1, IdleRequest
<1> QED
  BY <1>1, <1>2, <1>3, <1>4, SharersQuiet

LEMMA ReplayEndsSettled ==
    ASSUME Basic, NEW u \in Tokens, ReplayEnds(u), NEW t \in valid, SettledAt(t)
    PROVE  SettledAt(t)' /\ store = t
<1>1. /\ UNCHANGED <<store, call>>
      /\ \A c \in Calls : call[c].phase \in {"idle", "wait"} /\ call[c].got = None
  BY ReplayEndsFacts
<1>2. t # None
  BY BasicParts, CurrentIsToken, TokenFacts
<1>3. store = t
  BY <1>1, <1>2 DEF SettledAt, AwaitsSave, AwaitsTwo, Carried
<1> QED
  BY <1>1, <1>3 DEF SettledAt, WriteOK

LEMMA UntouchedSettled ==
    ASSUME NEW t, SettledAt(t), UNCHANGED <<store, call, home, exchanges, issuedBy, cached>>
    PROVE  SettledAt(t)'
BY DEF SettledAt, WriteOK, AwaitsSave, AwaitsTwo, Carried, KnownOn, WrittenOn

(* The vendor accepts a token: where the store was at it or waiting for it,
   it now waits for the answer. *)
LEMMA ExchangedOther ==
    ASSUME Basic, Basic', NEW u \in Tokens, NEW n \in Tokens, Exchanged(u, n), NEW t \in valid,
           SettledAt(t), u # t
    PROVE  SettledAt(t)'
<1>1. /\ exchanges[u] = InFlight /\ UNCHANGED <<store, home, cached>>
      /\ \A v \in Tokens : exchanges'[v] = (IF v = u THEN n ELSE exchanges[v])
      /\ \A v \in Tokens : issuedBy'[v] = (IF v = n THEN u ELSE issuedBy[v])
      /\ n # u => n \notin valid
  BY ExchangedFacts
<1>2. t \in Tokens /\ n # t
  BY <1>1, BasicParts, CurrentIsToken
<1>3. /\ \A c \in Calls : ~Sharing(c, u) => call'[c] = call[c]
      /\ \A c \in Calls : Sharing(c, u) => call'[c] = Answered(call[c], n)
  BY DEF Exchanged
<1>4. \A c \in Calls : Sharing(c, u) =>
        call'[c].phase = "answered" /\ call'[c].tok = None /\ call'[c].got = n
  BY <1>3, BasicParts, CallFields DEF Answered, Request
<1> QED
  BY <1>1, <1>2, <1>3, <1>4, SharersQuiet

LEMMA ExchangedThis ==
    ASSUME Basic, Basic', NEW t \in valid, NEW n \in Tokens, Exchanged(t, n), SettledAt(t)
    PROVE  SettledAt(n)'
<1>0. t \in Tokens /\ t # None /\ n # None /\ store \in Tokens /\ InFlight \notin Tokens
      /\ \A c \in Calls : home[c] \in Providers
  BY BasicParts, CurrentIsToken, TokenFacts, CallFields DEF SettledAt, Types
<1>1. /\ exchanges[t] = InFlight /\ UNCHANGED <<store, home, cached>>
      /\ \A v \in Tokens : exchanges'[v] = (IF v = t THEN n ELSE exchanges[v])
      /\ \A v \in Tokens : issuedBy'[v] = (IF v = n THEN t ELSE issuedBy[v])
  BY <1>0, ExchangedFacts
<1>2. n # t => /\ \A u \in Tokens : exchanges[u] # n
               /\ store # n /\ \A p \in Providers : cached[p] # n
               /\ \A c \in Calls : call[c].tok # n /\ call[c].got # n
  BY <1>0, ExchangedFacts
<1>3. /\ \A c \in Calls : ~Sharing(c, t) => call'[c] = call[c]
      /\ \A c \in Calls : Sharing(c, t) => call'[c] = Answered(call[c], n)
  BY DEF Exchanged
<1>4. \A c \in Calls : Sharing(c, t) =>
        /\ call'[c].phase = "answered" /\ call'[c].tok = None /\ call'[c].got = n
        /\ call[c].phase = "wait" /\ call[c].tok = t /\ call[c].got = None
  BY <1>3, BasicParts, CallFields, CodeCarries DEF Answered, Request, Sharing, Carrying
<1>5. PICK w \in Calls : Sharing(w, t)
  BY <1>0, <1>1, BasicParts DEF ExchangeOK
<1>6. KnownOn(home[w], t) /\ call'[w].got = n /\ ~AwaitsTwo(t)
  <2>1. KnownOn(home[w], t) /\ call'[w].got = n
    BY <1>4, <1>5 DEF KnownOn
  <2> QED
    BY <1>0, <2>1 DEF AwaitsTwo
<1>7. Carried(n)'
  BY <1>6 DEF Carried
<1>8. ASSUME NEW p \in Providers, NEW x \in Tokens, KnownOn(p, x)' PROVE KnownOn(p, x)
  <2>1. CASE cached'[p] = x
    BY <1>1, <2>1 DEF KnownOn
  <2>2. CASE \E d \in Calls : home'[d] = p /\ call'[d].tok = x
    <3>1. PICK d \in Calls : home[d] = p /\ call'[d].tok = x
      BY <1>1, <2>2
    <3>2. call[d].tok = x
      BY <1>3, <1>4, <3>1, TokenFacts
    <3> QED
      BY <3>1, <3>2 DEF KnownOn
  <2> QED
    BY <1>8, <2>1, <2>2 DEF KnownOn
<1>9. ASSUME NEW p \in Providers, NEW x \in Tokens, WrittenOn(p, x) PROVE WrittenOn(p, x)'
  <2>1. PICK d \in Calls : home[d] = p /\ call[d].phase = "writing" /\ call[d].got = x
    BY <1>9 DEF WrittenOn
  <2>2. call'[d] = call[d]
    BY <1>3, <2>1 DEF Sharing
  <2> QED
    BY <1>1, <2>1, <2>2 DEF WrittenOn
<1>10. ASSUME n # t, NEW p \in Providers, NEW x \in Tokens, x = n PROVE ~KnownOn(p, x)'
  BY <1>2, <1>8, <1>10 DEF KnownOn
<1>11. \A c \in Calls : WriteOK(c)'
  <2> SUFFICES ASSUME NEW c \in Calls PROVE WriteOK(c)'
    OBVIOUS
  <2>1. CASE Sharing(c, t)
    BY <1>4, <2>1 DEF WriteOK
  <2>2. CASE ~Sharing(c, t)
    <3>1. call'[c] = call[c] /\ WriteOK(c) /\ RequestOK(c) /\ call[c].got \in Tokens \cup {None}
      BY <1>3, <2>2, BasicParts, CallFields DEF SettledAt
    <3>2. call[c].got \in Tokens /\ call[c].got = exchanges[store] => exchanges'[store] = exchanges[store]
      BY <1>0, <1>1
    <3> QED
      BY <1>0, <1>1, <3>1, <3>2 DEF WriteOK, RequestOK, Carrying
  <2> QED
    BY <2>1, <2>2
<1>12. CASE n = t
  <2>1. ASSUME store # t PROVE AwaitsSave(t)'
    <3>1. AwaitsSave(t)
      BY <1>6, <2>1 DEF SettledAt
    <3>2. WrittenOn(home[w], t)
      BY <1>0, <1>6, <3>1 DEF AwaitsSave
    <3>3. \E p \in Providers : WrittenOn(p, t)'
      BY <1>0, <1>9, <3>2
    <3>4. exchanges'[store] = t
      BY <1>0, <1>1, <2>1, <3>1 DEF AwaitsSave
    <3>5. \A p \in Providers : KnownOn(p, t)' => WrittenOn(p, t)'
      BY <1>0, <1>8, <1>9, <3>1 DEF AwaitsSave
    <3>6. Carried(t)'
      BY <1>6, <1>12 DEF Carried
    <3> QED
      BY <1>1, <2>1, <3>3, <3>4, <3>5, <3>6 DEF AwaitsSave
  <2>2. SettledAt(t)'
    BY <1>0, <1>1, <1>11, <2>1 DEF SettledAt
  <2> QED
    BY <1>12, <2>2
<1>13. CASE n # t /\ store = t
  <2>1. \A p \in Providers : ~KnownOn(p, n)'
    BY <1>10, <1>13
  <2>2. AwaitsSave(n)'
    BY <1>0, <1>1, <1>7, <1>13, <2>1 DEF AwaitsSave
  <2> QED
    BY <1>0, <1>1, <1>11, <2>2 DEF SettledAt
<1>14. CASE n # t /\ store # t
  <2>1. AwaitsSave(t)
    BY <1>6, <1>14 DEF SettledAt
  <2>2. /\ exchanges'[store] = t /\ exchanges'[t] = n /\ issuedBy'[n] = t /\ store # n
    BY <1>0, <1>1, <1>2, <1>14, <2>1 DEF AwaitsSave
  <2>3. \A p \in Providers : KnownOn(p, t) => WrittenOn(p, t)
    BY <2>1 DEF AwaitsSave
  <2>4. \A p \in Providers : KnownOn(p, t)' => WrittenOn(p, t)'
    BY <1>0, <1>8, <1>9, <2>3
  <2>5. ASSUME NEW c \in Calls, call'[c].got = n PROVE WrittenOn(home[c], t)'
    <3>1. Sharing(c, t)
      BY <1>2, <1>3, <1>14, <2>5
    <3>2. KnownOn(home[c], t)
      BY <1>4, <3>1 DEF KnownOn
    <3>3. PICK p \in Providers : p = home[c]
      BY <1>0
    <3>4. WrittenOn(p, t)'
      BY <1>0, <1>9, <2>3, <3>2, <3>3
    <3> QED
      BY <1>1, <3>3, <3>4 DEF WrittenOn
  <2>6. \A p \in Providers : ~KnownOn(p, n)'
    BY <1>10, <1>14
  <2>7. AwaitsTwo(n)'
    <3>1. \A p \in Providers : KnownOn(p, exchanges[store])' => WrittenOn(p, exchanges[store])'
      BY <1>1, <2>2, <2>4 DEF KnownOn, WrittenOn
    <3>2. \A c \in Calls : call'[c].got = n => WrittenOn(home[c], exchanges[store])'
      BY <1>1, <2>2, <2>5 DEF WrittenOn
    <3> QED
      BY <1>0, <1>1, <1>7, <1>14, <2>2, <2>6, <3>1, <3>2 DEF AwaitsTwo
  <2> QED
    BY <1>0, <1>1, <1>11, <2>7 DEF SettledAt
<1> QED
  BY <1>12, <1>13, <1>14

(* What a write that was not outdated leaves behind. *)
LEMMA EndWriteFacts ==
    ASSUME Basic, NEW c \in Calls, EndWrite(c), ~crossed'
    PROVE  /\ call[c].phase = "writing" /\ ~call[c].over /\ store' = call[c].got
           /\ call[c].got \in Tokens /\ ~crossed
           /\ UNCHANGED <<home, cached, exchanges, issuedBy, valid, current, revoked>>
           /\ call'[c].got = None /\ call'[c].tok = None /\ call'[c].code = FALSE
           /\ call'[c].phase = (IF call[c].code THEN "signedIn" ELSE "idle")
           /\ call'[c].retry = FALSE
           /\ \A d \in Calls \ {c} :
                 /\ call'[d].phase = call[d].phase /\ call'[d].tok = call[d].tok
                 /\ call'[d].got = call[d].got /\ call'[d].code = call[d].code
                 /\ call'[d].retry = call[d].retry
                 /\ call[d].over => call'[d].over
                 /\ call[d].phase \in {"writing", "deleting"} /\ home[d] # home[c] /\ store # call[c].got =>
                       call'[d].over
                 /\ call'[d].over => call[d].over \/ store # call[c].got
                 /\ call[d].phase = "writing" => home[d] # home[c]
<1> DEFINE r == IF call[c].code THEN [Idle EXCEPT !.phase = "signedIn"] ELSE Idle
<1>1. /\ call[c].phase = "writing" /\ Stores(c, call[c].got, r)
      /\ UNCHANGED <<home, cached, exchanges, issuedBy, valid, current, revoked>>
  BY DEF EndWrite, vendor, shared
<1>2. call[c].got \in Tokens /\ call[c].code \in BOOLEAN /\ call[c].tok = None
  BY <1>1, BasicParts, CallFields DEF RequestOK, Carrying
<1>3. /\ r \in Request /\ r.phase = IF call[c].code THEN "signedIn" ELSE "idle"
      /\ r.tok = None /\ r.got = None /\ r.code = FALSE /\ r.retry = FALSE
  BY <1>2 DEF Request, Phases, Idle
<1> HIDE DEF r
<1>4. /\ store' = call[c].got /\ call'[c] = r
      /\ \A d \in Calls \ {c} :
            /\ call'[d].phase = call[d].phase /\ call'[d].tok = call[d].tok
            /\ call'[d].got = call[d].got /\ call'[d].code = call[d].code
            /\ call'[d].retry = call[d].retry
            /\ call[d].over => call'[d].over
            /\ call[d].phase \in {"writing", "deleting"} /\ home[d] # home[c] /\ store # call[c].got =>
                  call'[d].over
            /\ call'[d].over => call[d].over \/ store # call[c].got
  <2>1. PICK g \in Tokens \cup {None} : g = call[c].got
    BY <1>2
  <2>2. PICK q \in Request : q = r
    BY <1>3
  <2>3. Stores(c, g, q)
    BY <1>1, <2>1, <2>2 DEF Stores
  <2>4. /\ store' = g /\ call'[c] = q
        /\ \A d \in Calls \ {c} :
              /\ call'[d].phase = call[d].phase /\ call'[d].tok = call[d].tok
              /\ call'[d].got = call[d].got /\ call'[d].code = call[d].code
              /\ call'[d].retry = call[d].retry
              /\ call[d].over => call'[d].over
              /\ call[d].phase \in {"writing", "deleting"} /\ home[d] # home[c] /\ store # g =>
                    call'[d].over
              /\ call'[d].over => call[d].over \/ store # g
    <3>1. Types
      BY BasicParts
    <3>2. /\ call' \in [Calls -> Request] /\ crossed' \in BOOLEAN /\ store' = g /\ call'[c] = q
          /\ \A d \in Calls \ {c} :
                /\ call'[d] = call[d] \/ call'[d] = [call[d] EXCEPT !.over = TRUE]
                /\ call'[d].phase = call[d].phase /\ call'[d].tok = call[d].tok
                /\ call'[d].got = call[d].got /\ call'[d].code = call[d].code
                /\ call'[d].retry = call[d].retry
                /\ call[d].over => call'[d].over
                /\ call[d].phase \in {"writing", "deleting"} /\ home[d] # home[c] /\ store # g =>
                      call'[d].over
                /\ call'[d].over => call[d].over \/ store # g
      BY <2>3, <3>1, StoresFacts, Zenon
    <3> QED
      BY <3>2
  <2> QED
    BY <2>1, <2>2, <2>4
<1>5. ~call[c].over /\ ~crossed
  BY <1>1 DEF Stores
<1>6. ASSUME NEW d \in Calls, d # c, call[d].phase = "writing" PROVE home[d] # home[c]
  BY <1>1, <1>6, BasicParts DEF Queues
<1> QED
  BY <1>1, <1>2, <1>3, <1>4, <1>5, <1>6

LEMMA EndWriteSettled ==
    ASSUME Basic, Basic', NEW c \in Calls, EndWrite(c), ~crossed', ~call[c].code, NEW t \in valid, SettledAt(t)
    PROVE  SettledAt(t)'
<1> DEFINE g == call[c].got
<1>0. t \in Tokens /\ t # None /\ store \in Tokens /\ \A d \in Calls : home[d] \in Providers
  BY BasicParts, CurrentIsToken, TokenFacts, CallFields DEF SettledAt, Types
<1>1. /\ call[c].phase = "writing" /\ ~call[c].over /\ store' = g /\ g \in Tokens
      /\ UNCHANGED <<home, cached, exchanges, issuedBy>>
      /\ call'[c].got = None /\ call'[c].tok = None /\ call'[c].phase = "idle"
  BY EndWriteFacts
<1>2. \A d \in Calls \ {c} :
         /\ call'[d].phase = call[d].phase /\ call'[d].tok = call[d].tok
         /\ call'[d].got = call[d].got /\ call'[d].code = call[d].code
         /\ call[d].over => call'[d].over
         /\ call[d].phase \in {"writing", "deleting"} /\ home[d] # home[c] /\ store # g =>
               call'[d].over
         /\ call'[d].over => call[d].over \/ store # g
         /\ call[d].phase = "writing" => home[d] # home[c]
  BY EndWriteFacts
<1>3. g \in {store, exchanges[store]}
  BY <1>1 DEF SettledAt, WriteOK
<1>4. ASSUME NEW p \in Providers, NEW x \in Tokens, KnownOn(p, x)' PROVE KnownOn(p, x)
  <2>1. CASE cached'[p] = x
    BY <1>1, <2>1 DEF KnownOn
  <2>2. CASE \E d \in Calls : home'[d] = p /\ call'[d].tok = x
    <3>1. PICK d \in Calls : home[d] = p /\ call'[d].tok = x
      BY <1>1, <2>2
    <3>2. call[d].tok = x
      BY <1>1, <1>2, <3>1, TokenFacts
    <3> QED
      BY <3>1, <3>2 DEF KnownOn
  <2> QED
    BY <1>4, <2>1, <2>2 DEF KnownOn
<1>5. ASSUME NEW p \in Providers, NEW x \in Tokens, x # g, WrittenOn(p, x) PROVE WrittenOn(p, x)'
  <2>1. PICK d \in Calls : home[d] = p /\ call[d].phase = "writing" /\ call[d].got = x
    BY <1>5 DEF WrittenOn
  <2>2. d # c /\ home'[d] = p /\ call'[d].phase = "writing" /\ call'[d].got = x
    BY <1>1, <1>2, <1>5, <2>1
  <2> QED
    BY <2>2 DEF WrittenOn
<1>6. ASSUME g # t, Carried(t) PROVE Carried(t)'
  <2>1. PICK d \in Calls : call[d].got = t
    BY <1>6 DEF Carried
  <2>2. call'[d].got = t
    BY <1>2, <1>6, <2>1
  <2> QED
    BY <2>2 DEF Carried
<1>7. CASE g = store
  <2>1. \A p \in Providers, x \in Tokens : x # store => (KnownOn(p, x)' => KnownOn(p, x) \/ WrittenOn(p, x)')
    BY <1>4
  <2>2. AwaitsTwo(t) => \A p \in Providers : KnownOn(p, t)' => KnownOn(p, t)
    BY <1>0, <1>4
  <2>3. \A p \in Providers, x \in Tokens : x # store => (WrittenOn(p, x) => WrittenOn(p, x)')
    BY <1>5, <1>7
  <2>4. store # t /\ Carried(t) => Carried(t)'
    BY <1>6, <1>7
  <2>5. AwaitsTwo(t) => \A d \in Calls : call'[d].got = t => call[d].got = t \/ KnownOn(home[d], exchanges[store])
    BY <1>0, <1>1, <1>2
  <2>6. ASSUME NEW d \in Calls
        PROVE  /\ call'[d].phase = "deleting" => call'[d].over
               /\ call'[d].phase = "writing" /\ ~call'[d].over /\ ~call'[d].code =>
                     call'[d].got \in {store, exchanges[store]}
    <3>1. CASE d = c
      BY <1>1, <3>1
    <3>2. CASE d # c
      <4>1. WriteOK(d) /\ (call[d].over => call'[d].over)
        BY <1>2, <3>2 DEF SettledAt
      <4> QED
        BY <1>2, <3>2, <4>1 DEF WriteOK
    <3> QED
      BY <3>1, <3>2
  <2>7. issuedBy'[t] = issuedBy[t] /\ UNCHANGED <<store, home>>
        /\ \A u \in Tokens : exchanges[u] \in Tokens => exchanges'[u] = exchanges[u]
    BY <1>1, <1>7
  <2> QED
    BY <2>1, <2>2, <2>3, <2>4, <2>5, <2>6, <2>7, Quiet
<1>8. CASE g # store
  <2>1. g = exchanges[store]
    BY <1>3, <1>8
  <2>2. ASSUME NEW d \in Calls PROVE WriteOK(d)'
    <3>1. CASE d = c
      BY <1>1, <3>1 DEF WriteOK
    <3>2. CASE d # c
      <4>1. call'[d].phase = "deleting" => call'[d].over
        BY <1>2, <3>2 DEF SettledAt, WriteOK
      <4>2. call'[d].phase = "writing" => call'[d].over
        BY <1>2, <1>8, <3>2
      <4> QED
        BY <4>1, <4>2 DEF WriteOK
    <3> QED
      BY <3>1, <3>2
  <2>3. store' # None
    BY <1>1, TokenFacts
  <2>4. store # t
    <3>1. ExchangeOK(store)
      BY <1>0, BasicParts
    <3> QED
      BY <1>1, <1>8, <2>1, <3>1 DEF ExchangeOK
  <2>5. CASE AwaitsSave(t)
    BY <1>1, <2>1, <2>2, <2>3, <2>5 DEF AwaitsSave, SettledAt
  <2>6. CASE AwaitsTwo(t)
    <3>1. g # t /\ exchanges[g] = t /\ Carried(t) /\ issuedBy[t] = g /\ \A p \in Providers : ~KnownOn(p, t)
      BY <2>1, <2>6 DEF AwaitsTwo
    <3>2. AwaitsSave(t)'
      BY <1>0, <1>1, <1>4, <1>6, <3>1 DEF AwaitsSave
    <3> QED
      BY <2>2, <2>3, <3>2 DEF SettledAt
  <2> QED
    BY <2>4, <2>5, <2>6 DEF SettledAt
<1> QED
  BY <1>7, <1>8

(* The save of a sign-in: whatever the store was at, and whoever was writing
   to it, it is at the new token. *)
LEMMA EndWriteSignsIn ==
    ASSUME Basic, NEW c \in Calls, EndWrite(c), ~crossed', call[c].code
    PROVE  SettledAt(current)' /\ current' = current
<1>1. /\ SigningIn(c) /\ current \in Tokens
  BY BasicParts, CurrentIsToken DEF Basic
<1>2. /\ call[c].phase = "writing" /\ store' = call[c].got
      /\ UNCHANGED <<home, current>>
      /\ call'[c].phase = "signedIn"
  BY EndWriteFacts
<1>3. \A d \in Calls \ {c} :
         /\ call'[d].phase = call[d].phase
         /\ call[d].over => call'[d].over
         /\ call[d].phase \in {"writing", "deleting"} /\ home[d] # home[c] /\ store # call[c].got =>
               call'[d].over
         /\ call'[d].over => call[d].over \/ store # call[c].got
  BY EndWriteFacts
<1>4. store' = current /\ store # current /\ current # None
  BY <1>1, <1>2, TokenFacts DEF SigningIn
<1>5. ASSUME NEW d \in Calls PROVE WriteOK(d)'
  <2>1. CASE d = c
    BY <1>2, <2>1 DEF WriteOK
  <2>2. CASE d # c
    <3>1. call[d].phase \in {"writing", "deleting"} => home[d] # home[c]
      BY <1>1, <2>2 DEF SigningIn
    <3>2. call[c].got = current
      BY <1>1 DEF SigningIn
    <3>3. call'[d].phase \in {"writing", "deleting"} => call'[d].over
      BY <1>3, <1>4, <2>2, <3>1, <3>2
    <3> QED
      BY <3>3 DEF WriteOK
  <2> QED
    BY <2>1, <2>2
<1> QED
  BY <1>2, <1>4, <1>5 DEF SettledAt

-----------------------------------------------------------------------------
(* The inductive invariant: the second try of a request *)

(* The vendor accepts t, or its answer is at hand again. *)
Good(t) == t \in valid \/ exchanges[t] \in Tokens

(* Whoever reads the store finds a token, and what a request uses on its
   second try is good. *)
RetryOK(c) ==
    /\ call[c].phase = "reading" => call[c].tok # None /\ Good(call[c].tok)
    /\ call[c].retry => call[c].phase \notin {"refused", "idle"}
    /\ call[c].retry /\ call[c].phase = "again" /\ cached[home[c]] # None => Good(cached[home[c]])
    /\ call[c].retry /\ call[c].phase = "post" => Good(call[c].tok)
    /\ call[c].retry /\ call[c].phase = "wait" => call[c].tok \in valid

(* What a step of one request does to the second try of the others. *)
LEMMA OneRetries ==
    ASSUME Basic, NEW c \in Calls, \A d \in Calls : RetryOK(d), RetryOK(c)', UNCHANGED home,
           \A d \in Calls \ {c} : /\ call'[d].phase = call[d].phase /\ call'[d].tok = call[d].tok
                                  /\ call'[d].retry = call[d].retry,
           valid \subseteq valid',
           \A u \in Tokens : exchanges[u] \in Tokens => exchanges'[u] = exchanges[u],
           \A p \in Providers : \/ cached'[p] \in {None, cached[p]}
                                \/ cached'[p] \in valid' \/ exchanges'[cached'[p]] \in Tokens
    PROVE  \A d \in Calls : RetryOK(d)'
<1> SUFFICES ASSUME NEW d \in Calls, d # c PROVE RetryOK(d)'
  OBVIOUS
<1>1. /\ RetryOK(d) /\ home[d] \in Providers /\ call[d].tok \in Tokens \cup {None}
      /\ cached[home[d]] \in Tokens \cup {None}
      /\ call'[d].phase = call[d].phase /\ call'[d].tok = call[d].tok /\ call'[d].retry = call[d].retry
      /\ RequestOK(d)
  BY BasicParts, CallFields DEF Types
<1>2. \A x \in Tokens : Good(x) => x \in valid' \/ exchanges'[x] \in Tokens
  BY DEF Good
<1>3. call'[d].phase = "reading" => call'[d].tok # None /\ Good(call[d].tok)'
  BY <1>1, <1>2 DEF RetryOK, Good
<1>4. call'[d].retry /\ call'[d].phase = "again" /\ cached'[home[d]] # None => Good(cached[home[d]])'
  BY <1>1, <1>2 DEF RetryOK, Good
<1>5. call'[d].retry /\ call'[d].phase = "post" => Good(call[d].tok)'
  BY <1>1, <1>2 DEF RetryOK, Good, RequestOK
<1>6. /\ call'[d].retry => call'[d].phase \notin {"refused", "idle"}
      /\ call'[d].retry /\ call'[d].phase = "wait" => call'[d].tok \in valid'
  BY <1>1 DEF RetryOK
<1> QED
  BY <1>3, <1>4, <1>5, <1>6 DEF RetryOK

(* A request that neither reads nor has spent its first try has no second. *)
LEMMA NoRetry ==
    ASSUME NEW c, ~call'[c].retry, call'[c].phase # "reading" PROVE RetryOK(c)'
BY DEF RetryOK

LEMMA ReadCachedRetry ==
    ASSUME Basic, NEW c \in Calls, ReadCached(c), \A d \in Calls : RetryOK(d)
    PROVE  \A d \in Calls : RetryOK(d)'
<1>1. /\ call[c].phase \in {"idle", "again"} /\ cached[home[c]] # None
      /\ call' = [call EXCEPT ![c].phase = "post", ![c].tok = cached[home[c]]]
      /\ UNCHANGED <<home, valid, cached, exchanges>>
  BY DEF ReadCached, Reads, Posts, vendor, shared
<1>2. /\ \A d \in Calls \ {c} : call'[d] = call[d]
      /\ call'[c].phase = "post" /\ call'[c].tok = cached[home[c]] /\ call'[c].retry = call[c].retry
  BY <1>1, BasicParts, CallFields DEF Types, Request
<1>3. RetryOK(c)'
  BY <1>1, <1>2 DEF RetryOK, Good
<1> QED
  BY <1>1, <1>2, <1>3, OneRetries

LEMMA ReadStoreRetry ==
    ASSUME Basic, NEW c \in Calls, ReadStore(c), \A d \in Calls : RetryOK(d), NEW t \in valid, SettledAt(t)
    PROVE  \A d \in Calls : RetryOK(d)'
<1>1. /\ call[c].phase \in {"idle", "again"}
      /\ call' = [call EXCEPT ![c].phase = "reading", ![c].tok = store]
      /\ UNCHANGED <<home, valid, cached, exchanges>>
  BY DEF ReadStore, Reads, vendor, shared, provider
<1>2. /\ \A d \in Calls \ {c} : call'[d] = call[d]
      /\ call'[c].phase = "reading" /\ call'[c].tok = store /\ call'[c].retry = call[c].retry
  BY <1>1, BasicParts, CallFields DEF Types, Request
<1>3. store # None /\ (store \in valid \/ exchanges[store] \in Tokens)
  BY StoreNotRefused DEF SettledAt
<1>4. RetryOK(c)'
  BY <1>1, <1>2, <1>3 DEF RetryOK, Good
<1> QED
  BY <1>1, <1>2, <1>4, OneRetries

LEMMA ReadLandsRetry ==
    ASSUME Basic, NEW c \in Calls, ReadLands(c), \A d \in Calls : RetryOK(d)
    PROVE  \A d \in Calls : RetryOK(d)'
<1>0. home[c] \in Providers
  BY BasicParts, CallFields
<1>1. /\ call[c].phase = "reading"
      /\ call' = [call EXCEPT ![c].phase = "post", ![c].tok = call[c].tok]
      /\ UNCHANGED <<home, valid, exchanges>>
      /\ cached' = [cached EXCEPT ![home[c]] = call[c].tok]
  BY DEF ReadLands, Posts, vendor, shared
<1>2. /\ \A d \in Calls \ {c} : call'[d] = call[d]
      /\ call'[c].phase = "post" /\ call'[c].tok = call[c].tok /\ call'[c].retry = call[c].retry
      /\ \A p \in Providers : cached'[p] = IF p = home[c] THEN call[c].tok ELSE cached[p]
  BY <1>0, <1>1, BasicParts, CallFields DEF Types, Request
<1>3. call[c].tok \in valid \/ exchanges[call[c].tok] \in Tokens
  BY <1>1 DEF RetryOK, Good
<1>4. RetryOK(c)'
  BY <1>1, <1>2, <1>3 DEF RetryOK, Good
<1>5. \A p \in Providers : \/ cached'[p] \in {None, cached[p]}
                           \/ cached'[p] \in valid' \/ exchanges'[cached'[p]] \in Tokens
  BY <1>1, <1>2, <1>3
<1>6. valid \subseteq valid' /\ \A u \in Tokens : exchanges'[u] = exchanges[u]
  BY <1>1
<1> QED
  BY <1>1, <1>2, <1>4, <1>5, <1>6, OneRetries

(* A request that becomes idle. *)
LEMMA EndsRetry ==
    ASSUME Basic, NEW c \in Calls, \A d \in Calls : RetryOK(d), call' = [call EXCEPT ![c] = Idle],
           UNCHANGED <<home, valid, exchanges>>,
           \A p \in Providers : cached'[p] \in {None, cached[p]}
    PROVE  \A d \in Calls : RetryOK(d)'
<1>1. call'[c] = Idle /\ \A d \in Calls \ {c} : call'[d] = call[d]
  BY BasicParts DEF Types
<1>2. RetryOK(c)'
  BY <1>1, IdleRequest DEF RetryOK
<1> QED
  BY <1>1, <1>2, OneRetries

LEMMA SpendRetry ==
    ASSUME Basic, NEW c \in Calls, Spend(c), \A d \in Calls : RetryOK(d)
    PROVE  \A d \in Calls : RetryOK(d)'
<1> DEFINE k == call[c].tok
<1>1. /\ call[c].phase = "post" /\ UNCHANGED <<home, valid, cached>>
      /\ \/ /\ exchanges[k] \in Tokens /\ call' = [call EXCEPT ![c] = Answered(@, exchanges[k])]
            /\ exchanges' = exchanges
         \/ /\ exchanges[k] \in {None, InFlight} /\ call' = [call EXCEPT ![c].phase = "wait"]
            /\ exchanges' = [exchanges EXCEPT ![k] = InFlight]
  BY DEF Spend, vendor, provider
<1>2. CASE exchanges[k] \in Tokens
  <2>1. call' = [call EXCEPT ![c] = Answered(call[c], exchanges[k])] /\ exchanges' = exchanges
    BY <1>1, <1>2, TokenFacts
  <2>2. /\ \A d \in Calls \ {c} : call'[d] = call[d]
        /\ call'[c].phase = "answered"
    BY <2>1, BasicParts, CallFields DEF Types, Answered, Request
  <2>3. RetryOK(c)'
    BY <2>2 DEF RetryOK
  <2> QED
    BY <1>1, <2>1, <2>2, <2>3, OneRetries
<1>3. CASE exchanges[k] \notin Tokens
  <2>1. call' = [call EXCEPT ![c].phase = "wait"] /\ exchanges' = [exchanges EXCEPT ![k] = InFlight]
    BY <1>1, <1>3
  <2>2. /\ \A d \in Calls \ {c} : call'[d] = call[d]
        /\ call'[c].tok = k /\ call'[c].phase = "wait" /\ call'[c].retry = call[c].retry
    BY <2>1, BasicParts, CallFields DEF Types, Request
  <2>3. \A u \in Tokens : exchanges[u] \in Tokens => exchanges'[u] = exchanges[u]
    BY <1>3, <2>1, BasicParts DEF Types
  <2>4. RetryOK(c)'
    BY <1>1, <1>3, <2>2 DEF RetryOK, Good
  <2> QED
    BY <1>1, <2>2, <2>3, <2>4, OneRetries
<1> QED
  BY <1>2, <1>3

LEMMA EnqueueRetry ==
    ASSUME Basic, NEW c \in Calls, Enqueue(c), \A d \in Calls : RetryOK(d)
    PROVE  \A d \in Calls : RetryOK(d)'
<1>1. /\ call[c].phase = "answered" /\ call' = [call EXCEPT ![c].phase = "queued"]
      /\ UNCHANGED <<home, valid, cached, exchanges>>
  BY DEF Enqueue, vendor, shared
<1>2. /\ \A d \in Calls \ {c} : call'[d] = call[d]
      /\ call'[c].phase = "queued"
  BY <1>1, BasicParts, CallFields DEF Types, Request
<1>3. RetryOK(c)'
  BY <1>2 DEF RetryOK
<1> QED
  BY <1>1, <1>2, <1>3, OneRetries

(* What a save writes is good: nobody who takes it from the cache is refused. *)
LEMMA BeginWriteRetry ==
    ASSUME Basic, NEW c \in Calls, BeginWrite(c), \A d \in Calls : RetryOK(d), NEW t \in valid, SettledAt(t),
           revoked = {}
    PROVE  \A d \in Calls : RetryOK(d)'
<1> DEFINE n == call[c].got
<1>0. home[c] \in Providers /\ store \in Tokens /\ t \in Tokens /\ n \in Tokens \cup {None}
  BY BasicParts, CallFields, CurrentIsToken DEF Types, SettledAt
<1>1. /\ call[c].phase = "queued" /\ ~StaleResult(c)
      /\ call' = [call EXCEPT ![c].phase = "writing"]
      /\ cached' = [cached EXCEPT ![home[c]] = n]
      /\ UNCHANGED <<home, valid, exchanges>>
  BY DEF BeginWrite, vendor, shared
<1>2. /\ \A d \in Calls \ {c} : call'[d] = call[d]
      /\ call'[c].phase = "writing"
      /\ cached'[home[c]] = n /\ \A p \in Providers \ {home[c]} : cached'[p] = cached[p]
  BY <1>0, <1>1, BasicParts, CallFields DEF Types, Request
<1>3. RetryOK(c)'
  BY <1>2 DEF RetryOK
<1>4. n \in valid \/ exchanges[n] \in Tokens
  <2>1. CASE call[c].code
    <3>1. n = current
      BY <2>1, OneSignsIn
    <3> QED
      BY <3>1, BasicParts DEF Types
  <2>2. CASE ~call[c].code
    <3>0. n \in Tokens
      BY <1>0, <1>1, BasicParts DEF RequestOK, Carrying
    <3>a. store # None
      BY DEF SettledAt
    <3>1. n \in {store, exchanges[store]} /\ n \in Tokens
      BY <1>1, <2>2, <3>0, <3>a, WritesNext
    <3>2. CASE n = store
      BY <3>2, StoreNotRefused
    <3>3. CASE n = exchanges[store] /\ n # store
      <4>1. ExchangeOK(store)
        BY <1>0, BasicParts
      <4>2. store # t
        BY <3>1, <3>3, <4>1 DEF ExchangeOK
      <4> QED
        BY <1>0, <3>3, <4>2 DEF SettledAt, AwaitsSave, AwaitsTwo
    <3> QED
      BY <3>1, <3>2, <3>3
  <2> QED
    BY <2>1, <2>2
<1>5. \A p \in Providers : \/ cached'[p] \in {None, cached[p]}
                           \/ cached'[p] \in valid' \/ exchanges'[cached'[p]] \in Tokens
  BY <1>1, <1>2, <1>4
<1>6. valid \subseteq valid' /\ \A u \in Tokens : exchanges'[u] = exchanges[u]
  BY <1>1
<1> QED
  BY <1>1, <1>2, <1>3, <1>5, <1>6, OneRetries

LEMMA EndWriteRetry ==
    ASSUME Basic, NEW c \in Calls, EndWrite(c), ~crossed', \A d \in Calls : RetryOK(d)
    PROVE  \A d \in Calls : RetryOK(d)'
<1>1. /\ call'[c].retry = FALSE /\ call'[c].phase \in {"signedIn", "idle"}
      /\ UNCHANGED <<home, valid, cached, exchanges>>
      /\ \A d \in Calls \ {c} : /\ call'[d].phase = call[d].phase /\ call'[d].tok = call[d].tok
                                /\ call'[d].retry = call[d].retry
  BY EndWriteFacts
<1>2. RetryOK(c)'
  BY <1>1, NoRetry
<1> QED
  BY <1>1, <1>2, OneRetries

LEMMA InvalidateRetry ==
    ASSUME Basic, NEW c \in Calls, Invalidate(c), \A d \in Calls : RetryOK(d)
    PROVE  \A d \in Calls : RetryOK(d)'
<1> DEFINE r == [Idle EXCEPT !.phase = IF KeepsStored(home[c]) THEN "again" ELSE "deleting",
                             !.retry = TRUE]
<1>0. home[c] \in Providers
  BY BasicParts, CallFields
<1>1. /\ call' = [call EXCEPT ![c] = r]
      /\ cached' = [cached EXCEPT ![home[c]] = None]
      /\ UNCHANGED <<home, valid, exchanges>>
  BY DEF Invalidate, vendor, shared
<1>2. r.phase \in {"again", "deleting"}
  BY DEF Idle
<1> HIDE DEF r
<1>3. /\ \A d \in Calls \ {c} : call'[d] = call[d]
      /\ call'[c] = r
      /\ cached'[home[c]] = None /\ \A p \in Providers \ {home[c]} : cached'[p] = cached[p]
  BY <1>0, <1>1, BasicParts DEF Types
<1>4. RetryOK(c)'
  BY <1>1, <1>2, <1>3 DEF RetryOK
<1>5. \A p \in Providers : \/ cached'[p] \in {None, cached[p]}
                           \/ cached'[p] \in valid' \/ exchanges'[cached'[p]] \in Tokens
  BY <1>3
<1> QED
  BY <1>1, <1>3, <1>4, <1>5, OneRetries

LEMMA SignInRetry ==
    ASSUME Basic, NEW c \in Calls, SignIn(c), \A d \in Calls : RetryOK(d)
    PROVE  \A d \in Calls : RetryOK(d)'
<1> DEFINE r == [Answered(Idle, issued + 1) EXCEPT !.code = TRUE]
<1>1. /\ call' = [call EXCEPT ![c] = r] /\ valid \subseteq valid'
      /\ UNCHANGED <<home, cached, exchanges>>
  BY DEF SignIn, shared
<1>2. r.phase = "answered" /\ r.retry = FALSE
  BY DEF Idle, Answered
<1> HIDE DEF r
<1>3. call'[c] = r /\ \A d \in Calls \ {c} : call'[d] = call[d]
  BY <1>1, BasicParts DEF Types
<1>4. RetryOK(c)'
  BY <1>2, <1>3, NoRetry
<1> QED
  BY <1>1, <1>3, <1>4, OneRetries

(* The end of an exchange: those who waited for it on their second try were
   not refused. *)
LEMMA SharersRetry ==
    ASSUME Basic, NEW u \in Tokens, \A d \in Calls : RetryOK(d), UNCHANGED <<home, cached>>,
           exchanges[u] = InFlight,
           \A v \in Tokens \ {u} : exchanges'[v] = exchanges[v],
           u \notin valid' => exchanges'[u] \in Tokens \/ u \notin valid,
           \A v \in valid \ {u} : v \in valid',
           \A c \in Calls : ~Sharing(c, u) => call'[c] = call[c],
           \A c \in Calls : Sharing(c, u) =>
               \/ call'[c] = Idle
               \/ call'[c].phase = "answered"
               \/ u \notin valid /\ call'[c].phase = "refused" /\ call'[c].retry = call[c].retry
    PROVE  \A d \in Calls : RetryOK(d)'
<1> SUFFICES ASSUME NEW d \in Calls PROVE RetryOK(d)'
  OBVIOUS
<1>1. InFlight \notin Tokens
  BY TokenFacts
<1>2. \A x \in Tokens : x \in valid \/ exchanges[x] \in Tokens => x \in valid' \/ exchanges'[x] \in Tokens
  BY <1>1
<1>3. CASE Sharing(d, u)
  <2>1. call[d].phase = "wait" /\ call[d].tok = u /\ RetryOK(d)
    BY <1>3 DEF Sharing
  <2>2. u \notin valid => ~call[d].retry
    BY <2>1 DEF RetryOK
  <2>3. CASE call'[d] = Idle
    BY <2>3, IdleRequest DEF RetryOK
  <2>4. CASE call'[d].phase = "answered"
    BY <2>4 DEF RetryOK
  <2>5. CASE u \notin valid /\ call'[d].phase = "refused" /\ call'[d].retry = call[d].retry
    BY <2>2, <2>5, NoRetry
  <2> QED
    BY <1>3, <2>3, <2>4, <2>5
<1>4. CASE ~Sharing(d, u)
  <2>1. /\ RetryOK(d) /\ home[d] \in Providers /\ call[d].tok \in Tokens \cup {None}
        /\ cached[home[d]] \in Tokens \cup {None} /\ call'[d] = call[d] /\ RequestOK(d)
    BY <1>4, BasicParts, CallFields DEF Types
  <2>2. call'[d].phase = "reading" => call'[d].tok # None /\ Good(call[d].tok)'
    BY <1>2, <2>1 DEF RetryOK, Good
  <2>3. call'[d].retry /\ call'[d].phase = "again" /\ cached'[home[d]] # None => Good(cached[home[d]])'
    BY <1>2, <2>1 DEF RetryOK, Good
  <2>4. call'[d].retry /\ call'[d].phase = "post" => Good(call[d].tok)'
    BY <1>2, <2>1 DEF RetryOK, Good, RequestOK
  <2>5. call'[d].retry /\ call'[d].phase = "wait" => call'[d].tok \in valid'
    <3>1. call[d].phase = "wait" => call[d].tok # u
      BY <1>4 DEF Sharing
    <3> QED
      BY <2>1, <3>1 DEF RetryOK
  <2> QED
    BY <2>1, <2>2, <2>3, <2>4, <2>5 DEF RetryOK
<1> QED
  BY <1>3, <1>4

-----------------------------------------------------------------------------
(* The invariant, and that every step keeps it *)

CodeUnderWay == \E c \in Calls : call[c].code

(* Until a sign-in is stored the store may be behind by anything: the token
   that counts is with the sign-in. *)
Kept == ~crossed /\ current \notin revoked => CodeUnderWay \/ SettledAt(current)

Calm == ~crossed /\ revoked = {} =>
            /\ \E t \in valid : SettledAt(t)
            /\ \A c \in Calls : RetryOK(c)

IInv == Basic /\ Kept /\ Calm

LEMMA InitIInv == Init => IInv
<1> SUFFICES ASSUME Init PROVE IInv
  OBVIOUS
<1>1. Basic
  BY InitBasic
<1>2. store = 1 /\ current = 1 /\ valid = {1} /\ store # None
  BY DEF Init, None
<1>3. \A c \in Calls : WriteOK(c) /\ RetryOK(c)
  BY DEF Init, Idle, WriteOK, RetryOK
<1>4. SettledAt(1) /\ SettledAt(current)
  BY <1>2, <1>3 DEF SettledAt
<1> QED
  BY <1>1, <1>2, <1>3, <1>4 DEF IInv, Kept, Calm

LEMMA BasicStep == Basic /\ [Next]_vars => Basic'
<1> SUFFICES ASSUME Basic, [Next]_vars PROVE Basic'
  OBVIOUS
<1>1. ASSUME NEW c \in Calls, ReadCached(c) PROVE Basic'
  BY <1>1, ReadCachedBasic
<1>2. ASSUME NEW c \in Calls, ReadStore(c) PROVE Basic'
  BY <1>2, ReadStoreBasic
<1>3. ASSUME NEW c \in Calls, SignIn(c) PROVE Basic'
  BY <1>3, SignInBasic
<1>4. ASSUME NEW c \in Calls, ReadLands(c) PROVE Basic'
  BY <1>4, ReadLandsBasic
<1>5. ASSUME NEW c \in Calls, NothingStored(c) PROVE Basic'
  BY <1>5, NothingStoredBasic
<1>6. ASSUME NEW c \in Calls, Accepted(c) PROVE Basic'
  BY <1>6, AcceptedBasic
<1>7. ASSUME NEW c \in Calls, Spend(c) PROVE Basic'
  BY <1>7, SpendBasic
<1>8. ASSUME NEW c \in Calls, Enqueue(c) PROVE Basic'
  BY <1>8, EnqueueBasic
<1>9. ASSUME NEW c \in Calls, DropStale(c) PROVE Basic'
  BY <1>9, DropStaleBasic
<1>10. ASSUME NEW c \in Calls, BeginWrite(c) PROVE Basic'
  BY <1>10, BeginWriteBasic
<1>11. ASSUME NEW c \in Calls, EndWrite(c) PROVE Basic'
  BY <1>11, EndWriteBasic
<1>12. ASSUME NEW c \in Calls, Invalidate(c) PROVE Basic'
  BY <1>12, InvalidateBasic
<1>13. ASSUME NEW c \in Calls, DeleteTokens(c) PROVE Basic'
  BY <1>13, DeleteTokensBasic
<1>14. ASSUME NEW c \in Calls, RefusedAgain(c) PROVE Basic'
  BY <1>14, RefusedAgainBasic
<1>15. ASSUME NEW c \in Calls, SignedIn(c) PROVE Basic'
  BY <1>15, SignedInBasic
<1>16. ASSUME NEW t \in Tokens, NEW n \in Tokens, Exchanged(t, n) PROVE Basic'
  BY <1>16, ExchangedBasic
<1>17. ASSUME NEW t \in Tokens, Refused(t) PROVE Basic'
  BY <1>17, RefusedBasic
<1>18. ASSUME NEW t \in Tokens, Unavailable(t) PROVE Basic'
  BY <1>18, UnavailableBasic
<1>19. ASSUME NEW t \in Tokens, Revoked(t) PROVE Basic'
  BY <1>19, RevokedBasic
<1>20. ASSUME NEW t \in Tokens, ReplayEnds(t) PROVE Basic'
  BY <1>20, ReplayEndsBasic
<1>21. ASSUME NEW t \in Tokens, ForgetRefused(t) PROVE Basic'
  BY <1>21, ForgetRefusedBasic
<1>22. CASE UNCHANGED vars
  <2>1. /\ UNCHANGED <<valid, issued, current, revoked, signIns, store, crossed, cached, served>>
        /\ UNCHANGED <<exchanging, saving, home, call, exchanges, issuedBy, refused>>
    BY <1>22 DEF vars
  <2>2. Types' /\ Queues' /\ Seen'
    <3>1. Queues'
      BY <2>1, BasicParts, QueuesStay
    <3> QED
      BY <2>1, <3>1, BasicParts DEF Types, Seen
  <2>3. \A t \in Tokens : ExchangeOK(t)'
    BY <2>1, ExchangesStay DEF shared
  <2>4. ASSUME NEW d \in Calls PROVE RequestOK(d)' /\ Alone(d)' /\ (call'[d].code => SigningIn(d)')
    <3>1. RequestOK(d) /\ Alone(d) /\ (call[d].code => SigningIn(d))
      BY DEF Basic
    <3> QED
      BY <2>1, <3>1 DEF RequestOK, Alone, SigningIn
  <2> QED
    BY <2>2, <2>3, <2>4 DEF Basic
<1> QED
  BY <1>1, <1>2, <1>3, <1>4, <1>5, <1>6, <1>7, <1>8, <1>9, <1>10, <1>11, <1>12, <1>13, <1>14,
     <1>15, <1>16, <1>17, <1>18, <1>19, <1>20, <1>21, <1>22 DEF Next

(* Where the store was settled, it is settled after the step, at the same
   token or at the one that replaces it. *)
Follows(t) ==
    t \in revoked' \/ \E n \in Tokens : /\ n \in valid' /\ SettledAt(n)'
                                        /\ t = current => n = current' \/ CodeUnderWay'

LEMMA SettledStep ==
    ASSUME Basic, Basic', Next, ~crossed', NEW t \in valid, SettledAt(t), current \in valid
    PROVE  Follows(t)
<1>0. t \in Tokens
  BY BasicParts, CurrentIsToken
<1>a. ASSUME SettledAt(t)', UNCHANGED <<valid, current>> PROVE Follows(t)
  BY <1>0, <1>a DEF Follows
<1>1. ASSUME NEW c \in Calls, ReadCached(c) PROVE Follows(t)
  BY <1>1, <1>a, ReadCachedSettled DEF ReadCached, vendor
<1>2. ASSUME NEW c \in Calls, ReadStore(c) PROVE Follows(t)
  BY <1>2, <1>a, ReadStoreSettled DEF ReadStore, vendor
<1>3. ASSUME NEW c \in Calls, SignIn(c) PROVE Follows(t)
  <2>1. t \in valid' /\ call' = [call EXCEPT ![c] = [Answered(Idle, issued + 1) EXCEPT !.code = TRUE]]
    BY <1>3 DEF SignIn
  <2>2. call'[c].code
    BY <2>1, BasicParts DEF Types, Answered, Idle
  <2>3. CodeUnderWay'
    BY <2>2 DEF CodeUnderWay
  <2>4. SettledAt(t)'
    BY <1>3, SignInSettled
  <2> QED
    BY <1>0, <2>1, <2>3, <2>4 DEF Follows
<1>4. ASSUME NEW c \in Calls, ReadLands(c) PROVE Follows(t)
  BY <1>4, <1>a, ReadLandsSettled DEF ReadLands, vendor
<1>5. ASSUME NEW c \in Calls, NothingStored(c) PROVE Follows(t)
  BY <1>5, <1>a, NothingStoredSettled DEF NothingStored, Reauthorize, vendor
<1>6. ASSUME NEW c \in Calls, Accepted(c) PROVE Follows(t)
  BY <1>6, <1>a, AcceptedSettled DEF Accepted, vendor
<1>7. ASSUME NEW c \in Calls, Spend(c) PROVE Follows(t)
  BY <1>7, <1>a, SpendSettled DEF Spend, vendor
<1>8. ASSUME NEW c \in Calls, Enqueue(c) PROVE Follows(t)
  BY <1>8, <1>a, EnqueueSettled DEF Enqueue, vendor
<1>9. ASSUME NEW c \in Calls, DropStale(c) PROVE Follows(t)
  BY <1>9, <1>a, DropStaleSettled DEF DropStale, vendor
<1>10. ASSUME NEW c \in Calls, BeginWrite(c) PROVE Follows(t)
  BY <1>10, <1>a, BeginWriteSettled DEF BeginWrite, vendor
<1>11. ASSUME NEW c \in Calls, EndWrite(c) PROVE Follows(t)
  <2>1. UNCHANGED <<valid, current>>
    BY <1>11, EndWriteFacts
  <2>2. CASE call[c].code
    <3>1. SettledAt(current)'
      BY <1>11, <2>2, EndWriteSignsIn
    <3>2. PICK n \in Tokens : n = current'
      BY <2>1, BasicParts, CurrentIsToken
    <3>3. SettledAt(n)'
      BY <3>1, <3>2 DEF SettledAt, AwaitsSave, AwaitsTwo, Carried, KnownOn, WrittenOn
    <3> QED
      BY <2>1, <3>2, <3>3 DEF Follows
  <2>3. CASE ~call[c].code
    BY <1>11, <1>a, <2>1, <2>3, EndWriteSettled
  <2> QED
    BY <2>2, <2>3
<1>12. ASSUME NEW c \in Calls, Invalidate(c) PROVE Follows(t)
  BY <1>12, <1>a, InvalidateSettled DEF Invalidate, vendor
<1>13. ASSUME NEW c \in Calls, DeleteTokens(c) PROVE Follows(t)
  <2>1. call[c].over
    BY <1>13 DEF DeleteTokens, SettledAt, WriteOK
  <2>2. crossed'
    BY <1>13, <2>1 DEF DeleteTokens, Stores
  <2> QED
    BY <2>2
<1>14. ASSUME NEW c \in Calls, RefusedAgain(c) PROVE Follows(t)
  BY <1>14, <1>a, RefusedAgainSettled DEF RefusedAgain, vendor
<1>15. ASSUME NEW c \in Calls, SignedIn(c) PROVE Follows(t)
  BY <1>15, <1>a, SignedInSettled DEF SignedIn, vendor
<1>16. ASSUME NEW u \in Tokens, NEW n \in Tokens, Exchanged(u, n) PROVE Follows(t)
  <2>1. valid' = (valid \ {u}) \cup {n} /\ current' = (IF current = u THEN n ELSE current)
    BY <1>16, ExchangedFacts
  <2>2. CASE u = t
    <3>1. Exchanged(t, n)
      BY <1>16, <2>2
    <3>2. SettledAt(n)'
      BY <3>1, ExchangedThis
    <3> QED
      BY <2>1, <2>2, <3>2 DEF Follows
  <2>3. CASE u # t
    <3>1. SettledAt(t)'
      BY <1>16, <2>3, ExchangedOther
    <3> QED
      BY <1>0, <2>1, <2>3, <3>1 DEF Follows
  <2> QED
    BY <2>2, <2>3
<1>17. ASSUME NEW u \in Tokens, Refused(u) PROVE Follows(t)
  BY <1>17, <1>a, RefusedSettled DEF Refused, vendor
<1>18. ASSUME NEW u \in Tokens, Unavailable(u) PROVE Follows(t)
  BY <1>18, <1>a, UnavailableSettled DEF Unavailable, Reauthorize, vendor
<1>19. ASSUME NEW u \in Tokens, Revoked(u) PROVE Follows(t)
  <2>1. /\ valid' = valid \ {u} /\ revoked' = revoked \cup {u}
        /\ UNCHANGED <<current, store, call, home, exchanges, issuedBy, cached>>
    BY <1>19 DEF Revoked, records, provider, shared
  <2>2. SettledAt(t)'
    BY <2>1, UntouchedSettled
  <2> QED
    BY <1>0, <2>1, <2>2 DEF Follows
<1>20. ASSUME NEW u \in Tokens, ReplayEnds(u) PROVE Follows(t)
  BY <1>20, <1>a, ReplayEndsSettled DEF ReplayEnds, vendor
<1>21. ASSUME NEW u \in Tokens, ForgetRefused(u) PROVE Follows(t)
  <2>1. UNCHANGED <<valid, current, store, call, home, exchanges, issuedBy, cached>>
    BY <1>21 DEF ForgetRefused, records, provider, vendor
  <2>2. SettledAt(t)'
    BY <2>1, UntouchedSettled
  <2> QED
    BY <1>a, <2>1, <2>2
<1> QED
  BY <1>1, <1>2, <1>3, <1>4, <1>5, <1>6, <1>7, <1>8, <1>9, <1>10, <1>11, <1>12, <1>13, <1>14,
     <1>15, <1>16, <1>17, <1>18, <1>19, <1>20, <1>21 DEF Next

(* What was crossed or taken back stays so. *)
LEMMA Marks == Next => (~crossed' => ~crossed) /\ revoked \subseteq revoked'
<1> SUFFICES ASSUME Next PROVE (~crossed' => ~crossed) /\ revoked \subseteq revoked'
  OBVIOUS
<1> USE DEF vendor, records, provider, shared
<1>1. ASSUME NEW c \in Calls,
             \/ ReadCached(c) \/ ReadStore(c) \/ SignIn(c) \/ ReadLands(c) \/ NothingStored(c) \/ Accepted(c)
      PROVE  UNCHANGED <<crossed, revoked>>
  BY <1>1 DEF ReadCached, ReadStore, SignIn, ReadLands, NothingStored, Reauthorize, Accepted
<1>2. ASSUME NEW c \in Calls,
             \/ Spend(c) \/ Enqueue(c) \/ DropStale(c) \/ BeginWrite(c) \/ Invalidate(c) \/ RefusedAgain(c)
             \/ SignedIn(c)
      PROVE  UNCHANGED <<crossed, revoked>>
  BY <1>2 DEF Spend, Enqueue, DropStale, BeginWrite, Invalidate, RefusedAgain, SignedIn
<1>3. ASSUME NEW c \in Calls, EndWrite(c) \/ DeleteTokens(c)
      PROVE  (crossed => crossed') /\ UNCHANGED revoked
  BY <1>3 DEF EndWrite, DeleteTokens, Stores
<1>4. ASSUME NEW t \in Tokens, Refused(t) \/ Unavailable(t) \/ ReplayEnds(t) \/ ForgetRefused(t)
      PROVE  UNCHANGED <<crossed, revoked>>
  BY <1>4 DEF Refused, Unavailable, Reauthorize, ReplayEnds, ForgetRefused
<1>5. ASSUME NEW t \in Tokens, NEW n \in Tokens, Exchanged(t, n) PROVE UNCHANGED <<crossed, revoked>>
  BY <1>5 DEF Exchanged
<1>6. ASSUME NEW t \in Tokens, Revoked(t) PROVE UNCHANGED crossed /\ revoked \subseteq revoked'
  BY <1>6 DEF Revoked
<1> QED
  BY <1>1, <1>2, <1>3, <1>4, <1>5, <1>6 DEF Next

(* A sign-in is under way until its token is stored. *)
LEMMA CodeStep ==
    ASSUME Basic, Next, ~crossed', CodeUnderWay
    PROVE  CodeUnderWay' \/ SettledAt(current)'
<1>0. PICK s \in Calls : call[s].code
  BY DEF CodeUnderWay
<1>1. call[s].phase \in Carrying /\ exchanging[home[s]] /\ call \in [Calls -> Request]
  BY <1>0, OneSignsIn, BasicParts DEF Types
<1> SUFFICES ASSUME ~call'[s].code PROVE SettledAt(current)'
  BY DEF CodeUnderWay
<1>2. ASSUME NEW c \in Calls, call[c].phase \notin Carrying, \A d \in Calls \ {c} : call'[d] = call[d]
      PROVE  FALSE
  BY <1>0, <1>1, <1>2
<1>3. ASSUME NEW c \in Calls,
             \/ ReadCached(c) \/ ReadStore(c) \/ SignIn(c) \/ ReadLands(c) \/ NothingStored(c) \/ Accepted(c)
             \/ Spend(c) \/ Invalidate(c) \/ RefusedAgain(c) \/ SignedIn(c)
      PROVE  FALSE
  <2>1. call[c].phase \notin Carrying \cup {"deleting"}
    BY <1>3 DEF ReadCached, ReadStore, SignIn, ReadLands, NothingStored, Reauthorize, Accepted, Spend, Invalidate,
                RefusedAgain, SignedIn, Reads, Carrying
  <2>2. \A d \in Calls \ {c} : call'[d] = call[d]
    BY <1>1, <1>3 DEF ReadCached, ReadStore, SignIn, ReadLands, NothingStored, Reauthorize, Accepted, Spend, Invalidate,
                      RefusedAgain, SignedIn, Posts
  <2> QED
    BY <1>2, <2>1, <2>2
<1>4. ASSUME NEW c \in Calls, Enqueue(c) \/ BeginWrite(c) PROVE FALSE
  <2>1. \E ph \in Phases : call' = [call EXCEPT ![c].phase = ph]
    BY <1>4 DEF Enqueue, BeginWrite, Phases
  <2>2. call'[s].code = call[s].code
    BY <1>1, <2>1 DEF Request
  <2> QED
    BY <1>0, <2>2
<1>5. ASSUME NEW c \in Calls, DropStale(c) PROVE FALSE
  <2>1. ~exchanging[home[c]] /\ call' = [call EXCEPT ![c] = Idle]
    BY <1>5 DEF DropStale, StaleResult, SpentFor
  <2>2. c # s
    BY <1>1, <2>1
  <2> QED
    BY <1>0, <1>1, <2>1, <2>2
<1>6. ASSUME NEW c \in Calls, DeleteTokens(c) PROVE FALSE
  <2> DEFINE r == [call[c] EXCEPT !.phase = "again", !.over = FALSE]
  <2>1. call[c].phase = "deleting" /\ Stores(c, None, r) /\ r \in Request /\ Types
    BY <1>6, BasicParts, CallFields DEF DeleteTokens, Request, Phases
  <2> HIDE DEF r
  <2>2. s # c
    BY <1>1, <2>1 DEF Carrying
  <2>3. call'[s].code = call[s].code
    BY <2>1, <2>2, StoresFacts
  <2> QED
    BY <1>0, <2>3
<1>7. ASSUME NEW c \in Calls, EndWrite(c) PROVE SettledAt(current)'
  <2>1. CASE c = s
    BY <1>0, <1>7, <2>1, EndWriteSignsIn
  <2>2. CASE c # s
    <3>1. call'[s].code = call[s].code
      BY <1>7, <2>2, EndWriteFacts
    <3> QED
      BY <1>0, <3>1
  <2> QED
    BY <2>1, <2>2
<1>8. ASSUME NEW t \in Tokens, \/ Refused(t) \/ Unavailable(t) \/ \E n \in Tokens : Exchanged(t, n)
      PROVE  FALSE
  <2>1. ~Sharing(s, t)
    BY <1>1 DEF Sharing, Carrying
  <2>2. call'[s] = call[s]
    BY <1>8, <2>1 DEF Refused, Unavailable, Reauthorize, Exchanged
  <2> QED
    BY <1>0, <2>2
<1>9. ASSUME NEW t \in Tokens, ReplayEnds(t) \/ ForgetRefused(t) \/ Revoked(t) PROVE FALSE
  BY <1>0, <1>9 DEF ReplayEnds, ForgetRefused, Revoked
<1> QED
  BY <1>3, <1>4, <1>5, <1>6, <1>7, <1>8, <1>9 DEF Next

(* While nothing was taken back the second tries stay good. *)
LEMMA RetryStep ==
    ASSUME Basic, Next, ~crossed', \A d \in Calls : RetryOK(d), NEW t \in valid, SettledAt(t),
           revoked' = {}, revoked = {}
    PROVE  \A d \in Calls : RetryOK(d)'
<1> DEFINE Goal == \A d \in Calls : RetryOK(d)'
<1>1. ASSUME NEW c \in Calls, ReadCached(c) PROVE Goal
  BY <1>1, ReadCachedRetry
<1>2. ASSUME NEW c \in Calls, ReadStore(c) PROVE Goal
  BY <1>2, ReadStoreRetry
<1>3. ASSUME NEW c \in Calls, SignIn(c) PROVE Goal
  BY <1>3, SignInRetry
<1>4. ASSUME NEW c \in Calls, ReadLands(c) PROVE Goal
  BY <1>4, ReadLandsRetry
<1>5. ASSUME NEW c \in Calls, NothingStored(c) \/ Accepted(c) \/ RefusedAgain(c) \/ SignedIn(c) PROVE Goal
  <2>1. call' = [call EXCEPT ![c] = Idle] /\ UNCHANGED <<home, valid, exchanges, cached>>
    BY <1>5 DEF NothingStored, Reauthorize, Accepted, RefusedAgain, SignedIn, vendor, provider, shared
  <2> QED
    BY <2>1, EndsRetry
<1>6. ASSUME NEW c \in Calls, Spend(c) PROVE Goal
  BY <1>6, SpendRetry
<1>7. ASSUME NEW c \in Calls, Enqueue(c) PROVE Goal
  BY <1>7, EnqueueRetry
<1>8. ASSUME NEW c \in Calls, DropStale(c) PROVE Goal
  <2>1. /\ call' = [call EXCEPT ![c] = Idle] /\ UNCHANGED <<home, valid, exchanges>>
        /\ cached' = [cached EXCEPT ![home[c]] = None]
    BY <1>8 DEF DropStale, vendor, shared
  <2>2. \A p \in Providers : cached'[p] \in {None, cached[p]}
    BY <2>1, BasicParts, CallFields DEF Types
  <2> QED
    BY <2>1, <2>2, EndsRetry
<1>9. ASSUME NEW c \in Calls, BeginWrite(c) PROVE Goal
  BY <1>9, BeginWriteRetry
<1>10. ASSUME NEW c \in Calls, EndWrite(c) PROVE Goal
  BY <1>10, EndWriteRetry
<1>11. ASSUME NEW c \in Calls, Invalidate(c) PROVE Goal
  BY <1>11, InvalidateRetry
<1>12. ASSUME NEW c \in Calls, DeleteTokens(c) PROVE Goal
  <2>1. call[c].over
    BY <1>12 DEF DeleteTokens, SettledAt, WriteOK
  <2>2. crossed'
    BY <1>12, <2>1 DEF DeleteTokens, Stores
  <2> QED
    BY <2>2
<1>13. ASSUME NEW u \in Tokens, NEW n \in Tokens, Exchanged(u, n) PROVE Goal
  <2>1. /\ exchanges[u] = InFlight /\ UNCHANGED <<home, cached>>
        /\ valid' = (valid \ {u}) \cup {n}
        /\ \A v \in Tokens : exchanges'[v] = (IF v = u THEN n ELSE exchanges[v])
    BY <1>13, ExchangedFacts
  <2>2. /\ \A c \in Calls : ~Sharing(c, u) => call'[c] = call[c]
        /\ \A c \in Calls : Sharing(c, u) => call'[c] = Answered(call[c], n)
    BY <1>13 DEF Exchanged
  <2>3. \A c \in Calls : Sharing(c, u) => call'[c].phase = "answered"
    BY <2>2, BasicParts, CallFields DEF Answered, Request
  <2> QED
    BY <2>1, <2>2, <2>3, SharersRetry
<1>14. ASSUME NEW u \in Tokens, Refused(u) PROVE Goal
  <2>1. /\ exchanges[u] = InFlight /\ u \notin valid /\ UNCHANGED <<home, cached, valid>>
        /\ exchanges' = [exchanges EXCEPT ![u] = None]
        /\ call' = [c \in Calls |-> IF Sharing(c, u) THEN [call[c] EXCEPT !.phase = "refused"] ELSE call[c]]
    BY <1>14 DEF Refused, vendor, provider
  <2>2. \A v \in Tokens \ {u} : exchanges'[v] = exchanges[v]
    BY <2>1, BasicParts DEF Types
  <2>3. ASSUME NEW c \in Calls, Sharing(c, u)
        PROVE  call'[c].phase = "refused" /\ call'[c].retry = call[c].retry
    <3>1. call'[c] = [call[c] EXCEPT !.phase = "refused"]
      BY <2>1, <2>3
    <3> QED
      BY <3>1, BasicParts, CallFields DEF Request
  <2>4. \A c \in Calls : ~Sharing(c, u) => call'[c] = call[c]
    BY <2>1
  <2> QED
    BY <2>1, <2>2, <2>3, <2>4, SharersRetry
<1>15. ASSUME NEW u \in Tokens, Unavailable(u) PROVE Goal
  <2>1. /\ exchanges[u] = InFlight /\ UNCHANGED <<home, cached, valid>>
        /\ exchanges' = [exchanges EXCEPT ![u] = None]
        /\ call' = [c \in Calls |-> IF Sharing(c, u) THEN Idle ELSE call[c]]
    BY <1>15 DEF Unavailable, Reauthorize, vendor, provider
  <2>2. \A v \in Tokens \ {u} : exchanges'[v] = exchanges[v]
    BY <2>1, BasicParts DEF Types
  <2>3. /\ \A c \in Calls : Sharing(c, u) => call'[c] = Idle
        /\ \A c \in Calls : ~Sharing(c, u) => call'[c] = call[c]
    BY <2>1
  <2> QED
    BY <2>1, <2>2, <2>3, SharersRetry
<1>16. ASSUME NEW u \in Tokens, ForgetRefused(u) PROVE Goal
  BY <1>16 DEF ForgetRefused, vendor, provider, RetryOK, Good
<1>18. ASSUME NEW u \in Tokens, Revoked(u) PROVE FALSE
  BY <1>18 DEF Revoked
<1>17. ASSUME NEW u \in Tokens, ReplayEnds(u) PROVE Goal
  <2>1. /\ UNCHANGED <<home, cached, call, valid>>
        /\ \A c \in Calls : call[c].phase \in {"idle", "wait"}
    BY <1>17, ReplayEndsFacts
  <2> QED
    BY <2>1 DEF RetryOK
<1> QED
  BY <1>1, <1>2, <1>3, <1>4, <1>5, <1>6, <1>7, <1>8, <1>9, <1>10, <1>11, <1>12, <1>13, <1>14,
     <1>15, <1>16, <1>17, <1>18 DEF Next

(* The token that counts is replaced by a rotation or by a sign-in, never by
   the vendor taking one back. *)
LEMMA CurrentMoves ==
    ASSUME Basic, Next
    PROVE  /\ current \in valid \/ current' = current \/ CodeUnderWay'
           /\ revoked' = revoked \/ current' = current
<1> USE DEF vendor
<1>1. ASSUME NEW c \in Calls,
             \/ ReadCached(c) \/ ReadStore(c) \/ ReadLands(c) \/ NothingStored(c) \/ Accepted(c)
             \/ Spend(c) \/ Enqueue(c) \/ DropStale(c) \/ BeginWrite(c) \/ EndWrite(c)
             \/ Invalidate(c) \/ DeleteTokens(c) \/ RefusedAgain(c) \/ SignedIn(c)
      PROVE  UNCHANGED <<current, revoked>>
  BY <1>1 DEF ReadCached, ReadStore, ReadLands, NothingStored, Reauthorize, Accepted, Spend, Enqueue, DropStale,
              BeginWrite, EndWrite, Invalidate, DeleteTokens, RefusedAgain, SignedIn
<1>2. ASSUME NEW t \in Tokens, Refused(t) \/ Unavailable(t) \/ ReplayEnds(t) \/ ForgetRefused(t)
      PROVE  UNCHANGED <<current, revoked>>
  BY <1>2 DEF Refused, Unavailable, Reauthorize, ReplayEnds, ForgetRefused
<1>3. ASSUME NEW t \in Tokens, NEW n \in Tokens, Exchanged(t, n)
      PROVE  UNCHANGED revoked /\ (current \in valid \/ current' = current)
  BY <1>3 DEF Exchanged
<1>4. ASSUME NEW t \in Tokens, Revoked(t) PROVE UNCHANGED current
  BY <1>4 DEF Revoked
<1>5. ASSUME NEW c \in Calls, SignIn(c) PROVE UNCHANGED revoked /\ CodeUnderWay'
  <2>1. UNCHANGED revoked /\ call' = [call EXCEPT ![c] = [Answered(Idle, issued + 1) EXCEPT !.code = TRUE]]
    BY <1>5 DEF SignIn
  <2>2. call'[c].code
    BY <2>1, BasicParts DEF Types, Answered, Idle
  <2> QED
    BY <2>1, <2>2 DEF CodeUnderWay
<1> QED
  BY <1>1, <1>2, <1>3, <1>4, <1>5 DEF Next

(* Where the store may have to be and where it is are read off one state. *)
LEMMA SettledMoved ==
    ASSUME NEW n, n = current', SettledAt(n)'
    PROVE  SettledAt(current)'
BY DEF SettledAt, AwaitsSave, AwaitsTwo, Carried, KnownOn, WrittenOn

LEMMA KeptStep ==
    ASSUME Basic, Basic', Next, Kept
    PROVE  Kept'
<1> SUFFICES ASSUME ~crossed', current' \notin revoked', ~CodeUnderWay' PROVE SettledAt(current)'
  BY DEF Kept
<1>1. ~crossed /\ revoked \subseteq revoked'
  BY Marks
<1>2. current \in valid \cup revoked
  BY BasicParts DEF Types
<1>3. current \in valid /\ current \notin revoked
  <2>1. current \in Tokens
    BY BasicParts, CurrentIsToken
  <2>2. current \in valid
    BY <1>1, <1>2, CurrentMoves
  <2> QED
    BY <2>1, <2>2, BasicParts DEF ExchangeOK
<1>4. CASE CodeUnderWay
  BY <1>4, CodeStep
<1>5. CASE ~CodeUnderWay
  <2>1. SettledAt(current)
    BY <1>1, <1>3, <1>5 DEF Kept
  <2>2. Follows(current)
    BY <1>3, <2>1, SettledStep
  <2>3. current \notin revoked'
    BY <1>3, CurrentMoves
  <2>4. PICK n \in Tokens : SettledAt(n)' /\ n = current'
    BY <2>2, <2>3 DEF Follows
  <2> QED
    BY <2>4, SettledMoved
<1> QED
  BY <1>4, <1>5

LEMMA CalmStep ==
    ASSUME Basic, Basic', Next, Calm
    PROVE  Calm'
<1> SUFFICES ASSUME ~crossed', revoked' = {}
             PROVE  (\E t \in valid : SettledAt(t))' /\ \A c \in Calls : RetryOK(c)'
  BY DEF Calm
<1>1. ~crossed /\ revoked = {}
  BY Marks
<1>2. PICK t \in valid : SettledAt(t)
  BY <1>1 DEF Calm
<1>3. \A c \in Calls : RetryOK(c)
  BY <1>1 DEF Calm
<1>4. current \in valid
  BY <1>1, BasicParts DEF Types
<1>5. Follows(t)
  BY <1>1, <1>2, <1>4, SettledStep
<1>6. \E n \in Tokens : n \in valid' /\ SettledAt(n)'
  BY <1>5 DEF Follows
<1>7. \A c \in Calls : RetryOK(c)'
  BY <1>1, <1>2, <1>3, RetryStep
<1> QED
  BY <1>6, <1>7

LEMMA IInvStep == IInv /\ [Next]_vars => IInv'
<1> SUFFICES ASSUME IInv, [Next]_vars PROVE IInv'
  OBVIOUS
<1>1. Basic /\ Basic'
  BY BasicStep DEF IInv
<1>2. CASE Next
  BY <1>1, <1>2, KeptStep, CalmStep DEF IInv
<1>3. CASE UNCHANGED vars
  <2>1. /\ UNCHANGED <<valid, current, revoked, store, crossed, cached, home, call, exchanges, issuedBy>>
    BY <1>3 DEF vars
  <2>2. \A t : SettledAt(t) => SettledAt(t)'
    BY <2>1, UntouchedSettled
  <2>3. \A c \in Calls : RetryOK(c) => RetryOK(c)'
    BY <2>1 DEF RetryOK, Good
  <2>4. Kept'
    <3>1. CASE CodeUnderWay
      BY <2>1, <3>1 DEF Kept, CodeUnderWay
    <3>2. CASE SettledAt(current)
      <4>1. SettledAt(current)'
        BY <2>1, <3>2 DEF SettledAt, WriteOK, AwaitsSave, AwaitsTwo, Carried, KnownOn, WrittenOn
      <4> QED
        BY <4>1 DEF Kept
    <3>3. CASE crossed \/ current \in revoked
      BY <2>1, <3>3 DEF Kept
    <3> QED
      BY <3>1, <3>2, <3>3 DEF IInv, Kept
  <2>5. Calm'
    BY <2>1, <2>2, <2>3 DEF IInv, Calm
  <2> QED
    BY <1>1, <2>4, <2>5 DEF IInv
<1> QED
  BY <1>2, <1>3

-----------------------------------------------------------------------------
(* The theorems *)

THEOREM CredentialInvariant == Spec => []IInv
<1>1. Init => IInv
  BY InitIInv
<1>2. IInv /\ [Next]_vars => IInv'
  BY IInvStep
<1> QED
  BY <1>1, <1>2, PTL DEF Spec

(* Types, for every number of providers, requests, tokens and sign-ins; and
   savingTokens is one queue per provider that holds each request on it that is
   to save, once: a save is never lost, and none runs twice. *)
THEOREM CredentialTypes == Spec => []TypeOK
<1>1. Basic => TypeOK
  <2> SUFFICES ASSUME Basic PROVE TypeOK
    OBVIOUS
  <2>1. Types /\ Queues
    BY DEF Basic
  <2>2. ASSUME NEW p \in Providers
        PROVE  /\ {saving[p][i] : i \in DOMAIN saving[p]}
                      = {c \in Calls : home[c] = p /\ call[c].phase \in {"queued", "writing"}}
               /\ \A i, j \in DOMAIN saving[p] : saving[p][i] = saving[p][j] => i = j
    <3>1. Holds(saving[p], Savers(p))
      BY <2>1, <2>2 DEF Queues
    <3> QED
      BY <3>1 DEF Holds, Savers
  <2> QED
    BY <2>1, <2>2 DEF Types, TypeOK
<1> QED
  BY <1>1, CredentialInvariant, PTL DEF IInv

(* A connection does not lose its credential to its own refreshing
   (saveTokens, droppedStaleResult, invalidateCredentials, keptStoredTokens):
   the token the vendor now accepts is stored or carried by a request that will
   save it, unless the vendor took it back, or a provider acted on a look at
   the store that a write of another provider outdated. *)
THEOREM CredentialIsKept == Spec => []CredentialKept
<1>1. IInv => CredentialKept
  <2> SUFFICES ASSUME IInv, ~crossed, current \notin revoked PROVE store = current \/ Carried(current)
    BY DEF CredentialKept
  <2>1. CASE CodeUnderWay
    <3>1. PICK c \in Calls : call[c].code
      BY <2>1 DEF CodeUnderWay
    <3>2. call[c].got = current
      BY <3>1, OneSignsIn DEF IInv
    <3> QED
      BY <3>2 DEF Carried
  <2>2. CASE SettledAt(current)
    BY <2>2 DEF SettledAt, AwaitsSave, AwaitsTwo
  <2> QED
    BY <2>1, <2>2 DEF IInv, Kept
<1> QED
  BY <1>1, CredentialInvariant, PTL

(* A step that tells request c to sign in again ends it. *)
LEMMA TellsOnly ==
    ASSUME Basic, Next, NEW c \in Calls, Told(c)
    PROVE  NothingStored(c) \/ RefusedAgain(c) \/ Outage(call[c].tok)
<1> DEFINE ph == call[c].phase
<1>0. /\ ph \in {"refused", "wait", "reading"} /\ call'[c].phase = "idle"
      /\ ph = "reading" => call[c].tok = None
  BY DEF Told
<1>a. call \in [Calls -> Request]
  BY BasicParts DEF Types
<1>b. call'[c] # call[c]
  BY <1>0
<1> HIDE DEF ph
<1>1. ASSUME NEW d \in Calls,
             ReadCached(d) \/ ReadStore(d) \/ ReadLands(d)
      PROVE  FALSE
  <2>1. d = c
    BY <1>1, <1>a, <1>b DEF ReadCached, ReadStore, ReadLands, Posts
  <2> QED
    BY <1>0, <1>1, <1>a, <2>1 DEF ReadCached, ReadStore, ReadLands, Reads, ph
<1>2. ASSUME NEW d \in Calls, NothingStored(d) \/ RefusedAgain(d)
      PROVE  NothingStored(c) \/ RefusedAgain(c)
  <2>1. d = c
    BY <1>2, <1>a, <1>b DEF NothingStored, Reauthorize, RefusedAgain
  <2> QED
    BY <1>2, <2>1
<1>3. ASSUME NEW d \in Calls,
             Accepted(d) \/ Spend(d) \/ Enqueue(d) \/ DropStale(d) \/ BeginWrite(d)
      PROVE  FALSE
  <2>1. d = c
    BY <1>3, <1>a, <1>b DEF Accepted, Spend, Enqueue, DropStale, BeginWrite
  <2> QED
    BY <1>0, <1>3, <2>1 DEF Accepted, Spend, Enqueue, DropStale, BeginWrite, ph
<1>4. ASSUME NEW d \in Calls, EndWrite(d) PROVE FALSE
  <2>1. d # c
    BY <1>0, <1>4 DEF EndWrite, ph
  <2>2. call'[c] = call[c]
    BY <1>0, <1>4, <2>1 DEF EndWrite, Stores, ph
  <2> QED
    BY <2>2, <1>b
<1>5. ASSUME NEW d \in Calls, DeleteTokens(d) PROVE FALSE
  <2>1. d # c
    BY <1>0, <1>5 DEF DeleteTokens, ph
  <2>2. call'[c] = call[c]
    BY <1>0, <1>5, <2>1 DEF DeleteTokens, Stores, ph
  <2> QED
    BY <2>2, <1>b
<1>6. ASSUME NEW d \in Calls, Invalidate(d) PROVE FALSE
  <2>1. d = c
    BY <1>6, <1>a, <1>b DEF Invalidate
  <2>2. call'[c].phase \in {"again", "deleting"}
    BY <1>6, <1>a, <2>1 DEF Invalidate, Idle
  <2> QED
    BY <1>0, <2>2
<1>7. ASSUME NEW d \in Calls, SignedIn(d) \/ SignIn(d) PROVE FALSE
  <2>1. d = c
    BY <1>7, <1>a, <1>b DEF SignedIn, SignIn
  <2>2. call[c].phase \in {"idle", "signedIn"}
    BY <1>7, <2>1 DEF SignedIn, SignIn
  <2> QED
    BY <1>0, <2>2 DEF ph
<1>8. ASSUME NEW t \in Tokens, NEW n \in Tokens, Exchanged(t, n) PROVE FALSE
  <2>1. call'[c] = IF Sharing(c, t) THEN Answered(call[c], n) ELSE call[c]
    BY <1>8 DEF Exchanged
  <2>2. Answered(call[c], n).phase = "answered"
    BY <1>a DEF Answered, Request
  <2> QED
    BY <1>0, <1>b, <2>1, <2>2
<1>9. ASSUME NEW t \in Tokens, Refused(t) PROVE FALSE
  <2>1. call'[c] = IF Sharing(c, t) THEN [call[c] EXCEPT !.phase = "refused"] ELSE call[c]
    BY <1>9 DEF Refused
  <2>2. [call[c] EXCEPT !.phase = "refused"].phase = "refused"
    BY <1>a DEF Request
  <2> QED
    BY <1>0, <1>b, <2>1, <2>2
<1>10. ASSUME NEW t \in Tokens, Unavailable(t) PROVE Outage(call[c].tok)
  <2>1. Sharing(c, t)
    BY <1>10, <1>b DEF Unavailable, Reauthorize
  <2>2. exchanges \in [Tokens -> Tokens \cup {None, InFlight}]
    BY BasicParts DEF Types
  <2> QED
    BY <1>10, <2>1, <2>2 DEF Sharing, Unavailable, Reauthorize, Outage
<1>11. ASSUME NEW t \in Tokens, Revoked(t) \/ ReplayEnds(t) \/ ForgetRefused(t) PROVE FALSE
  BY <1>11, <1>b DEF Revoked, ReplayEnds, ForgetRefused
<1> QED
  BY <1>1, <1>2, <1>3, <1>4, <1>5, <1>6, <1>7, <1>8, <1>9, <1>10, <1>11 DEF Next

(* A rotation alone never costs a sign-in (spendOnce, the replay window,
   keptStoredTokens and auth()'s second try): before the vendor took something
   back, or two providers of the connection met at the store, no request is told
   to sign in again but by the outage of the exchange it takes part in. *)
THEOREM NoRotationCostsASignIn == Spec => NoFalseAlarm
<1>1. IInv /\ [Next]_vars
      => [\A c \in Calls : Told(c) => crossed \/ revoked # {} \/ Outage(call[c].tok)]_vars
  <2> SUFFICES ASSUME IInv, Next, NEW c \in Calls, Told(c), ~crossed, revoked = {}
               PROVE  Outage(call[c].tok)
    OBVIOUS
  <2>1. NothingStored(c) \/ RefusedAgain(c) \/ Outage(call[c].tok)
    BY TellsOnly DEF IInv
  <2>2. RetryOK(c)
    BY DEF IInv, Calm
  <2> QED
    BY <2>1, <2>2 DEF RetryOK, NothingStored, Reauthorize, RefusedAgain
<1> QED
  BY <1>1, CredentialInvariant, PTL DEF Spec, NoFalseAlarm
=============================================================================
