-------------------------- MODULE LeaseQueue_proofs --------------------------
(***************************************************************************)
(* Proofs about LeaseQueue, for every set of callers and keys: the chain   *)
(* of promises grants a key in the order of arrival, to one caller at a    *)
(* time, and implements the locks of FifoLocks.                            *)
(*                                                                         *)
(* The argument: a tail is settled only when its own place and every       *)
(* earlier one are released (SettledMeans), because a place is chained     *)
(* behind the latest arrival, or behind nobody when everyone before it has *)
(* left (ChainMeans); a place is granted only behind a settled tail.       *)
(***************************************************************************)
EXTENDS LeaseQueue, TLAPS

\* The arrivals at a key are ordered.
Queue ==
  /\ \A c \in Callers, k \in Keys : earlier[<<c, k>>] \subseteq Arrivals(k) \ {c}
  /\ \A k \in Keys : \A c, d \in Arrivals(k) : c # d => c \in earlier[<<d, k>>] \/ d \in earlier[<<c, k>>]

\* A caller has one place open: the one it waits for; when it is idle or runs
\* it holds every place it took, and nothing it released.
OpenPlace ==
  /\ \A c \in Callers, k \in Keys : <<c, k>> \in arrived => k \in Wants[c]
  /\ \A c \in Callers, k \in Keys :
       <<c, k>> \in arrived /\ pc[c] \in {"idle", "running"} => k \in held[c]
  /\ \A c \in Callers, k, l \in Keys : Awaits(c, k) /\ Awaits(c, l) => k = l
  /\ \A c \in Callers, k \in Keys : <<c, k>> \in released => pc[c] = "done" /\ <<c, k>> \in arrived
  /\ \A c \in Callers : \A k \in held[c] : <<c, k>> \in arrived /\ <<c, k>> \notin released

\* Everyone who came to k before c has left.
AllLeft(c, k) == \A e \in earlier[<<c, k>>] : <<e, k>> \in released

\* What the tail of a key stands for: the latest arrival, or nobody left.
TailMeans ==
  \A k \in Keys :
    /\ tails[k] = None => \A c \in Arrivals(k) : <<c, k>> \in released
    /\ tails[k] # None =>
         tails[k] \in Arrivals(k) /\ Arrivals(k) \subseteq earlier[<<tails[k], k>>] \cup {tails[k]}

\* A place is chained behind the latest arrival before it, or behind nobody.
ChainMeans ==
  \A c \in Callers, k \in Keys : <<c, k>> \in arrived =>
    /\ previous[<<c, k>>] = None => AllLeft(c, k)
    /\ previous[<<c, k>>] # None =>
         /\ <<previous[<<c, k>>], k>> \in arrived
         /\ earlier[<<c, k>>] \subseteq earlier[<<previous[<<c, k>>], k>>] \cup {previous[<<c, k>>]}

\* A settled tail has nobody in front of it.
SettledMeans ==
  \A c \in Callers, k \in Keys : <<c, k>> \in settled => AllLeft(c, k)

Chain == TailMeans /\ ChainMeans /\ SettledMeans

IInv == TypeOK /\ Queue /\ OpenPlace /\ Chain /\ FirstComeFirstServed

-----------------------------------------------------------------------------
(* Type correctness *)

\* In every reachable state each promise, tail and place is of its type.
THEOREM TypeCorrect == Spec => []TypeOK
<1>1. Init => TypeOK
  BY CallerAssumption DEF Init, TypeOK, Places
<1>2. TypeOK /\ [Next]_vars => TypeOK'
  <2> SUFFICES ASSUME TypeOK, [Next]_vars PROVE TypeOK'
    OBVIOUS
  <2> USE DEF TypeOK
  <2>1. ASSUME NEW c \in Callers, Acquire(c) PROVE TypeOK'
    <3>1. PICK k \in FirstKey(Wants[c] \ held[c]) :
            /\ previous' = [previous EXCEPT ![<<c, k>>] = tails[k]]
            /\ tails' = [tails EXCEPT ![k] = c]
            /\ earlier' = [earlier EXCEPT ![<<c, k>>] = Arrivals(k)]
            /\ arrived' = arrived \cup {<<c, k>>}
      BY <2>1 DEF Acquire
    <3>2. k \in Keys /\ <<c, k>> \in Places
      BY <2>1, CallerAssumption DEF FirstKey, Places
    <3>3. Arrivals(k) \subseteq Callers
      BY DEF Arrivals
    <3>4. previous' \in [Places -> Callers \cup {None}] /\ earlier' \in [Places -> SUBSET Callers]
      BY <3>1, <3>2, <3>3
    <3>5. tails' \in [Keys -> Callers \cup {None}] /\ arrived' \subseteq Places
      BY <2>1, <3>1, <3>2
    <3> QED BY <2>1, <3>4, <3>5 DEF Acquire
  <2>2. ASSUME NEW c \in Callers, Grant(c) PROVE TypeOK'
    <3>1. PICK k \in Keys :
            /\ held' = [held EXCEPT ![c] = @ \cup {k}]
            /\ pc' = [pc EXCEPT ![c] = IF HasAll(c, held'[c]) THEN "running" ELSE "idle"]
            /\ UNCHANGED <<promises, history>>
      BY <2>2 DEF Grant
    <3>2. held' \in [Callers -> SUBSET Keys] /\ pc' \in [Callers -> {"idle", "waiting", "running", "done"}]
      BY <3>1
    <3>3. \A d \in Callers : held'[d] = Wants[d] <=> pc'[d] = "running"
      BY <3>1 DEF HasAll
    <3> QED BY <3>1, <3>2, <3>3 DEF promises, history
  <2>3. ASSUME NEW c \in Callers, Finish(c) PROVE TypeOK'
    <3>1. {c} \X held[c] \subseteq Places
      BY DEF Places
    <3> QED BY <2>3, <3>1, CallerAssumption DEF Finish, history
  <2>4. ASSUME NEW c \in Callers, Abort(c) PROVE TypeOK'
    BY <2>4 DEF Abort, Awaits, history, Places
  <2>5. ASSUME NEW c \in Callers, NEW k \in Keys, SettleTail(c, k) PROVE TypeOK'
    BY <2>5 DEF SettleTail, TailReady, history
  <2>6. ASSUME NEW c \in Callers, NEW k \in Keys, CleanTail(c, k) PROVE TypeOK'
    BY <2>6 DEF CleanTail, history
  <2>7. CASE UNCHANGED vars
    BY <2>7 DEF vars, promises, history
  <2> QED BY <2>1, <2>2, <2>3, <2>4, <2>5, <2>6, <2>7 DEF Next, Reactions
<1> QED BY <1>1, <1>2, PTL DEF Spec

-----------------------------------------------------------------------------
(* The steps, as the proofs below use them *)

\* A caller takes a place behind everyone who has arrived.
LEMMA AcquireTakes ==
  ASSUME TypeOK, OpenPlace, NEW c \in Callers, Acquire(c)
  PROVE  \E k \in Wants[c] :
           /\ k \in Keys /\ k \notin held[c] /\ <<c, k>> \notin arrived
           /\ previous' = [previous EXCEPT ![<<c, k>>] = tails[k]]
           /\ tails' = [tails EXCEPT ![k] = c]
           /\ earlier' = [earlier EXCEPT ![<<c, k>>] = Arrivals(k)]
           /\ arrived' = arrived \cup {<<c, k>>}
           /\ pc[c] = "idle" /\ pc' = [pc EXCEPT ![c] = "waiting"]
           /\ UNCHANGED <<held, released, settled, cleaned>>
<1>1. \A k \in FirstKey(Wants[c] \ held[c]) : k \in Wants[c] /\ k \in Keys /\ k \notin held[c]
  BY CallerAssumption DEF FirstKey
<1>2. pc[c] = "idle" /\ pc' = [pc EXCEPT ![c] = "waiting"]
  BY DEF Acquire
<1>3. \A k \in Keys : k \notin held[c] => <<c, k>> \notin arrived
  BY <1>2 DEF OpenPlace
<1> QED BY <1>1, <1>2, <1>3 DEF Acquire

\* A granted place was open, and everyone before it has left.
LEMMA GrantHas ==
  ASSUME IInv, NEW c \in Callers, Grant(c)
  PROVE  \E k \in Keys :
           /\ Awaits(c, k) /\ AllLeft(c, k) /\ <<c, k>> \notin released
           /\ held' = [held EXCEPT ![c] = @ \cup {k}]
           /\ pc' = [pc EXCEPT ![c] = IF HasAll(c, held'[c]) THEN "running" ELSE "idle"]
           /\ UNCHANGED <<promises, history>>
<1>1. PICK k \in Keys :
        /\ Awaits(c, k) /\ PreviousSettled(c, k)
        /\ held' = [held EXCEPT ![c] = @ \cup {k}]
        /\ pc' = [pc EXCEPT ![c] = IF HasAll(c, held'[c]) THEN "running" ELSE "idle"]
        /\ UNCHANGED <<promises, history>>
  BY DEF Grant
<1>2. pc[c] = "waiting" /\ <<c, k>> \in arrived /\ <<c, k>> \in Places
  BY <1>1 DEF Awaits, Places
<1>3. <<c, k>> \notin released
  BY <1>2 DEF IInv, OpenPlace
<1>4. CASE previous[<<c, k>>] = None
  BY <1>1, <1>2, <1>3, <1>4 DEF IInv, Chain, ChainMeans
<1>5. CASE previous[<<c, k>>] # None
  <2> DEFINE d == previous[<<c, k>>]
  <2>1. d \in Callers
    BY <1>2, <1>5 DEF IInv, TypeOK
  <2>2. <<d, k>> \in settled /\ <<d, k>> \in released
    BY <1>1, <1>5 DEF PreviousSettled, IInv, TypeOK
  <2>3. AllLeft(d, k)
    BY <2>1, <2>2 DEF IInv, Chain, SettledMeans
  <2>4. earlier[<<c, k>>] \subseteq earlier[<<d, k>>] \cup {d}
    BY <1>2, <1>5 DEF IInv, Chain, ChainMeans
  <2>5. AllLeft(c, k)
    BY <2>2, <2>3, <2>4 DEF AllLeft
  <2> QED BY <1>1, <1>3, <2>5
<1> QED BY <1>4, <1>5

-----------------------------------------------------------------------------
(* The inductive invariant, part by part *)

\* Each arrival for a key queues behind all that arrived before it, and every
\* step keeps that.
LEMMA QueueKept ==
  ASSUME TypeOK, OpenPlace, Queue, [Next]_vars
  PROVE  Queue'
<1>1. ASSUME NEW c \in Callers, Acquire(c) PROVE Queue'
  <2>1. PICK k \in Keys :
          /\ <<c, k>> \notin arrived
          /\ earlier' = [earlier EXCEPT ![<<c, k>>] = Arrivals(k)]
          /\ arrived' = arrived \cup {<<c, k>>}
    BY <1>1, AcquireTakes
  <2>2. <<c, k>> \in Places
    BY <1>1 DEF Places
  <2>3. \A d \in Callers, l \in Keys :
          earlier'[<<d, l>>] = IF d = c /\ l = k THEN Arrivals(k) ELSE earlier[<<d, l>>]
    BY <2>1, <2>2 DEF TypeOK, Places
  <2>4. \A l \in Keys : Arrivals(l)' = IF l = k THEN Arrivals(l) \cup {c} ELSE Arrivals(l)
    BY <1>1, <2>1 DEF Arrivals
  <2>5. c \notin Arrivals(k) /\ \A l \in Keys : Arrivals(l) \subseteq Callers
    BY <2>1 DEF Arrivals
  <2>6. \A d \in Callers, l \in Keys : earlier'[<<d, l>>] \subseteq Arrivals(l)' \ {d}
    <3> SUFFICES ASSUME NEW d \in Callers, NEW l \in Keys PROVE earlier'[<<d, l>>] \subseteq Arrivals(l)' \ {d}
      OBVIOUS
    <3>1. earlier[<<d, l>>] \subseteq Arrivals(l) \ {d}
      BY DEF Queue
    <3>2. CASE d = c /\ l = k
      BY <2>3, <2>4, <2>5, <3>2
    <3>3. CASE ~(d = c /\ l = k)
      BY <2>3, <2>4, <3>1, <3>3
    <3> QED BY <3>2, <3>3
  <2>7. \A l \in Keys : \A d, e \in Arrivals(l)' :
          d # e => d \in earlier'[<<e, l>>] \/ e \in earlier'[<<d, l>>]
    BY <1>1, <2>3, <2>4, <2>5 DEF Queue
  <2> QED BY <2>6, <2>7 DEF Queue
<1>2. CASE UNCHANGED history
  BY <1>2 DEF history, Queue, Arrivals
<1>3. ASSUME NEW c \in Callers, Grant(c) \/ Finish(c) \/ Abort(c) PROVE UNCHANGED history
  BY <1>3 DEF Grant, Finish, Abort
<1>4. ASSUME NEW c \in Callers, NEW k \in Keys, SettleTail(c, k) \/ CleanTail(c, k)
      PROVE  UNCHANGED history
  BY <1>4 DEF SettleTail, CleanTail
<1> QED BY <1>1, <1>2, <1>3, <1>4 DEF Next, Reactions, vars

\* A step leaves a waiting caller one open place, and opens no place of one
\* that is idle or runs.
LEMMA OpenPlaceKept ==
  ASSUME IInv, [Next]_vars
  PROVE  OpenPlace'
<1> USE DEF IInv
<1>1. ASSUME NEW c \in Callers, Acquire(c) PROVE OpenPlace'
  <2>1. PICK k \in Wants[c] :
          /\ k \in Keys /\ k \notin held[c] /\ <<c, k>> \notin arrived
          /\ arrived' = arrived \cup {<<c, k>>}
          /\ pc[c] = "idle" /\ pc' = [pc EXCEPT ![c] = "waiting"]
          /\ UNCHANGED <<held, released>>
    BY <1>1, AcquireTakes
  <2>2. pc'[c] = "waiting" /\ \A d \in Callers : d # c => pc'[d] = pc[d]
    BY <2>1 DEF TypeOK
  <2>3. \A d \in Callers, l \in Keys : <<d, l>> \in arrived' => l \in Wants[d]
    BY <2>1 DEF OpenPlace
  <2>4. \A d \in Callers, l \in Keys :
          <<d, l>> \in arrived' /\ pc'[d] \in {"idle", "running"} => l \in held'[d]
    BY <2>1, <2>2 DEF OpenPlace
  <2>5. \A d \in Callers, l, n \in Keys : Awaits(d, l)' /\ Awaits(d, n)' => l = n
    <3>1. \A l \in Keys : Awaits(c, l)' => l = k
      BY <2>1 DEF Awaits, OpenPlace
    <3>2. \A d \in Callers, l \in Keys : d # c /\ Awaits(d, l)' => Awaits(d, l)
      BY <2>1, <2>2 DEF Awaits
    <3> QED BY <3>1, <3>2 DEF OpenPlace
  <2>6. \A d \in Callers, l \in Keys : <<d, l>> \in released' => pc'[d] = "done" /\ <<d, l>> \in arrived'
    BY <2>1, <2>2 DEF OpenPlace
  <2>7. \A d \in Callers : \A l \in held'[d] : <<d, l>> \in arrived' /\ <<d, l>> \notin released'
    BY <2>1 DEF OpenPlace
  <2> QED BY <2>3, <2>4, <2>5, <2>6, <2>7 DEF OpenPlace
<1>2. ASSUME NEW c \in Callers, Grant(c) PROVE OpenPlace'
  <2>1. PICK k \in Keys :
          /\ Awaits(c, k) /\ <<c, k>> \notin released
          /\ held' = [held EXCEPT ![c] = @ \cup {k}]
          /\ pc' = [pc EXCEPT ![c] = IF HasAll(c, held'[c]) THEN "running" ELSE "idle"]
          /\ UNCHANGED <<promises, history>>
    BY <1>2, GrantHas
  <2>2. released' = released /\ arrived' = arrived
    BY <2>1 DEF promises, history
  <2>3. /\ pc[c] = "waiting" /\ pc'[c] \in {"running", "idle"} /\ held'[c] = held[c] \cup {k}
        /\ \A d \in Callers : d # c => pc'[d] = pc[d] /\ held'[d] = held[d]
    BY <2>1 DEF TypeOK, Awaits
  <2>4. \A l \in Keys : <<c, l>> \in arrived => l \in held'[c]
    BY <2>1, <2>3 DEF Awaits, OpenPlace
  <2>5. \A d \in Callers, l \in Keys :
          <<d, l>> \in arrived' /\ pc'[d] \in {"idle", "running"} => l \in held'[d]
    BY <2>2, <2>3, <2>4 DEF OpenPlace
  <2>6. \A d \in Callers, l \in Keys : Awaits(d, l)' => d # c /\ Awaits(d, l)
    BY <2>2, <2>3 DEF Awaits
  <2>7. \A d \in Callers, l \in Keys : <<d, l>> \in released' => pc'[d] = "done" /\ <<d, l>> \in arrived'
    BY <2>2, <2>3 DEF OpenPlace
  <2>8. \A d \in Callers : \A l \in held'[d] : <<d, l>> \in arrived' /\ <<d, l>> \notin released'
    BY <2>1, <2>2, <2>3 DEF Awaits, OpenPlace
  <2> QED BY <2>2, <2>5, <2>6, <2>7, <2>8 DEF OpenPlace
<1>3. ASSUME NEW c \in Callers, Finish(c) PROVE OpenPlace'
  <2>1. /\ pc[c] = "running" /\ released' = released \cup ({c} \X held[c]) /\ arrived' = arrived
        /\ held' = [held EXCEPT ![c] = {}] /\ pc' = [pc EXCEPT ![c] = "done"]
    BY <1>3 DEF Finish, history
  <2>2. /\ pc'[c] = "done" /\ held'[c] = {}
        /\ \A d \in Callers : d # c => pc'[d] = pc[d] /\ held'[d] = held[d]
    BY <2>1 DEF TypeOK
  <2>3. \A d \in Callers, l \in Keys : Awaits(d, l)' => d # c /\ Awaits(d, l)
    BY <2>1, <2>2 DEF Awaits
  <2>4. \A d \in Callers, l \in Keys : <<d, l>> \in released' => pc'[d] = "done" /\ <<d, l>> \in arrived'
    BY <2>1, <2>2 DEF OpenPlace
  <2>5. \A d \in Callers : \A l \in held'[d] : <<d, l>> \in arrived' /\ <<d, l>> \notin released'
    BY <2>1, <2>2 DEF OpenPlace
  <2>6. \A d \in Callers, l \in Keys :
          <<d, l>> \in arrived' /\ pc'[d] \in {"idle", "running"} => l \in held'[d]
    BY <2>1, <2>2 DEF OpenPlace
  <2> QED BY <2>1, <2>3, <2>4, <2>5, <2>6 DEF OpenPlace
<1>4. ASSUME NEW c \in Callers, Abort(c) PROVE OpenPlace'
  <2>1. PICK k \in Keys : Awaits(c, k) /\ released' = released \cup {<<c, k>>}
    BY <1>4 DEF Abort
  <2>2. pc' = [pc EXCEPT ![c] = "done"] /\ held' = held /\ arrived' = arrived
    BY <1>4 DEF Abort, history
  <2>3. pc'[c] = "done" /\ \A d \in Callers : d # c => pc'[d] = pc[d]
    BY <2>2 DEF TypeOK
  <2>4. \A d \in Callers, l \in Keys : Awaits(d, l)' => d # c /\ Awaits(d, l)
    BY <2>2, <2>3 DEF Awaits
  <2>5. \A d \in Callers, l \in Keys : <<d, l>> \in released' => pc'[d] = "done" /\ <<d, l>> \in arrived'
    BY <2>1, <2>2, <2>3 DEF OpenPlace, Awaits
  <2>6. \A d \in Callers : \A l \in held'[d] : <<d, l>> \in arrived' /\ <<d, l>> \notin released'
    BY <2>1, <2>2 DEF OpenPlace, Awaits
  <2>7. \A d \in Callers, l \in Keys :
          <<d, l>> \in arrived' /\ pc'[d] \in {"idle", "running"} => l \in held'[d]
    BY <2>2, <2>3 DEF OpenPlace
  <2> QED BY <2>2, <2>4, <2>5, <2>6, <2>7 DEF OpenPlace
<1>5. CASE UNCHANGED <<pc, held, arrived, released>>
  BY <1>5 DEF OpenPlace, Awaits
<1>6. ASSUME NEW c \in Callers, NEW k \in Keys, SettleTail(c, k) \/ CleanTail(c, k)
      PROVE  UNCHANGED <<pc, held, arrived, released>>
  BY <1>6 DEF SettleTail, CleanTail, history
<1>7. CASE UNCHANGED vars
  BY <1>5, <1>7 DEF vars, promises, history
<1> QED BY <1>1, <1>2, <1>3, <1>4, <1>5, <1>6, <1>7 DEF Next, Reactions

\* Only Acquire changes the order of arrival; released places stay released.
LEMMA HistoryGrows ==
  ASSUME TypeOK, OpenPlace, [Next]_vars
  PROVE  /\ released \subseteq released' /\ arrived \subseteq arrived'
         /\ \A c \in Callers, k \in Keys :
              <<c, k>> \in arrived =>
                earlier'[<<c, k>>] = earlier[<<c, k>>] /\ previous'[<<c, k>>] = previous[<<c, k>>]
<1>1. ASSUME NEW c \in Callers, Acquire(c)
      PROVE  /\ released \subseteq released' /\ arrived \subseteq arrived'
             /\ \A d \in Callers, k \in Keys :
                  <<d, k>> \in arrived =>
                    earlier'[<<d, k>>] = earlier[<<d, k>>] /\ previous'[<<d, k>>] = previous[<<d, k>>]
  BY <1>1, AcquireTakes DEF TypeOK, Places
<1>2. ASSUME NEW c \in Callers, Grant(c) \/ Finish(c) \/ Abort(c)
      PROVE  released \subseteq released' /\ UNCHANGED <<arrived, earlier, previous>>
  BY <1>2 DEF Grant, Finish, Abort, promises, history
<1>3. ASSUME NEW c \in Callers, NEW k \in Keys, SettleTail(c, k) \/ CleanTail(c, k)
      PROVE  released \subseteq released' /\ UNCHANGED <<arrived, earlier, previous>>
  BY <1>3 DEF SettleTail, CleanTail, history
<1>4. CASE UNCHANGED vars
  BY <1>4 DEF vars, promises, history
<1> QED BY <1>1, <1>2, <1>3, <1>4 DEF Next, Reactions

\* Once all that came earlier have left a key, they never come back.
LEMMA LeftStayLeft ==
  ASSUME TypeOK, OpenPlace, [Next]_vars, NEW c \in Callers, NEW k \in Keys,
         <<c, k>> \in arrived, AllLeft(c, k)
  PROVE  AllLeft(c, k)'
BY HistoryGrows DEF AllLeft

\* A step keeps what the map of tails says: a key without a tail has been
\* left by all that came, and a tail came after all the others.
LEMMA TailKept ==
  ASSUME IInv, [Next]_vars
  PROVE  TailMeans'
<1> USE DEF IInv, Chain
<1>1. ASSUME NEW c \in Callers, Acquire(c) PROVE TailMeans'
  <2>1. PICK k \in Keys :
          /\ <<c, k>> \notin arrived
          /\ tails' = [tails EXCEPT ![k] = c]
          /\ earlier' = [earlier EXCEPT ![<<c, k>>] = Arrivals(k)]
          /\ arrived' = arrived \cup {<<c, k>>}
          /\ UNCHANGED released
    BY <1>1, AcquireTakes
  <2>2. c # None /\ <<c, k>> \in Places
    BY <1>1, CallerAssumption DEF Places
  <2>3. tails'[k] = c /\ \A l \in Keys : l # k => tails'[l] = tails[l]
    BY <2>1 DEF TypeOK
  <2>4. \A l \in Keys : Arrivals(l)' = IF l = k THEN Arrivals(l) \cup {c} ELSE Arrivals(l)
    BY <1>1, <2>1 DEF Arrivals
  <2>5. earlier'[<<c, k>>] = Arrivals(k)
    BY <2>1, <2>2 DEF TypeOK
  <2>6. \A l \in Keys : \A d \in Arrivals(l) : earlier'[<<d, l>>] = earlier[<<d, l>>]
    BY <1>1, HistoryGrows DEF Arrivals
  <2>7. ASSUME NEW l \in Keys, l # k
        PROVE  /\ tails'[l] = None => \A d \in Arrivals(l)' : <<d, l>> \in released'
               /\ tails'[l] # None =>
                    /\ tails'[l] \in Arrivals(l)'
                    /\ Arrivals(l)' \subseteq earlier'[<<tails'[l], l>>] \cup {tails'[l]}
    <3>1. tails'[l] = tails[l] /\ Arrivals(l)' = Arrivals(l)
      BY <2>3, <2>4, <2>7
    <3>2. /\ tails[l] = None => \A d \in Arrivals(l) : <<d, l>> \in released
          /\ tails[l] # None =>
               tails[l] \in Arrivals(l) /\ Arrivals(l) \subseteq earlier[<<tails[l], l>>] \cup {tails[l]}
      BY DEF TailMeans
    <3> QED BY <2>1, <2>6, <3>1, <3>2
  <2>8. /\ tails'[k] # None /\ tails'[k] \in Arrivals(k)'
        /\ Arrivals(k)' \subseteq earlier'[<<tails'[k], k>>] \cup {tails'[k]}
    BY <2>2, <2>3, <2>4, <2>5
  <2> QED BY <2>7, <2>8 DEF TailMeans
<1>2. ASSUME NEW c \in Callers, NEW k \in Keys, CleanTail(c, k) PROVE TailMeans'
  <2>1. /\ <<c, k>> \in settled /\ UNCHANGED <<released, arrived, earlier>>
        /\ tails' = IF OwnTail(c, k) THEN [tails EXCEPT ![k] = None] ELSE tails
    BY <1>2 DEF CleanTail, history
  <2>2. CASE ~OwnTail(c, k)
    BY <2>1, <2>2 DEF TailMeans, Arrivals
  <2>3. CASE tails[k] = c
    <3>1. c # None
      BY <1>2, CallerAssumption
    <3>2. Arrivals(k) \subseteq earlier[<<c, k>>] \cup {c}
      BY <2>3, <3>1 DEF TailMeans
    <3>3. \A d \in Arrivals(k) : <<d, k>> \in released
      BY <2>1, <3>2 DEF SettledMeans, AllLeft, TypeOK
    <3>4. tails'[k] = None /\ \A l \in Keys : l # k => tails'[l] = tails[l]
      BY <2>1, <2>3 DEF OwnTail, TypeOK
    <3> QED BY <2>1, <3>3, <3>4 DEF TailMeans, Arrivals
  <2> QED BY <2>2, <2>3 DEF OwnTail
<1>3. CASE released \subseteq released' /\ UNCHANGED <<tails, arrived, earlier>>
  BY <1>3 DEF TailMeans, Arrivals
<1>4. ASSUME NEW c \in Callers, Grant(c) \/ Finish(c) \/ Abort(c)
      PROVE  released \subseteq released' /\ UNCHANGED <<tails, arrived, earlier>>
  BY <1>4 DEF Grant, Finish, Abort, promises, history
<1>5. ASSUME NEW c \in Callers, NEW k \in Keys, SettleTail(c, k)
      PROVE  UNCHANGED <<released, tails, arrived, earlier>>
  BY <1>5 DEF SettleTail, history
<1>6. CASE UNCHANGED vars
  BY <1>3, <1>6 DEF vars, promises, history
<1> QED BY <1>1, <1>2, <1>3, <1>4, <1>5, <1>6 DEF Next, Reactions

\* A step keeps the chain: a place stands behind one that itself came after all the
\* earlier ones, or all the earlier ones have left.
LEMMA ChainKept ==
  ASSUME IInv, [Next]_vars
  PROVE  ChainMeans'
<1> USE DEF IInv, Chain
<1>1. ASSUME NEW c \in Callers, NEW k \in Keys, <<c, k>> \in arrived
      PROVE  /\ previous'[<<c, k>>] = None => AllLeft(c, k)'
             /\ previous'[<<c, k>>] # None =>
                  /\ <<previous'[<<c, k>>], k>> \in arrived'
                  /\ earlier'[<<c, k>>] \subseteq earlier'[<<previous'[<<c, k>>], k>>] \cup {previous'[<<c, k>>]}
  <2>1. earlier'[<<c, k>>] = earlier[<<c, k>>] /\ previous'[<<c, k>>] = previous[<<c, k>>]
    BY <1>1, HistoryGrows
  <2>2. CASE previous[<<c, k>>] = None
    BY <1>1, <2>1, <2>2, LeftStayLeft DEF ChainMeans
  <2>3. CASE previous[<<c, k>>] # None
    <3> DEFINE d == previous[<<c, k>>]
    <3>1. d \in Callers /\ <<d, k>> \in arrived
      BY <1>1, <2>3 DEF ChainMeans, TypeOK, Places, Arrivals
    <3>2. earlier'[<<d, k>>] = earlier[<<d, k>>]
      BY <3>1, HistoryGrows
    <3> QED BY <1>1, <2>1, <2>3, <3>1, <3>2, HistoryGrows DEF ChainMeans
  <2> QED BY <2>2, <2>3
<1>2. ASSUME NEW c \in Callers, Acquire(c) PROVE ChainMeans'
  <2>1. PICK k \in Keys :
          /\ <<c, k>> \notin arrived
          /\ previous' = [previous EXCEPT ![<<c, k>>] = tails[k]]
          /\ earlier' = [earlier EXCEPT ![<<c, k>>] = Arrivals(k)]
          /\ arrived' = arrived \cup {<<c, k>>}
          /\ UNCHANGED released
    BY <1>2, AcquireTakes
  <2>2. previous'[<<c, k>>] = tails[k] /\ earlier'[<<c, k>>] = Arrivals(k)
    BY <1>2, <2>1 DEF TypeOK, Places
  <2>3. tails[k] = None => AllLeft(c, k)'
    BY <2>1, <2>2 DEF TailMeans, AllLeft
  <2>4. ASSUME tails[k] # None
        PROVE  /\ <<tails[k], k>> \in arrived'
               /\ earlier'[<<c, k>>] \subseteq earlier'[<<tails[k], k>>] \cup {tails[k]}
    <3>1. tails[k] \in Callers /\ <<tails[k], k>> \in arrived
      BY <2>4 DEF TailMeans, Arrivals
    <3>2. earlier'[<<tails[k], k>>] = earlier[<<tails[k], k>>]
      BY <3>1, HistoryGrows
    <3> QED BY <2>1, <2>2, <2>4, <3>1, <3>2 DEF TailMeans
  <2>5. \A d \in Callers, l \in Keys : <<d, l>> \in arrived' => <<d, l>> \in arrived \/ (d = c /\ l = k)
    BY <2>1
  <2> QED BY <1>1, <2>2, <2>3, <2>4, <2>5 DEF ChainMeans
<1>3. CASE UNCHANGED arrived
  BY <1>1, <1>3 DEF ChainMeans
<1>4. ASSUME NEW c \in Callers, Grant(c) \/ Finish(c) \/ Abort(c) PROVE UNCHANGED arrived
  BY <1>4 DEF Grant, Finish, Abort, history
<1>5. ASSUME NEW c \in Callers, NEW k \in Keys, SettleTail(c, k) \/ CleanTail(c, k)
      PROVE  UNCHANGED arrived
  BY <1>5 DEF SettleTail, CleanTail, history
<1>6. CASE UNCHANGED vars
  BY <1>3, <1>6 DEF vars, history
<1> QED BY <1>2, <1>3, <1>4, <1>5, <1>6 DEF Next, Reactions

\* A tail settles only once all that came before it have left.
LEMMA SettledKept ==
  ASSUME IInv, [Next]_vars
  PROVE  SettledMeans'
<1> USE DEF IInv, Chain
<1>1. ASSUME NEW c \in Callers, NEW k \in Keys, SettleTail(c, k) PROVE SettledMeans'
  <2>1. /\ TailReady(c, k) /\ settled' = settled \cup {<<c, k>>}
        /\ UNCHANGED <<released, earlier>>
    BY <1>1 DEF SettleTail, history
  <2>2. <<c, k>> \in arrived
    BY <2>1 DEF TailReady, OpenPlace
  <2>3. AllLeft(c, k)
    <3>1. CASE previous[<<c, k>>] = None
      BY <2>2, <3>1 DEF ChainMeans
    <3>2. CASE previous[<<c, k>>] # None
      <4> DEFINE d == previous[<<c, k>>]
      <4>1. d \in Callers /\ earlier[<<c, k>>] \subseteq earlier[<<d, k>>] \cup {d}
        BY <2>2, <3>2 DEF ChainMeans, TypeOK, Places
      <4>2. <<d, k>> \in settled /\ <<d, k>> \in released
        BY <2>1, <3>2 DEF TailReady, PreviousSettled, TypeOK
      <4> QED BY <4>1, <4>2 DEF SettledMeans, AllLeft
    <3> QED BY <3>1, <3>2
  <2> QED BY <2>1, <2>3 DEF SettledMeans, AllLeft
<1>2. CASE UNCHANGED settled
  BY <1>2, LeftStayLeft DEF SettledMeans, OpenPlace, TypeOK
<1>3. ASSUME NEW c \in Callers, Acquire(c) \/ Grant(c) \/ Finish(c) \/ Abort(c)
      PROVE  UNCHANGED settled
  BY <1>3 DEF Acquire, Grant, Finish, Abort, promises
<1>4. ASSUME NEW c \in Callers, NEW k \in Keys, CleanTail(c, k) PROVE UNCHANGED settled
  BY <1>4 DEF CleanTail
<1>5. CASE UNCHANGED vars
  BY <1>2, <1>5 DEF vars, promises
<1> QED BY <1>1, <1>2, <1>3, <1>4, <1>5 DEF Next, Reactions

\* A caller is granted a key only after all that arrived for it earlier.
LEMMA OrderKept ==
  ASSUME IInv, [Next]_vars
  PROVE  FirstComeFirstServed'
<1> USE DEF IInv
<1>1. \A c \in Callers : \A k \in held[c] : AllLeft(c, k)'
  BY LeftStayLeft DEF FirstComeFirstServed, AllLeft, OpenPlace, TypeOK
<1>2. ASSUME NEW c \in Callers, Grant(c) PROVE FirstComeFirstServed'
  <2>1. PICK k \in Keys :
          /\ AllLeft(c, k) /\ held' = [held EXCEPT ![c] = @ \cup {k}]
          /\ UNCHANGED <<promises, history>>
    BY <1>2, GrantHas
  <2>2. AllLeft(c, k)'
    BY <2>1 DEF AllLeft, promises, history
  <2> QED BY <1>1, <2>1, <2>2 DEF FirstComeFirstServed, AllLeft, TypeOK
<1>3. CASE \A c \in Callers : held'[c] \subseteq held[c]
  BY <1>1, <1>3 DEF FirstComeFirstServed, AllLeft
<1>4. ASSUME NEW c \in Callers, Acquire(c) \/ Finish(c) \/ Abort(c)
      PROVE  \A d \in Callers : held'[d] \subseteq held[d]
  BY <1>4 DEF Acquire, Finish, Abort, TypeOK
<1>5. ASSUME NEW c \in Callers, NEW k \in Keys, SettleTail(c, k) \/ CleanTail(c, k)
      PROVE  UNCHANGED held
  BY <1>5 DEF SettleTail, CleanTail
<1>6. CASE UNCHANGED vars
  BY <1>3, <1>6 DEF vars
<1> QED BY <1>2, <1>3, <1>4, <1>5, <1>6 DEF Next, Reactions

\* The parts hold together in every reachable state.
LEMMA Inductive == Spec => []IInv
<1>1. Init => IInv
  <2> SUFFICES ASSUME Init PROVE IInv
    OBVIOUS
  <2>1. TypeOK
    BY CallerAssumption DEF Init, TypeOK, Places
  <2>2. Queue /\ OpenPlace /\ Chain /\ FirstComeFirstServed
    BY DEF Init, Queue, OpenPlace, Awaits, Chain, TailMeans, ChainMeans, SettledMeans,
           FirstComeFirstServed, Arrivals, Places
  <2> QED BY <2>1, <2>2 DEF IInv
<1>2. IInv /\ TypeOK' /\ [Next]_vars => IInv'
  BY QueueKept, OpenPlaceKept, TailKept, ChainKept, SettledKept, OrderKept DEF IInv, Chain
<1> QED BY <1>1, <1>2, TypeCorrect, PTL DEF Spec

-----------------------------------------------------------------------------
(* What follows *)

\* A key is granted in the order of arrival, whoever gives up its place.
THEOREM ServedInOrder == Spec => []FirstComeFirstServed
BY Inductive, PTL DEF IInv

\* Two holders of one key would each have arrived before the other.
LEMMA InvExcludes == IInv => OneHolder
<1> SUFFICES ASSUME IInv, NEW c \in Callers, NEW d \in Callers, c # d,
                    NEW k \in held[c], k \in held[d]
             PROVE  FALSE
  BY DEF OneHolder
<1> USE DEF IInv
<1>1. k \in Keys
  BY DEF TypeOK
<1>2. /\ <<c, k>> \in arrived /\ <<c, k>> \notin released
      /\ <<d, k>> \in arrived /\ <<d, k>> \notin released
  BY DEF OpenPlace
<1>3. c \in earlier[<<d, k>>] \/ d \in earlier[<<c, k>>]
  BY <1>1, <1>2 DEF Queue, Arrivals
<1> QED BY <1>2, <1>3 DEF FirstComeFirstServed

\* A key has one holder at a time.
THEOREM Exclusion == Spec => []OneHolder
BY Inductive, InvExcludes, PTL

\* No step makes a tail of a promise whose clean-up has already run.
LEMMA TailsForgottenKept ==
  ASSUME IInv, TailsForgotten, [Next]_vars
  PROVE  TailsForgotten'
<1> USE DEF IInv
<1>1. ASSUME NEW c \in Callers, Acquire(c) PROVE TailsForgotten'
  <2>1. PICK k \in Keys :
          <<c, k>> \notin arrived /\ tails' = [tails EXCEPT ![k] = c] /\ UNCHANGED cleaned
    BY <1>1, AcquireTakes
  <2>2. <<c, k>> \notin cleaned
    BY <1>1, <2>1 DEF OpenPlace, TypeOK
  <2> QED BY <2>1, <2>2 DEF TailsForgotten, TypeOK
<1>2. ASSUME NEW c \in Callers, NEW k \in Keys, CleanTail(c, k) PROVE TailsForgotten'
  BY <1>2 DEF CleanTail, OwnTail, TailsForgotten, TypeOK
<1>3. CASE UNCHANGED <<tails, cleaned>>
  BY <1>3 DEF TailsForgotten
<1>4. ASSUME NEW c \in Callers, Grant(c) \/ Finish(c) \/ Abort(c) PROVE UNCHANGED <<tails, cleaned>>
  BY <1>4 DEF Grant, Finish, Abort, promises
<1>5. ASSUME NEW c \in Callers, NEW k \in Keys, SettleTail(c, k) PROVE UNCHANGED <<tails, cleaned>>
  BY <1>5 DEF SettleTail
<1>6. CASE UNCHANGED vars
  BY <1>3, <1>6 DEF vars, promises
<1> QED BY <1>1, <1>2, <1>3, <1>4, <1>5, <1>6 DEF Next, Reactions

\* The map forgets a key when the reactions to its last release have run.
THEOREM NoKeyLeft == Spec => []TailsForgotten
<1>1. Init => TailsForgotten
  BY DEF Init, TailsForgotten
<1> QED BY <1>1, TailsForgottenKept, Inductive, PTL DEF Spec

-----------------------------------------------------------------------------
(* The refinement: what FifoLocks sees of a state is who is present at each *)
(* key, in which order, and who holds it.                                   *)

Queued == [k \in Keys |-> Present(k)]
Before == [k \in Keys |-> {p \in Present(k) \X Present(k) : p[1] \in earlier[<<p[2], k>>]}]
Holds == [k \in Keys |-> {c \in Callers : k \in held[c]}]

\* To ask for the next key is to join that key's lock.
LEMMA AcquireJoins ==
  ASSUME IInv, NEW c \in Callers, Acquire(c)
  PROVE  \E k \in Keys : Locks!Join(c, k)
<1> USE DEF IInv
<1>1. PICK k \in Keys :
        /\ <<c, k>> \notin arrived
        /\ earlier' = [earlier EXCEPT ![<<c, k>>] = Arrivals(k)]
        /\ arrived' = arrived \cup {<<c, k>>}
        /\ UNCHANGED <<held, released>>
  BY AcquireTakes
<1>2. <<c, k>> \notin released /\ <<c, k>> \in Places
  BY <1>1 DEF OpenPlace, Places
<1>3. \A l \in Keys : Present(l)' = IF l = k THEN Present(l) \cup {c} ELSE Present(l)
  BY <1>1, <1>2 DEF Present, Arrivals
<1>4. c \notin Present(k)
  BY <1>1 DEF Present, Arrivals
<1>5. \A d \in Callers, l \in Keys :
        earlier'[<<d, l>>] = IF d = c /\ l = k THEN Arrivals(k) ELSE earlier[<<d, l>>]
  BY <1>1, <1>2 DEF TypeOK, Places
<1>6. \A d \in Callers, l \in Keys : earlier[<<d, l>>] \subseteq Arrivals(l) \ {d}
  BY DEF Queue
<1>7. \A l \in Keys : Present(l) \subseteq Arrivals(l) /\ Arrivals(l) \subseteq Callers
  BY DEF Present, Arrivals
<1>8. c \notin Arrivals(k)
  BY <1>1 DEF Arrivals
<1>9. Queued' = [Queued EXCEPT ![k] = @ \cup {c}]
  BY <1>3 DEF Queued
<1>10. Before' = [Before EXCEPT ![k] = @ \cup (Queued[k] \X {c})]
  <2>1. ASSUME NEW l \in Keys, l # k PROVE Before'[l] = Before[l]
    BY <1>3, <1>5, <1>7, <2>1 DEF Before
  <2>2. Before'[k] = Before[k] \cup (Present(k) \X {c})
    <3>1. \A d, e \in Present(k) \cup {c} :
            d \in earlier'[<<e, k>>] <=> (d \in Present(k) /\ e = c) \/ (e # c /\ d # c /\ d \in earlier[<<e, k>>])
      BY <1>4, <1>5, <1>6, <1>7, <1>8
    <3>2. Before'[k] = {p \in (Present(k) \cup {c}) \X (Present(k) \cup {c}) : p[1] \in earlier'[<<p[2], k>>]}
      BY <1>3 DEF Before
    <3>3. Before[k] = {p \in Present(k) \X Present(k) : p[1] \in earlier[<<p[2], k>>]}
      BY DEF Before
    <3> QED BY <1>4, <3>1, <3>2, <3>3
  <2> QED BY <2>1, <2>2 DEF Before, Queued
<1>11. Holds' = Holds
  BY <1>1 DEF Holds
<1> QED BY <1>4, <1>9, <1>10, <1>11 DEF Locks!Join, Queued, Before, Holds

\* The end of the wait takes the lock, in turn.
LEMMA GrantLocks ==
  ASSUME IInv, NEW c \in Callers, Grant(c)
  PROVE  \E k \in Keys : Locks!Lock(c, k)
<1> USE DEF IInv
<1>1. PICK k \in Keys :
        /\ Awaits(c, k) /\ AllLeft(c, k) /\ <<c, k>> \notin released
        /\ held' = [held EXCEPT ![c] = @ \cup {k}]
        /\ UNCHANGED <<promises, history>>
  BY GrantHas
<1>2. <<c, k>> \in arrived /\ k \notin held[c]
  BY <1>1 DEF Awaits
<1>3. c \in Present(k)
  BY <1>1, <1>2 DEF Present, Arrivals
<1>4. \A d \in Present(k) : d \notin earlier[<<c, k>>]
  BY <1>1 DEF AllLeft, Present
<1>5. ASSUME NEW d \in Callers, k \in held[d] PROVE FALSE
  <2>1. d # c /\ <<d, k>> \in arrived /\ <<d, k>> \notin released
    BY <1>2, <1>5 DEF OpenPlace
  <2>2. d \notin earlier[<<c, k>>]
    BY <1>1, <2>1 DEF AllLeft
  <2>3. c \notin earlier[<<d, k>>]
    BY <1>1, <1>5 DEF FirstComeFirstServed
  <2> QED BY <1>2, <2>1, <2>2, <2>3 DEF Queue, Arrivals
<1>6. Holds[k] = {}
  BY <1>5 DEF Holds
<1>7. Holds' = [Holds EXCEPT ![k] = {c}]
  <2>1. \A l \in Keys : Holds'[l] = IF l = k THEN {c} ELSE Holds[l]
    BY <1>1, <1>5 DEF Holds, TypeOK
  <2> QED BY <2>1 DEF Holds
<1>8. Queued' = Queued /\ Before' = Before
  BY <1>1 DEF Queued, Before, Present, Arrivals, promises, history
<1>9. \A d \in Queued[k] : <<d, c>> \notin Before[k]
  BY <1>4 DEF Queued, Before
<1>10. c \in Queued[k]
  BY <1>3 DEF Queued
<1> QED BY <1>6, <1>7, <1>8, <1>9, <1>10 DEF Locks!Lock, Queued, Before, Holds

\* A caller that releases all its places leaves every queue at once.
LEMMA ReleaseLeaves ==
  ASSUME TypeOK, NEW c \in Callers, NEW keys \in SUBSET Keys, keys # {},
         \A k \in keys : <<c, k>> \in arrived /\ <<c, k>> \notin released,
         \A k \in Keys \ keys : <<c, k>> \notin arrived,
         released' = released \cup ({c} \X keys),
         \A d \in Callers : held'[d] = IF d = c THEN {} ELSE held[d],
         UNCHANGED history
  PROVE  Locks!Leave(c)
<1>1. \A k \in Keys : Present(k)' = Present(k) \ {c}
  BY DEF Present, Arrivals, history
<1>2. \E k \in Keys : c \in Queued[k]
  BY DEF Queued, Present, Arrivals
<1>3. Queued' = [k \in Keys |-> Queued[k] \ {c}]
  BY <1>1 DEF Queued
<1>4. Before' = [k \in Keys |-> {p \in Before[k] : p[1] # c /\ p[2] # c}]
  <2>1. \A k \in Keys : Before'[k] = {p \in Before[k] : p[1] # c /\ p[2] # c}
    BY <1>1 DEF Before, history
  <2> QED BY <2>1 DEF Before
<1>5. Holds' = [k \in Keys |-> Holds[k] \ {c}]
  BY DEF Holds
<1> QED BY <1>2, <1>3, <1>4, <1>5 DEF Locks!Leave, Queued, Before, Holds

\* The end of the critical section leaves the locks that were held.
LEMMA FinishLeaves ==
  ASSUME IInv, NEW c \in Callers, Finish(c)
  PROVE  Locks!Leave(c)
<1> USE DEF IInv
<1>1. /\ pc[c] = "running" /\ released' = released \cup ({c} \X held[c])
      /\ \A d \in Callers : held'[d] = IF d = c THEN {} ELSE held[d]
      /\ UNCHANGED history
  BY DEF Finish, TypeOK
<1>2. held[c] \in SUBSET Keys /\ held[c] # {}
  BY <1>1, CallerAssumption DEF TypeOK
<1>3. /\ \A k \in held[c] : <<c, k>> \in arrived /\ <<c, k>> \notin released
      /\ \A k \in Keys \ held[c] : <<c, k>> \notin arrived
  BY <1>1 DEF OpenPlace
<1> QED BY <1>1, <1>2, <1>3, ReleaseLeaves

\* An aborted wait leaves the lock it queued for.
LEMMA AbortLeaves ==
  ASSUME IInv, NEW c \in Callers, Abort(c)
  PROVE  Locks!Leave(c)
<1> USE DEF IInv
<1>1. PICK k \in Keys : Awaits(c, k) /\ released' = released \cup {<<c, k>>}
  BY DEF Abort
<1>2. PICK l \in Keys : Wants[c] = {l}
  BY CallerAssumption DEF Abort
<1>3. /\ pc[c] = "waiting" /\ <<c, k>> \in arrived /\ k \notin held[c]
      /\ \A n \in held[c] : <<c, n>> \in arrived
      /\ \A n \in Keys : <<c, n>> \in arrived => n = l
  BY <1>1, <1>2 DEF Awaits, OpenPlace
<1>4. k = l /\ held[c] = {}
  BY <1>3 DEF TypeOK
<1>5. /\ \A d \in Callers : held'[d] = IF d = c THEN {} ELSE held[d]
      /\ UNCHANGED history
  BY <1>4 DEF Abort
<1>6. <<c, k>> \notin released
  BY <1>3 DEF OpenPlace
<1>7. released' = released \cup ({c} \X {k})
  BY <1>1
<1>8. /\ {k} \in SUBSET Keys /\ {k} # {}
      /\ \A n \in {k} : <<c, n>> \in arrived /\ <<c, n>> \notin released
      /\ \A n \in Keys \ {k} : <<c, n>> \notin arrived
  BY <1>3, <1>4, <1>6
<1> HIDE DEF IInv
<1>9. TypeOK
  BY DEF IInv
<1> QED BY <1>5, <1>7, <1>8, <1>9, ReleaseLeaves

\* The chain of promises implements first-come-first-served locks: every step
\* is a step of FifoLocks or one it does not see.
THEOREM Refinement == Spec => ImplementsLocks
<1>1. Init => Locks!Init
  BY DEF Init, Locks!Init, Present, Arrivals
<1>2. IInv /\ [Next]_vars => [Locks!Next]_(Locks!lockVars)
  <2> SUFFICES ASSUME IInv, [Next]_vars PROVE [Locks!Next]_(Locks!lockVars)
    OBVIOUS
  <2>1. ASSUME NEW c \in Callers, Acquire(c) PROVE Locks!Next
    BY <2>1, AcquireJoins DEF Locks!Next
  <2>2. ASSUME NEW c \in Callers, Grant(c) PROVE Locks!Next
    BY <2>2, GrantLocks DEF Locks!Next
  <2>3. ASSUME NEW c \in Callers, Finish(c) \/ Abort(c) PROVE Locks!Next
    BY <2>3, FinishLeaves, AbortLeaves DEF Locks!Next
  <2>4. CASE UNCHANGED <<held, released, history>>
    BY <2>4 DEF Locks!lockVars, Present, Arrivals, history
  <2>5. ASSUME NEW c \in Callers, NEW k \in Keys, SettleTail(c, k) \/ CleanTail(c, k)
        PROVE  UNCHANGED <<held, released, history>>
    BY <2>5 DEF SettleTail, CleanTail
  <2>6. CASE UNCHANGED vars
    BY <2>4, <2>6 DEF vars, promises
  <2> QED BY <2>1, <2>2, <2>3, <2>4, <2>5, <2>6 DEF Next, Reactions
<1> QED BY <1>1, <1>2, Inductive, PTL DEF Spec, ImplementsLocks, Locks!Spec
=============================================================================
