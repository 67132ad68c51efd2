-------------------------- MODULE OperationsProofs --------------------------
(***************************************************************************)
(* PendingIsWorkedOn, TerminalIsFinal, NoDanglingKey and KeysAreSound of   *)
(* Operations, for any number of clients, keys, operations, goroutines and *)
(* crashes, any failing puts and any vanishing sandboxes.                  *)
(*                                                                         *)
(* None is inductive.  An op has to be in one pair of hands from its first *)
(* put to its last (OneHand), and not settled while it is (CallerInv,      *)
(* WorkerInv): then nobody is left who could write it once it is done.     *)
(* What breaks this is a handler that runs the op its key already has,     *)
(* and that is what Own rules out: no handler ran the op once more.  The   *)
(* retry of a create does not get hold of an op, and an op a key names is  *)
(* an op of that key (StoreInv).                                           *)
(***************************************************************************)
EXTENDS Operations, FiniteSetTheorems, TLAPS

\* Most leaves are first-order; those that need more name SMTT.
\* The times are generous, so that no proof depends on how busy a machine is.
USE ZenonT(60)

Holds(c) == cpc[c] \in {"map", "run"}
Works(w) == wpc[w] # "idle"

\* No handler ran op o once more.
Own(o) == opstore[o].key \notin rerun

StoreInv ==
    /\ \A o \in OpIds : opstore[o] # None => o \in issued
    /\ NoDanglingKey

\* A handler has an op of its key in hand, and an op of its own kind to run.
CallerOf(c) ==
    /\ cpc[c] # "idle" => call[c] \in Handlers
    /\ cpc[c] \in {"map", "run", "existed", "clear"} =>
          cop[c] \in OpIds /\ opstore[cop[c]] # None /\ opstore[cop[c]].key = ckey[c]
    /\ cpc[c] \in {"map", "existed", "clear"} => ckey[c] # NoKey
    /\ cpc[c] \in {"existed", "clear"} => ccopy[c] # None
    /\ cpc[c] = "clear" => call[c] = "provision"
    /\ (Holds(c) /\ call[c] = "provision") => opstore[cop[c]].type = "provision"
    /\ (Holds(c) /\ Own(cop[c])) =>
          opstore[cop[c]].type = call[c] /\ opstore[cop[c]].state \notin Terminal

CallerInv == \A c \in Callers : CallerOf(c)

\* A goroutine works on a stored op, from a copy that agrees with it.
WorkerOf(w) ==
    /\ Works(w) =>
          /\ wop[w] \in OpIds /\ opstore[wop[w]] # None /\ wfn[w] \in Handlers
          /\ wfn[w] = "provision" => opstore[wop[w]].type = "provision"
          /\ Own(wop[w]) => opstore[wop[w]].type = wfn[w] /\ opstore[wop[w]].state \notin Terminal
    /\ wpc[w] \in {"mark", "fn", "finish"} =>
          /\ wcopy[w] \in OpRecords
          /\ wcopy[w].type = opstore[wop[w]].type /\ wcopy[w].key = opstore[wop[w]].key
    /\ wpc[w] \in {"mark", "fn"} => wcopy[w].state = "running"
    /\ wpc[w] = "finish" => wcopy[w].state \in Terminal

WorkerInv == \A w \in Workers : WorkerOf(w)

\* Nobody shares an op, unless a handler ran it once more.
OneHand ==
    /\ \A c, d \in Callers :
          (Holds(c) /\ Holds(d) /\ Own(cop[c]) /\ cop[c] = cop[d]) => c = d
    /\ \A c \in Callers, w \in Workers :
          (Holds(c) /\ Works(w) /\ Own(cop[c])) => cop[c] # wop[w]
    /\ \A w, v \in Workers :
          (Works(w) /\ Works(v) /\ Own(wop[w]) /\ wop[w] = wop[v]) => w = v

BootInv ==
    phase = "boot" => (\A c \in Callers : cpc[c] = "idle") /\ (\A w \in Workers : wpc[w] = "idle")

OpsInv ==
    OpsTypeOK /\ StoreInv /\ CallerInv /\ WorkerInv /\ OneHand /\ BootInv /\ PendingIsWorkedOn

-----------------------------------------------------------------------------

\* When nobody takes an op in hand, nobody comes to share one.
LEMMA FewerHands ==
    ASSUME OneHand,
           \A c \in Callers : Holds(c)' => Holds(c) /\ cop'[c] = cop[c] /\ (Own(cop[c])' => Own(cop[c])),
           \A w \in Workers : Works(w)' => Works(w) /\ wop'[w] = wop[w] /\ (Own(wop[w])' => Own(wop[w]))
    PROVE  OneHand'
<1>1. ASSUME NEW c \in Callers, NEW d \in Callers,
             Holds(c)', Holds(d)', Own(cop[c])', cop'[c] = cop'[d]
      PROVE  c = d
  BY <1>1 DEF OneHand
<1>2. ASSUME NEW c \in Callers, NEW w \in Workers, Holds(c)', Works(w)', Own(cop[c])'
      PROVE  cop'[c] # wop'[w]
  BY <1>2 DEF OneHand
<1>3. ASSUME NEW w \in Workers, NEW v \in Workers,
             Works(w)', Works(v)', Own(wop[w])', wop'[w] = wop'[v]
      PROVE  w = v
  BY <1>3 DEF OneHand
<1> QED BY <1>1, <1>2, <1>3 DEF OneHand

\* The same when only goroutines end and ops are written under their keys.
LEMMA HandsKept ==
    ASSUME OneHand, CallerInv, WorkerInv, UNCHANGED <<cpc, cop>>,
           \A o \in OpIds : Own(o)' => Own(o),
           \A w \in Workers : Works(w)' => Works(w) /\ wop'[w] = wop[w]
    PROVE  OneHand'
<1>1. \A c \in Callers : Holds(c)' => Holds(c) /\ cop'[c] = cop[c] /\ cop[c] \in OpIds
  BY DEF Holds, CallerInv, CallerOf
<1>2. \A w \in Workers : Works(w)' => Works(w) /\ wop'[w] = wop[w] /\ wop[w] \in OpIds
  BY DEF WorkerInv, WorkerOf
<1> QED BY <1>1, <1>2, FewerHands

\* An op that is not settled, and an op that someone will settle.
Unsettled(o) == opstore[o] # None /\ opstore[o].state \notin Terminal
WorkedOn(o) ==
    \/ \E c \in Callers : cop[c] = o /\ cpc[c] \in {"map", "run"}
    \/ \E w \in Workers : wop[w] = o /\ wpc[w] # "idle"

\* When every op that is not settled has someone at work on it, or was not
\* settled before and those at work on it go on, every op stays worked on.
LEMMA WorkGoesOn ==
    ASSUME PendingIsWorkedOn, phase' = phase,
           \A o \in OpIds \ unput' : Unsettled(o)' =>
             \/ WorkedOn(o)'
             \/ o \notin unput /\ Unsettled(o) /\ (WorkedOn(o) => WorkedOn(o)')
    PROVE  PendingIsWorkedOn'
<1>1. phase = "serving" => \A o \in OpIds \ unput : Unsettled(o) => WorkedOn(o)
  BY DEF PendingIsWorkedOn, Unsettled, WorkedOn
<1>2. phase' = "serving" => \A o \in OpIds \ unput' : Unsettled(o)' => WorkedOn(o)'
  BY <1>1
<1> QED BY <1>2 DEF PendingIsWorkedOn, Unsettled, WorkedOn

\* When nobody lets go of an op, and no new one appears, every op stays worked on.
LEMMA StillWorkedOn ==
    ASSUME PendingIsWorkedOn, UNCHANGED <<phase, opstore, unput>>,
           \A c \in Callers : Holds(c) => Holds(c)' /\ cop'[c] = cop[c],
           \A w \in Workers : Works(w) => Works(w)' /\ wop'[w] = wop[w]
    PROVE  PendingIsWorkedOn'
<1>1. \A o \in OpIds : (Unsettled(o)' <=> Unsettled(o)) /\ unput' = unput
  BY DEF Unsettled
<1>2. \A o \in OpIds : WorkedOn(o) => WorkedOn(o)'
  BY DEF WorkedOn, Holds, Works
<1> QED BY <1>1, <1>2, WorkGoesOn

\* Start finds the op of its key, or takes the mutex.
LEMMA StartGetKeeps ==
    ASSUME OpsInv, NEW c \in Callers, StartGet(c)
    PROVE  OpsInv'
<1> USE DEF StartGet, CGoto, store, callers, workers, history
<1>0. OpsTypeOK /\ StoreInv /\ CallerInv /\ WorkerInv /\ OneHand /\ BootInv /\ PendingIsWorkedOn
  BY DEF OpsInv
<1>1. OpsTypeOK'
  BY SMTT(60), <1>0, OperationsAssumption DEF OpsTypeOK, Mapped
<1>2. StoreInv'
  BY <1>0 DEF StoreInv, NoDanglingKey
<1>3. CallerInv'
  <2>1. CASE Mapped(ckey[c])
    <3>1. PICK o : o = idem[ckey[c]]
      OBVIOUS
    <3>2. o # None /\ o \in OpIds /\ opstore[o] # None /\ ckey[c] # NoKey /\ ckey[c] \in Keys
      BY SMTT(60), <1>0, <2>1, <3>1 DEF OpsTypeOK, Mapped
    <3>3. opstore[o].key = ckey[c]
      BY <1>0, <3>1, <3>2 DEF StoreInv, NoDanglingKey
    <3>5. /\ cpc[c] = "start" /\ cpc'[c] = "existed" /\ cop'[c] = o /\ ccopy'[c] = opstore[o]
          /\ UNCHANGED <<opstore, call, ckey, rerun>>
          /\ \A d \in Callers : d # c => cpc'[d] = cpc[d] /\ cop'[d] = cop[d] /\ ccopy'[d] = ccopy[d]
      BY <1>0, <2>1, <3>1 DEF OpsTypeOK
    <3> HIDE DEF StartGet
    <3> QED BY SMTT(60), <1>0, <3>2, <3>3, <3>5 DEF CallerInv, CallerOf, Holds, Own
  <2>2. CASE ~Mapped(ckey[c])
    BY SMTT(60), <1>0, <2>2 DEF OpsTypeOK, CallerInv, CallerOf, Holds, Own
  <2> QED BY <2>1, <2>2
<1>4. WorkerInv'
  BY <1>0 DEF WorkerInv, WorkerOf, Works, Own
<1>5. OneHand'
  BY SMTT(60), <1>0 DEF OpsTypeOK, OneHand, Holds, Works, Own
<1>6. BootInv'
  BY <1>0 DEF OpsTypeOK, BootInv
<1>7. PendingIsWorkedOn'
  BY SMTT(60), <1>0 DEF OpsTypeOK, PendingIsWorkedOn
<1> QED BY <1>1, <1>2, <1>3, <1>4, <1>5, <1>6, <1>7 DEF OpsInv

\* Start puts a new op, which nobody else knows of.
LEMMA StartPutKeeps ==
    ASSUME OpsInv, NEW c \in Callers, StartPut(c)
    PROVE  OpsInv'
<1> USE DEF CGoto, workers, history
<1>0. OpsTypeOK /\ StoreInv /\ CallerInv /\ WorkerInv /\ OneHand /\ BootInv /\ PendingIsWorkedOn
  BY DEF OpsInv
<1>1. CASE \E o \in OpIds \ issued :
            /\ issued' = issued \cup {o}
            /\ opstore' = [opstore EXCEPT ![o] = [type |-> call[c], state |-> "pending", key |-> ckey[c], sandbox |-> None]]
            /\ cop' = [cop EXCEPT ![c] = o]
            /\ IF ckey[c] = NoKey THEN CGoto(c, "run") /\ omu' = None
                                 ELSE CGoto(c, "map") /\ UNCHANGED omu
            /\ UNCHANGED <<call, ckey, ccopy, retry>>
  <2>1. PICK o \in OpIds \ issued :
            /\ issued' = issued \cup {o}
            /\ opstore' = [opstore EXCEPT ![o] = [type |-> call[c], state |-> "pending", key |-> ckey[c], sandbox |-> None]]
            /\ cop' = [cop EXCEPT ![c] = o]
            /\ IF ckey[c] = NoKey THEN CGoto(c, "run") /\ omu' = None
                                 ELSE CGoto(c, "map") /\ UNCHANGED omu
            /\ UNCHANGED <<call, ckey, ccopy, retry>>
    BY <1>1
  <2>2. call[c] \in Handlers /\ cpc[c] = "put"
    BY <1>0 DEF StartPut, CallerInv, CallerOf
  <2>3. call[c] \in Handlers /\ ckey[c] \in Keys \cup {NoKey}
    BY <1>0, <2>2 DEF OpsTypeOK
  <2> DEFINE r == [type |-> call[c], state |-> "pending", key |-> ckey[c], sandbox |-> None]
  <2>4. r \in OpRecords /\ r # None /\ r.state = "pending" /\ r.type = call[c] /\ r.key = ckey[c]
    BY SMTT(60), <2>3, OperationsAssumption DEF OpRecords, States
  <2>5. opstore' = [opstore EXCEPT ![o] = r]
    BY <2>1
  <2> HIDE DEF r
  <2>6. opstore[o] = None /\ opstore'[o] = r /\ \A p \in OpIds : p # o => opstore'[p] = opstore[p]
    <3>1. opstore[o] = None
      BY <1>0 DEF StoreInv
    <3>2. opstore \in [OpIds -> OpRecords \cup {None}]
      BY <1>0 DEF OpsTypeOK
    <3> QED BY <2>5, <3>1, <3>2
  <2>7. /\ cpc' = [cpc EXCEPT ![c] = IF ckey[c] = NoKey THEN "run" ELSE "map"]
        /\ cop' = [cop EXCEPT ![c] = o]
        /\ issued' = issued \cup {o}
        /\ omu' = IF ckey[c] = NoKey THEN None ELSE omu
        /\ UNCHANGED <<call, ckey, ccopy, retry>>
        /\ UNCHANGED <<idem, sandbox, phase, crashes, wpc, wfn, wop, wcopy, unput, stolen, rerun>>
    BY <2>1 DEF StartPut
  <2>8. /\ \A d \in Callers : Holds(d) => cop[d] # o
        /\ \A w \in Workers : Works(w) => wop[w] # o
    BY <1>0, <2>6 DEF CallerInv, CallerOf, WorkerInv, WorkerOf, Holds, Works, Own
  <2>9. OpsTypeOK'
    BY SMTT(60), <1>0, <2>2, <2>4, <2>5, <2>7, OperationsAssumption DEF OpsTypeOK
  <2>10. StoreInv'
    <3>1. NoDanglingKey'
      BY SMTT(60), <1>0, <2>6, <2>7 DEF OpsTypeOK, StoreInv, NoDanglingKey
    <3> QED BY <1>0, <2>2, <2>4, <2>6, <2>7, <3>1 DEF StoreInv
  <2>11. CallerInv'
    <3>1. \A d \in Callers : d # c => cpc'[d] = cpc[d] /\ cop'[d] = cop[d]
      BY <1>0, <2>7 DEF OpsTypeOK
    <3>2. cpc'[c] = (IF ckey[c] = NoKey THEN "run" ELSE "map") /\ cop'[c] = o
      BY <1>0, <2>7 DEF OpsTypeOK
    <3>3. "pending" \notin Terminal
      BY DEF Terminal
    <3> QED BY SMTT(60), <1>0, <2>1, <2>2, <2>4, <2>6, <2>7, <3>1, <3>2, <3>3 DEF CallerInv, CallerOf, Holds, Own
  <2>12. WorkerInv'
    BY SMTT(60), <1>0, <2>6, <2>7 DEF WorkerInv, WorkerOf, Works, Own
  <2>13. OneHand'
    <3>1. \A d \in Callers : d # c => cpc'[d] = cpc[d] /\ cop'[d] = cop[d]
      BY <1>0, <2>7 DEF OpsTypeOK
    <3>2. cop'[c] = o
      BY <1>0, <2>7 DEF OpsTypeOK
    <3>3. \A d \in Callers : d # c /\ Holds(d)' =>
            Holds(d) /\ cop'[d] = cop[d] /\ cop[d] # o /\ (Own(cop[d])' => Own(cop[d]))
      <4> SUFFICES ASSUME NEW d \in Callers, d # c, Holds(d)'
                   PROVE  Holds(d) /\ cop'[d] = cop[d] /\ cop[d] # o /\ (Own(cop[d])' => Own(cop[d]))
        OBVIOUS
      <4>1. Holds(d) /\ cop'[d] = cop[d] /\ cop[d] # o
        BY <2>8, <3>1 DEF Holds
      <4>2. cop[d] \in OpIds
        BY <1>0, <4>1 DEF CallerInv, CallerOf, Holds
      <4>3. opstore'[cop[d]] = opstore[cop[d]] /\ rerun' = rerun
        BY <2>6, <2>7, <4>1, <4>2
      <4> QED BY <4>1, <4>3 DEF Own
    <3>4. \A w \in Workers : Works(w)' =>
            Works(w) /\ wop'[w] = wop[w] /\ wop[w] # o /\ (Own(wop[w])' => Own(wop[w]))
      <4> SUFFICES ASSUME NEW w \in Workers, Works(w)'
                   PROVE  Works(w) /\ wop'[w] = wop[w] /\ wop[w] # o /\ (Own(wop[w])' => Own(wop[w]))
        OBVIOUS
      <4>1. Works(w) /\ wop'[w] = wop[w] /\ wop[w] # o
        BY <2>7, <2>8 DEF Works
      <4>2. wop[w] \in OpIds
        BY <1>0, <4>1 DEF WorkerInv, WorkerOf
      <4>3. opstore'[wop[w]] = opstore[wop[w]] /\ rerun' = rerun
        BY <2>6, <2>7, <4>1, <4>2
      <4> QED BY <4>1, <4>3 DEF Own
    <3>5. ASSUME NEW d \in Callers, NEW e \in Callers, Holds(d)', Holds(e)', Own(cop[d])', cop'[d] = cop'[e], d # e
          PROVE  FALSE
      BY <1>0, <3>2, <3>3, <3>5 DEF OneHand
    <3>6. ASSUME NEW d \in Callers, NEW w \in Workers, Holds(d)', Works(w)', Own(cop[d])', cop'[d] = wop'[w]
          PROVE  FALSE
      BY <1>0, <3>2, <3>3, <3>4, <3>6 DEF OneHand
    <3>7. ASSUME NEW w \in Workers, NEW v \in Workers, Works(w)', Works(v)', Own(wop[w])', wop'[w] = wop'[v]
          PROVE  w = v
      BY <1>0, <3>4, <3>7 DEF OneHand
    <3> QED BY <3>5, <3>6, <3>7 DEF OneHand
  <2>14. BootInv'
    BY <1>0, <2>2, <2>7 DEF BootInv
  <2>15. PendingIsWorkedOn'
    BY SMTT(60), <1>0, <2>2, <2>6, <2>7 DEF OpsTypeOK, PendingIsWorkedOn
  <2> QED BY <2>9, <2>10, <2>11, <2>12, <2>13, <2>14, <2>15 DEF OpsInv
<1>2. CASE PutsFail /\ omu' = None /\ CReturn(c) /\ UNCHANGED <<opstore, issued>>
  <2> USE <1>2 DEF CReturn
  <2>1. cpc[c] = "put" /\ UNCHANGED <<idem, sandbox, phase, crashes, wpc, wfn, wop, wcopy, unput, stolen, rerun>>
    BY DEF StartPut
  <2>2. OpsTypeOK'
    BY SMTT(60), <1>0, <2>1, OperationsAssumption DEF OpsTypeOK
  <2>3. StoreInv'
    BY <1>0, <2>1 DEF StoreInv, NoDanglingKey
  <2>4. CallerInv'
    BY SMTT(60), <1>0, <2>1 DEF OpsTypeOK, CallerInv, CallerOf, Holds, Own
  <2>5. WorkerInv'
    BY <1>0, <2>1 DEF WorkerInv, WorkerOf, Works, Own
  <2>6. OneHand'
    BY SMTT(60), <1>0, <2>1 DEF OpsTypeOK, OneHand, Holds, Works, Own
  <2>7. BootInv'
    BY <1>0, <2>1 DEF BootInv
  <2>8. PendingIsWorkedOn'
    BY SMTT(60), <1>0, <2>1 DEF OpsTypeOK, PendingIsWorkedOn
  <2> QED BY <2>2, <2>3, <2>4, <2>5, <2>6, <2>7, <2>8 DEF OpsInv
<1> QED BY <1>1, <1>2 DEF StartPut

\* Start maps its key to the op, which is one of that key.
LEMMA StartMapKeeps ==
    ASSUME OpsInv, NEW c \in Callers, StartMap(c)
    PROVE  OpsInv'
<1> USE DEF CGoto, CReturn, workers
<1>0. OpsTypeOK /\ StoreInv /\ CallerInv /\ WorkerInv /\ OneHand /\ BootInv /\ PendingIsWorkedOn
  BY DEF OpsInv
<1>1. cpc[c] = "map" /\ omu' = None
      /\ UNCHANGED <<opstore, issued, sandbox, phase, crashes, wpc, wfn, wop, wcopy, stolen, rerun>>
  BY DEF StartMap
<1>2. /\ cop[c] \in OpIds /\ opstore[cop[c]] # None /\ opstore[cop[c]].key = ckey[c]
      /\ ckey[c] \in Keys
  <2>1. cop[c] \in OpIds /\ opstore[cop[c]] # None /\ opstore[cop[c]].key = ckey[c] /\ ckey[c] # NoKey
    BY <1>0, <1>1 DEF CallerInv, CallerOf
  <2>2. ckey[c] \in Keys \cup {NoKey}
    BY <1>0 DEF OpsTypeOK
  <2> QED BY <2>1, <2>2
<1>5. WorkerInv'
  BY <1>0, <1>1 DEF WorkerInv, WorkerOf, Works, Own
<1>6. BootInv'
  BY <1>0, <1>1 DEF BootInv
<1>3. CASE /\ idem' = [idem EXCEPT ![ckey[c]] = cop[c]]
           /\ CGoto(c, "run")
           /\ UNCHANGED <<call, ckey, cop, ccopy, retry>>
           /\ UNCHANGED unput
  <2> USE <1>3
  <2>1. OpsTypeOK'
    BY SMTT(60), <1>0, <1>1, <1>2, OperationsAssumption DEF OpsTypeOK
  <2>2. StoreInv'
    <3>1. idem'[ckey[c]] = cop[c] /\ \A k \in Keys : k # ckey[c] => idem'[k] = idem[k]
      BY <1>0, <1>2 DEF OpsTypeOK
    <3> QED BY <1>0, <1>1, <1>2, <3>1 DEF StoreInv, NoDanglingKey
  <2>3. CallerInv'
    BY SMTT(60), <1>0, <1>1 DEF OpsTypeOK, CallerInv, CallerOf, Holds, Own
  <2>4. OneHand'
    BY SMTT(60), <1>0, <1>1 DEF OpsTypeOK, OneHand, Holds, Works, Own
  <2>5. PendingIsWorkedOn'
    BY SMTT(60), <1>0, <1>1 DEF OpsTypeOK, PendingIsWorkedOn
  <2> QED BY <1>5, <1>6, <2>1, <2>2, <2>3, <2>4, <2>5 DEF OpsInv
<1>4. CASE PutsFail /\ CReturn(c) /\ unput' = unput \cup {cop[c]} /\ UNCHANGED idem
  <2> USE <1>4
  <2>1. OpsTypeOK'
    BY SMTT(60), <1>0, <1>1, <1>2, OperationsAssumption DEF OpsTypeOK
  <2>2. StoreInv'
    BY <1>0, <1>1 DEF StoreInv, NoDanglingKey
  <2>3. CallerInv'
    BY SMTT(60), <1>0, <1>1 DEF OpsTypeOK, CallerInv, CallerOf, Holds, Own
  <2>4. OneHand'
    BY SMTT(60), <1>0, <1>1 DEF OpsTypeOK, OneHand, Holds, Works, Own
  <2>5. PendingIsWorkedOn'
    BY <1>0, <1>1 DEF OpsTypeOK, PendingIsWorkedOn
  <2> QED BY <1>5, <1>6, <2>1, <2>2, <2>3, <2>4, <2>5 DEF OpsInv
<1> QED BY <1>3, <1>4 DEF StartMap

\* A handler answers with the op its key has, drops it as stale, or runs it.
LEMMA ExistedKeeps ==
    ASSUME OpsInv, NEW c \in Callers, Existed(c)
    PROVE  OpsInv'
<1> USE DEF CGoto, CReturn, workers, store, history
<1>0. OpsTypeOK /\ StoreInv /\ CallerInv /\ WorkerInv /\ OneHand /\ BootInv /\ PendingIsWorkedOn
  BY DEF OpsInv
<1>1. cpc[c] = "existed"
      /\ UNCHANGED <<opstore, idem, omu, issued, sandbox, phase, crashes, wpc, wfn, wop, wcopy, unput, stolen>>
  BY DEF Existed
<1>2. PICK label \in {"run", "clear", "idle"} :
        /\ cpc' = [cpc EXCEPT ![c] = label]
        /\ label = "run" => call[c] = "agent-run" /\ rerun' = rerun \cup {ckey[c]}
        /\ label # "run" => rerun' = rerun
        /\ label = "clear" => call[c] = "provision"
        /\ label # "idle" => UNCHANGED <<call, ckey, cop, ccopy, retry>>
        /\ label = "idle" =>
              /\ call' = [call EXCEPT ![c] = None] /\ ckey' = [ckey EXCEPT ![c] = NoKey]
              /\ cop' = [cop EXCEPT ![c] = None] /\ ccopy' = [ccopy EXCEPT ![c] = None]
              /\ retry' = [retry EXCEPT ![c] = FALSE]
  BY DEF Existed
<1>3. OpsTypeOK'
  <2>0. rerun' \subseteq Keys
    <3>1. rerun \subseteq Keys /\ ckey[c] \in Keys \cup {NoKey} /\ ckey[c] # NoKey
      BY <1>0, <1>1 DEF OpsTypeOK, CallerInv, CallerOf
    <3> QED BY <1>2, <3>1
  <2>1. CASE label = "idle"
    <3>1. /\ cpc' = [cpc EXCEPT ![c] = "idle"]
          /\ call' = [call EXCEPT ![c] = None] /\ ckey' = [ckey EXCEPT ![c] = NoKey]
          /\ cop' = [cop EXCEPT ![c] = None] /\ ccopy' = [ccopy EXCEPT ![c] = None]
          /\ retry' = [retry EXCEPT ![c] = FALSE]
      BY <1>2, <2>1
    <3> QED BY SMTT(60), <1>0, <1>1, <2>0, <3>1, OperationsAssumption DEF OpsTypeOK
  <2>2. CASE label # "idle"
    <3>1. cpc' = [cpc EXCEPT ![c] = label] /\ UNCHANGED <<call, ckey, cop, ccopy, retry>>
      BY <1>2, <2>2
    <3> QED BY SMTT(60), <1>0, <1>1, <2>0, <3>1, OperationsAssumption DEF OpsTypeOK
  <2> QED BY <2>1, <2>2
<1>4. StoreInv'
  BY <1>0, <1>1 DEF StoreInv, NoDanglingKey
<1>5. /\ cpc'[c] = label
      /\ label # "idle" => call'[c] = call[c] /\ ckey'[c] = ckey[c] /\ cop'[c] = cop[c] /\ ccopy'[c] = ccopy[c]
      /\ \A d \in Callers : d # c => /\ cpc'[d] = cpc[d] /\ call'[d] = call[d] /\ ckey'[d] = ckey[d]
                                     /\ cop'[d] = cop[d] /\ ccopy'[d] = ccopy[d]
  <2>1. CASE label = "idle"
    BY <1>0, <1>2, <2>1 DEF OpsTypeOK
  <2>2. CASE label # "idle"
    BY <1>0, <1>2, <2>2 DEF OpsTypeOK
  <2> QED BY <2>1, <2>2
<1>6. CallerInv'
  <2>1. \A o : Own(o)' => Own(o)
    BY <1>1, <1>2 DEF Own
  <2>2. ASSUME NEW d \in Callers, d # c PROVE CallerOf(d)'
    <3>1. CallerOf(d) /\ opstore' = opstore
      BY <1>0, <1>1 DEF CallerInv
    <3> QED BY <1>5, <2>1, <2>2, <3>1 DEF CallerOf, Holds
  <2>3. CallerOf(c)'
    <3>1. CallerOf(c) /\ opstore' = opstore
      BY <1>0, <1>1 DEF CallerInv
    <3>2. label = "run" => rerun' = rerun \cup {ckey[c]} /\ call[c] = "agent-run"
      BY <1>2
    <3>3. label = "clear" => call[c] = "provision"
      BY <1>2
    <3> QED BY <1>1, <1>5, <3>1, <3>2, <3>3 DEF CallerOf, Holds, Own
  <2> QED BY <2>2, <2>3 DEF CallerInv
<1>7. WorkerInv'
  <2>1. \A o : Own(o)' => Own(o)
    BY <1>1, <1>2 DEF Own
  <2>2. ASSUME NEW w \in Workers PROVE WorkerOf(w)'
    <3>1. WorkerOf(w) /\ UNCHANGED <<opstore, wpc, wfn, wop, wcopy>>
      BY <1>0, <1>1 DEF WorkerInv
    <3> QED BY <2>1, <3>1 DEF WorkerOf, Works
  <2> QED BY <2>2 DEF WorkerInv
<1>8. OneHand'
  <2>1. \A d \in Callers : d # c /\ Holds(d)' => Holds(d) /\ cop'[d] = cop[d]
    BY <1>5 DEF Holds
  <2>2. \A o : Own(o)' => Own(o)
    BY <1>1, <1>2 DEF Own
  <2>3. Holds(c)' => cop'[c] = cop[c] /\ \A o : o = cop[c] => ~Own(o)'
    <3>1. opstore[cop[c]].key = ckey[c]
      BY <1>0, <1>1 DEF CallerInv, CallerOf
    <3>2. Holds(c)' => label = "run"
      BY <1>5 DEF Holds
    <3> QED BY <1>1, <1>2, <1>5, <3>1, <3>2 DEF Own
  <2>4. ASSUME NEW d \in Callers, NEW e \in Callers, Holds(d)', Holds(e)', Own(cop[d])', cop'[d] = cop'[e]
        PROVE  d = e
    <3>1. d # c /\ e # c
      BY <2>3, <2>4
    <3> QED BY <1>0, <2>1, <2>2, <2>4, <3>1 DEF OneHand
  <2>5. ASSUME NEW d \in Callers, NEW w \in Workers, Holds(d)', Works(w)', Own(cop[d])'
        PROVE  cop'[d] # wop'[w]
    <3>1. d # c
      BY <2>3, <2>5
    <3>2. Works(w) /\ wop'[w] = wop[w]
      BY <1>1, <2>5 DEF Works
    <3> QED BY <1>0, <2>1, <2>2, <2>5, <3>1, <3>2 DEF OneHand
  <2>6. ASSUME NEW w \in Workers, NEW v \in Workers, Works(w)', Works(v)', Own(wop[w])', wop'[w] = wop'[v]
        PROVE  w = v
    <3>1. Works(w) /\ Works(v) /\ wop' = wop
      BY <1>1, <2>6 DEF Works
    <3> QED BY <1>0, <2>2, <2>6, <3>1 DEF OneHand
  <2> QED BY <2>4, <2>5, <2>6 DEF OneHand
<1>9. BootInv'
  BY <1>0, <1>1 DEF BootInv
<1>10. PendingIsWorkedOn'
  <2>1. ~Holds(c)
    BY <1>1 DEF Holds
  <2> QED BY <1>0, <1>1, <1>5, <2>1, StillWorkedOn DEF Holds, Works
<1> QED BY <1>3, <1>4, <1>6, <1>7, <1>8, <1>9, <1>10 DEF OpsInv

\* A retry drops the mapping of its key.
LEMMA ClearIdempotencyKeeps ==
    ASSUME OpsInv, NEW c \in Callers, ClearIdempotency(c)
    PROVE  OpsInv'
<1> USE DEF CGoto, workers
<1>0. OpsTypeOK /\ StoreInv /\ CallerInv /\ WorkerInv /\ OneHand /\ BootInv /\ PendingIsWorkedOn
  BY DEF OpsInv
<1>1. /\ cpc[c] = "clear" /\ cpc' = [cpc EXCEPT ![c] = "start"]
      /\ idem' = [idem EXCEPT ![ckey[c]] = None]
      /\ retry' = [retry EXCEPT ![c] = TRUE]
      /\ stolen' = stolen \/ stolen' = stolen \cup {ckey[c]}
      /\ UNCHANGED <<opstore, omu, issued, sandbox, phase, crashes, call, ckey, cop, ccopy, wpc, wfn, wop, wcopy, unput, rerun>>
  BY DEF ClearIdempotency
<1>2. ckey[c] \in Keys
  <2>1. ckey[c] # NoKey
    BY <1>0, <1>1 DEF CallerInv, CallerOf
  <2>2. ckey[c] \in Keys \cup {NoKey}
    BY <1>0 DEF OpsTypeOK
  <2> QED BY <2>1, <2>2
<1>3. OpsTypeOK'
  BY SMTT(60), <1>0, <1>1, <1>2, OperationsAssumption DEF OpsTypeOK
<1>4. StoreInv'
  <2>1. \A k \in Keys : idem'[k] # None => idem'[k] = idem[k]
    BY <1>0, <1>1 DEF OpsTypeOK
  <2> QED BY <1>0, <1>1, <2>1 DEF StoreInv, NoDanglingKey
<1>5. CallerInv'
  BY SMTT(60), <1>0, <1>1 DEF OpsTypeOK, CallerInv, CallerOf, Holds, Own
<1>6. WorkerInv'
  BY <1>0, <1>1 DEF WorkerInv, WorkerOf, Works, Own
<1>7. OneHand'
  BY SMTT(60), <1>0, <1>1 DEF OpsTypeOK, OneHand, Holds, Works, Own
<1>8. BootInv'
  BY <1>0, <1>1 DEF BootInv
<1>9. PendingIsWorkedOn'
  BY SMTT(60), <1>0, <1>1 DEF OpsTypeOK, PendingIsWorkedOn
<1> QED BY <1>3, <1>4, <1>5, <1>6, <1>7, <1>8, <1>9 DEF OpsInv

\* A handler gives its op to a goroutine.
LEMMA RunKeeps ==
    ASSUME OpsInv, NEW c \in Callers, Run(c)
    PROVE  OpsInv'
<1>0. OpsTypeOK /\ StoreInv /\ CallerInv /\ WorkerInv /\ OneHand /\ BootInv /\ PendingIsWorkedOn
  BY DEF OpsInv
<1>1. /\ cpc[c] = "run" /\ cpc' = [cpc EXCEPT ![c] = "idle"]
      /\ call' = [call EXCEPT ![c] = None] /\ ckey' = [ckey EXCEPT ![c] = NoKey]
      /\ cop' = [cop EXCEPT ![c] = None] /\ ccopy' = [ccopy EXCEPT ![c] = None]
      /\ retry' = [retry EXCEPT ![c] = FALSE]
      /\ UNCHANGED <<opstore, idem, omu, issued, sandbox, phase, crashes, wcopy, unput, stolen, rerun>>
  BY DEF Run, CReturn, CGoto, store, history
<1>2. PICK w \in Workers :
        /\ wpc[w] = "idle" /\ wpc' = [wpc EXCEPT ![w] = "get"]
        /\ wfn' = [wfn EXCEPT ![w] = call[c]] /\ wop' = [wop EXCEPT ![w] = cop[c]]
  BY DEF Run, WGoto
<1>3. /\ cop[c] \in OpIds /\ opstore[cop[c]] # None /\ call[c] \in Handlers
      /\ call[c] = "provision" => opstore[cop[c]].type = "provision"
      /\ Own(cop[c]) => opstore[cop[c]].type = call[c] /\ opstore[cop[c]].state \notin Terminal
      /\ Holds(c)
  BY <1>0, <1>1 DEF CallerInv, CallerOf, Holds
<1>4. OpsTypeOK'
  BY SMTT(60), <1>0, <1>1, <1>2, OperationsAssumption DEF OpsTypeOK
<1>5. StoreInv'
  BY <1>0, <1>1 DEF StoreInv, NoDanglingKey
<1>6. CallerInv'
  <2> SUFFICES ASSUME NEW d \in Callers PROVE CallerOf(d)' BY DEF CallerInv
  <2>1. opstore' = opstore /\ rerun' = rerun /\ CallerOf(d)
    BY <1>0, <1>1 DEF CallerInv
  <2>2. \/ /\ cpc'[d] = cpc[d] /\ call'[d] = call[d] /\ ckey'[d] = ckey[d]
           /\ cop'[d] = cop[d] /\ ccopy'[d] = ccopy[d]
        \/ cpc'[d] = "idle"
    BY <1>0, <1>1 DEF OpsTypeOK
  <2> QED BY <2>1, <2>2 DEF CallerOf, Holds, Own
<1>7. /\ wpc'[w] = "get" /\ wop'[w] = cop[c] /\ wfn'[w] = call[c]
      /\ \A v \in Workers : v # w => wpc'[v] = wpc[v] /\ wop'[v] = wop[v] /\ wfn'[v] = wfn[v]
  BY <1>0, <1>2 DEF OpsTypeOK
<1>8. WorkerInv'
  <2> SUFFICES ASSUME NEW v \in Workers PROVE WorkerOf(v)' BY DEF WorkerInv
  <2>1. UNCHANGED <<opstore, wcopy, rerun>>
    BY <1>1
  <2>2. CASE v # w
    <3>1. WorkerOf(v)
      BY <1>0 DEF WorkerInv
    <3> QED BY <1>7, <2>1, <2>2, <3>1 DEF WorkerOf, Works, Own
  <2>3. CASE v = w
    BY <1>3, <1>7, <2>1, <2>3 DEF WorkerOf, Works, Own
  <2> QED BY <2>2, <2>3
<1>9. OneHand'
  <2>1. \A d \in Callers : Holds(d)' => d # c /\ Holds(d) /\ cop'[d] = cop[d]
    BY <1>0, <1>1 DEF OpsTypeOK, Holds
  <2>2. \A v \in Workers : Works(v)' /\ v # w => Works(v) /\ wop'[v] = wop[v]
    BY <1>7 DEF Works
  <2>3. \A o : Own(o)' => Own(o)
    BY <1>1 DEF Own
  <2>4. \A d \in Callers : Holds(d) /\ d # c /\ Own(cop[c]) => cop[d] # cop[c]
    BY <1>0, <1>3 DEF OneHand
  <2>5. \A v \in Workers : Works(v) /\ Own(cop[c]) => wop[v] # cop[c]
    BY <1>0, <1>3 DEF OneHand
  <2>6. ASSUME NEW d \in Callers, NEW e \in Callers, Holds(d)', Holds(e)', Own(cop[d])', cop'[d] = cop'[e]
        PROVE  d = e
    BY <1>0, <2>1, <2>3, <2>6 DEF OneHand
  <2>7. ASSUME NEW d \in Callers, NEW v \in Workers, Holds(d)', Works(v)', Own(cop[d])', cop'[d] = wop'[v]
        PROVE  FALSE
    <3>1. Holds(d) /\ d # c /\ cop'[d] = cop[d] /\ Own(cop[d])
      BY <2>1, <2>3, <2>7
    <3>2. CASE v = w
      BY <1>7, <2>4, <2>7, <3>1, <3>2
    <3>3. CASE v # w
      BY <1>0, <2>2, <2>7, <3>1, <3>3 DEF OneHand
    <3> QED BY <3>2, <3>3
  <2>8. ASSUME NEW v \in Workers, NEW u \in Workers, Works(v)', Works(u)', Own(wop[v])', wop'[v] = wop'[u], v # u
        PROVE  FALSE
    <3>1. Own(wop'[v])
      BY <2>3, <2>8
    <3>2. CASE v # w /\ u # w
      BY <1>0, <2>2, <2>8, <3>1, <3>2 DEF OneHand
    <3>3. CASE v = w
      BY <1>7, <2>2, <2>5, <2>8, <3>1, <3>3
    <3>4. CASE u = w
      BY <1>7, <2>2, <2>5, <2>8, <3>1, <3>4
    <3> QED BY <3>2, <3>3, <3>4
  <2> QED BY <2>6, <2>7, <2>8 DEF OneHand
<1>10. BootInv'
  BY <1>0, <1>1 DEF BootInv
<1>11. PendingIsWorkedOn'
  <2>1. \A d \in Callers : d # c => cpc'[d] = cpc[d] /\ cop'[d] = cop[d]
    BY <1>0, <1>1 DEF OpsTypeOK
  <2>2. wpc[w] = "idle" /\ UNCHANGED <<phase, opstore, unput>>
    BY <1>1, <1>2
  <2> SUFFICES ASSUME phase = "serving", NEW o \in OpIds \ unput,
                      opstore[o] # None, opstore[o].state \notin Terminal
               PROVE  \/ \E d \in Callers : cop'[d] = o /\ cpc'[d] \in {"map", "run"}
                      \/ \E v \in Workers : wop'[v] = o /\ wpc'[v] # "idle"
    BY <2>2 DEF PendingIsWorkedOn
  <2>3. CASE \E d \in Callers : cop[d] = o /\ cpc[d] \in {"map", "run"}
    BY <1>7, <2>1, <2>3
  <2>4. CASE \E v \in Workers : wop[v] = o /\ wpc[v] # "idle"
    BY <1>7, <2>2, <2>4
  <2> QED BY <1>0, <2>3, <2>4 DEF PendingIsWorkedOn
<1> QED BY <1>4, <1>5, <1>6, <1>8, <1>9, <1>10, <1>11 DEF OpsInv

\* The copy Run takes of its op differs from it in its state only.
LEMMA StateUpdate ==
    ASSUME NEW r \in OpRecords, NEW st \in States
    PROVE  /\ [r EXCEPT !.state = st] \in OpRecords
           /\ [r EXCEPT !.state = st].state = st
           /\ [r EXCEPT !.state = st].type = r.type
           /\ [r EXCEPT !.state = st].key = r.key
<1>1. [r EXCEPT !.state = st] \in OpRecords
  BY DEF OpRecords
<1> QED BY <1>1 DEF OpRecords

\* A goroutine reads its op.
LEMMA RunGetKeeps ==
    ASSUME OpsInv, NEW w \in Workers, RunGet(w)
    PROVE  OpsInv'
<1>0. OpsTypeOK /\ StoreInv /\ CallerInv /\ WorkerInv /\ OneHand /\ BootInv /\ PendingIsWorkedOn
  BY DEF OpsInv
<1> DEFINE r == [opstore[wop[w]] EXCEPT !.state = "running"]
<1>1. /\ wpc[w] = "get" /\ wpc' = [wpc EXCEPT ![w] = "mark"] /\ wcopy' = [wcopy EXCEPT ![w] = r]
      /\ UNCHANGED <<opstore, idem, omu, issued, sandbox, phase, crashes, cpc, call, ckey, cop, ccopy, retry,
                     wfn, wop, unput, stolen, rerun>>
  BY DEF RunGet, WGoto, store, callers, history
<1>2. wop[w] \in OpIds /\ opstore[wop[w]] # None
  BY <1>0, <1>1 DEF WorkerInv, WorkerOf, Works, Own
<1>3. opstore[wop[w]] \in OpRecords
  BY SMTT(60), <1>0, <1>2 DEF OpsTypeOK
<1>4. r \in OpRecords /\ r.state = "running" /\ r.type = opstore[wop[w]].type /\ r.key = opstore[wop[w]].key
  <2>1. "running" \in States
    BY DEF States
  <2> QED BY <1>2, <1>3, <2>1, StateUpdate
<1> HIDE DEF r
<1>5. OpsTypeOK'
  BY <1>0, <1>1, <1>4 DEF OpsTypeOK
<1>6. StoreInv'
  BY <1>0, <1>1 DEF StoreInv, NoDanglingKey
<1>7. CallerInv'
  BY <1>0, <1>1 DEF CallerInv, CallerOf, Holds, Own
<1>8. /\ wpc'[w] = "mark" /\ wcopy'[w] = r
      /\ \A v \in Workers : v # w => wpc'[v] = wpc[v] /\ wcopy'[v] = wcopy[v]
  BY <1>0, <1>1 DEF OpsTypeOK
<1>9. WorkerInv'
  <2> SUFFICES ASSUME NEW v \in Workers PROVE WorkerOf(v)' BY DEF WorkerInv
  <2>1. CASE v # w
    <3>1. WorkerOf(v)
      BY <1>0 DEF WorkerInv
    <3>2. UNCHANGED <<opstore, wop, wfn, rerun>> /\ wpc'[v] = wpc[v] /\ wcopy'[v] = wcopy[v]
      BY <1>1, <1>8, <2>1
    <3> QED BY <3>1, <3>2 DEF WorkerOf, Works, Own
  <2>2. CASE v = w
    <3>1. WorkerOf(w) /\ Works(w)
      BY <1>0, <1>1 DEF WorkerInv, Works
    <3>2. UNCHANGED <<opstore, wop, wfn, rerun>> /\ wpc'[w] = "mark" /\ wcopy'[w] = r
      BY <1>1, <1>8
    <3> QED BY <1>4, <2>2, <3>1, <3>2 DEF WorkerOf, Works, Own
  <2> QED BY <2>1, <2>2
<1>10. OneHand'
  BY <1>0, <1>1, <1>8, FewerHands DEF Holds, Works, Own
<1>11. BootInv'
  BY <1>0, <1>1 DEF BootInv
<1>12. PendingIsWorkedOn'
  BY <1>0, <1>1, <1>8, StillWorkedOn DEF Holds, Works
<1> QED BY <1>5, <1>6, <1>7, <1>9, <1>10, <1>11, <1>12 DEF OpsInv

\* What RunMark and RunFinish share: the op is put with its kind and its key
\* kept, or the put fails and the op is left as it was.
LEMMA PutKeeps ==
    ASSUME OpsTypeOK, StoreInv, CallerInv, WorkerInv, OneHand,
           NEW w \in Workers, wpc[w] \in {"mark", "finish"}, PutOrFail(wop[w], wcopy[w]),
           UNCHANGED <<idem, issued, cpc, call, ckey, cop, ccopy, rerun>>
    PROVE  /\ opstore' \in [OpIds -> OpRecords \cup {None}]
           /\ unput' \in SUBSET OpIds
           /\ StoreInv'
           /\ CallerInv'
           /\ \A o \in OpIds : o # wop[w] => opstore'[o] = opstore[o]
           /\ opstore'[wop[w]] # None
           /\ opstore'[wop[w]].type = opstore[wop[w]].type
           /\ opstore'[wop[w]].key = opstore[wop[w]].key
           /\ opstore'[wop[w]] = wcopy[w] \/ (opstore' = opstore /\ wop[w] \in unput')
           /\ unput \subseteq unput'
<1>1. /\ wop[w] \in OpIds /\ opstore[wop[w]] # None
      /\ wcopy[w] \in OpRecords
      /\ wcopy[w].type = opstore[wop[w]].type /\ wcopy[w].key = opstore[wop[w]].key
      /\ Works(w)
  BY DEF WorkerInv, WorkerOf, Works, Own
<1>2. opstore \in [OpIds -> OpRecords \cup {None}] /\ unput \subseteq OpIds
  BY DEF OpsTypeOK
<1>3. wcopy[w] # None
  BY <1>1, OperationsAssumption
<1>4. \/ opstore' = [opstore EXCEPT ![wop[w]] = wcopy[w]] /\ unput' = unput
      \/ opstore' = opstore /\ unput' = unput \cup {wop[w]}
  BY DEF PutOrFail
<1>5. /\ opstore' \in [OpIds -> OpRecords \cup {None}] /\ unput' \in SUBSET OpIds
      /\ \A o \in OpIds : o # wop[w] => opstore'[o] = opstore[o]
      /\ opstore'[wop[w]] # None
      /\ opstore'[wop[w]].type = opstore[wop[w]].type /\ opstore'[wop[w]].key = opstore[wop[w]].key
      /\ opstore'[wop[w]] = wcopy[w] \/ (opstore' = opstore /\ wop[w] \in unput')
      /\ unput \subseteq unput'
  BY <1>1, <1>2, <1>3, <1>4
<1>6. \A o \in OpIds : /\ opstore'[o] # None <=> opstore[o] # None
                       /\ opstore'[o] # None =>
                             opstore'[o].type = opstore[o].type /\ opstore'[o].key = opstore[o].key
  BY <1>1, <1>5
<1>7. idem \in [Keys -> OpIds \cup {None}]
  BY DEF OpsTypeOK
<1>8. StoreInv'
  BY <1>6, <1>7 DEF StoreInv, NoDanglingKey
<1>9. \A c \in Callers : Holds(c) /\ Own(cop[c]) => cop[c] # wop[w]
  BY <1>1 DEF OneHand
<1>10. CallerInv'
  <2>1. \A c \in Callers : Holds(c) /\ Own(cop[c]) => opstore'[cop[c]] = opstore[cop[c]]
    BY <1>5, <1>9 DEF CallerInv, CallerOf, Holds
  <2>2. \A c \in Callers : Holds(c) /\ Own(cop[c])' => Own(cop[c])
    BY <1>6 DEF CallerInv, CallerOf, Holds, Own
  <2> SUFFICES ASSUME NEW c \in Callers PROVE CallerOf(c)' BY DEF CallerInv
  <2>3. CallerOf(c) /\ UNCHANGED <<cpc, call, ckey, cop, ccopy>>
    BY DEF CallerInv
  <2>4. (Holds(c)' <=> Holds(c)) /\ (Holds(c) => cpc[c] \in {"map", "run", "existed", "clear"})
    BY <2>3 DEF Holds
  <2> QED BY <1>6, <2>1, <2>2, <2>3, <2>4 DEF CallerOf
<1> QED BY <1>5, <1>8, <1>10

\* A goroutine marks its op as running.
LEMMA RunMarkKeeps ==
    ASSUME OpsInv, NEW w \in Workers, RunMark(w)
    PROVE  OpsInv'
<1>0. OpsTypeOK /\ StoreInv /\ CallerInv /\ WorkerInv /\ OneHand /\ BootInv /\ PendingIsWorkedOn
  BY DEF OpsInv
<1>1. /\ wpc[w] = "mark" /\ wpc' = [wpc EXCEPT ![w] = "fn"] /\ PutOrFail(wop[w], wcopy[w])
      /\ UNCHANGED <<idem, omu, issued, sandbox, phase, crashes, cpc, call, ckey, cop, ccopy, retry,
                     wfn, wop, wcopy, stolen, rerun>>
  BY DEF RunMark, WGoto, callers
<1>2. /\ opstore' \in [OpIds -> OpRecords \cup {None}] /\ unput' \in SUBSET OpIds
      /\ StoreInv' /\ CallerInv'
      /\ \A o \in OpIds : o # wop[w] => opstore'[o] = opstore[o]
      /\ opstore'[wop[w]] # None
      /\ opstore'[wop[w]].type = opstore[wop[w]].type /\ opstore'[wop[w]].key = opstore[wop[w]].key
      /\ opstore'[wop[w]] = wcopy[w] \/ opstore' = opstore
      /\ unput \subseteq unput'
  BY <1>0, <1>1, PutKeeps
<1>3. wpc'[w] = "fn" /\ \A v \in Workers : v # w => wpc'[v] = wpc[v]
  BY <1>0, <1>1 DEF OpsTypeOK
<1>4. OpsTypeOK'
  <2>1. wpc' \in [Workers -> {"idle", "get", "mark", "fn", "finish"}]
    BY <1>0, <1>1 DEF OpsTypeOK
  <2> QED BY <1>0, <1>1, <1>2, <2>1 DEF OpsTypeOK
<1>5. Works(w) /\ wop[w] \in OpIds /\ wcopy[w].state = "running"
  BY <1>0, <1>1 DEF WorkerInv, WorkerOf, Works, Own
<1>6. WorkerInv'
  <2>1. \A v \in Workers : Works(v) =>
          /\ wop[v] \in OpIds /\ opstore'[wop[v]] # None /\ opstore'[wop[v]].type = opstore[wop[v]].type
          /\ opstore'[wop[v]].key = opstore[wop[v]].key
    <3> SUFFICES ASSUME NEW v \in Workers, Works(v)
                 PROVE  /\ wop[v] \in OpIds /\ opstore'[wop[v]] # None /\ opstore'[wop[v]].type = opstore[wop[v]].type
                        /\ opstore'[wop[v]].key = opstore[wop[v]].key
      OBVIOUS
    <3>1. WorkerOf(v) /\ WorkerOf(w)
      BY <1>0 DEF WorkerInv
    <3>2. CASE wop[v] = wop[w]
      BY <1>2, <1>5, <3>1, <3>2 DEF WorkerOf
    <3>3. CASE wop[v] # wop[w]
      BY <1>2, <3>1, <3>3 DEF WorkerOf
    <3> QED BY <3>2, <3>3
  <2>2. \A v \in Workers : Works(v) /\ Own(wop[v]) => opstore'[wop[v]].state \notin Terminal
    <3>1. "running" \notin Terminal
      BY DEF Terminal
    <3> SUFFICES ASSUME NEW v \in Workers, Works(v), Own(wop[v])
                 PROVE  opstore'[wop[v]].state \notin Terminal
      OBVIOUS
    <3>2. opstore[wop[v]].state \notin Terminal /\ wop[v] \in OpIds
      BY <1>0 DEF WorkerInv, WorkerOf
    <3>3. CASE wop[v] = wop[w]
      BY <1>2, <1>5, <3>1, <3>2, <3>3
    <3>4. CASE wop[v] # wop[w]
      BY <1>2, <3>2, <3>4
    <3> QED BY <3>3, <3>4
  <2>3. \A v \in Workers : Works(v)' <=> Works(v)
    BY <1>1, <1>3 DEF Works
  <2>4. \A v \in Workers : wpc'[v] \in {"mark", "fn"} => wpc[v] \in {"mark", "fn"}
    BY <1>1, <1>3
  <2>5. \A v \in Workers : wpc'[v] \in {"mark", "fn", "finish"} => wpc[v] \in {"mark", "fn", "finish"} /\ Works(v)
    BY <1>1, <1>3 DEF Works
  <2>6. \A v \in Workers : wpc'[v] = "finish" => wpc[v] = "finish"
    BY <1>3
  <2>7. UNCHANGED <<wfn, wop, wcopy, rerun>>
    BY <1>1
  <2> SUFFICES ASSUME NEW v \in Workers PROVE WorkerOf(v)' BY DEF WorkerInv
  <2>8. WorkerOf(v)
    BY <1>0 DEF WorkerInv
  <2>9. Works(v) /\ Own(wop[v])' => Own(wop[v])
    BY <2>1, <2>7 DEF Own
  <2> QED BY <2>1, <2>2, <2>3, <2>4, <2>5, <2>6, <2>7, <2>8, <2>9 DEF WorkerOf
<1>7. OneHand'
  <2>1. UNCHANGED <<cpc, cop, wop, rerun>> /\ \A o \in OpIds : opstore'[o].key = opstore[o].key
    BY <1>1, <1>2
  <2>2. \A o \in OpIds : Own(o)' => Own(o)
    BY <2>1 DEF Own
  <2>3. \A v \in Workers : Works(v)' => Works(v)
    BY <1>1, <1>3 DEF Works
  <2> QED BY <1>0, <2>1, <2>2, <2>3, HandsKept
<1>8. BootInv'
  BY <1>0, <1>1 DEF BootInv
<1>9. PendingIsWorkedOn'
  <2>1. phase' = phase /\ unput \subseteq unput'
    BY <1>1, <1>2
  <2>2. \A o \in OpIds : o \notin unput' => o \notin unput
    BY <2>1
  <2>3. \A o \in OpIds : WorkedOn(o) => WorkedOn(o)'
    BY <1>1, <1>3 DEF WorkedOn
  <2>4. \A o \in OpIds : o # wop[w] => (Unsettled(o)' <=> Unsettled(o))
    BY <1>2 DEF Unsettled
  <2>5. \A o \in OpIds : o = wop[w] => WorkedOn(o)'
    BY <1>1, <1>3 DEF WorkedOn
  <2> QED BY <1>0, <2>1, <2>2, <2>3, <2>4, <2>5, WorkGoesOn
<1> QED BY <1>2, <1>4, <1>6, <1>7, <1>8, <1>9 DEF OpsInv

\* A goroutine puts its result and ends.
LEMMA RunFinishKeeps ==
    ASSUME OpsInv, NEW w \in Workers, RunFinish(w)
    PROVE  OpsInv'
<1>0. OpsTypeOK /\ StoreInv /\ CallerInv /\ WorkerInv /\ OneHand /\ BootInv /\ PendingIsWorkedOn
  BY DEF OpsInv
<1>1. /\ wpc[w] = "finish" /\ wpc' = [wpc EXCEPT ![w] = "idle"] /\ PutOrFail(wop[w], wcopy[w])
      /\ wfn' = [wfn EXCEPT ![w] = None] /\ wop' = [wop EXCEPT ![w] = None]
      /\ wcopy' = [wcopy EXCEPT ![w] = None]
      /\ UNCHANGED <<idem, omu, issued, sandbox, phase, crashes, cpc, call, ckey, cop, ccopy, retry, stolen, rerun>>
  BY DEF RunFinish, WGoto, callers
<1>2. /\ opstore' \in [OpIds -> OpRecords \cup {None}] /\ unput' \in SUBSET OpIds
      /\ StoreInv' /\ CallerInv'
      /\ \A o \in OpIds : o # wop[w] => opstore'[o] = opstore[o]
      /\ opstore'[wop[w]] # None
      /\ opstore'[wop[w]].type = opstore[wop[w]].type /\ opstore'[wop[w]].key = opstore[wop[w]].key
      /\ opstore'[wop[w]] = wcopy[w] \/ (opstore' = opstore /\ wop[w] \in unput')
      /\ unput \subseteq unput'
  BY <1>0, <1>1, PutKeeps
<1>3. /\ wpc'[w] = "idle"
      /\ \A v \in Workers : v # w => wpc'[v] = wpc[v] /\ wfn'[v] = wfn[v] /\ wop'[v] = wop[v] /\ wcopy'[v] = wcopy[v]
  BY <1>0, <1>1 DEF OpsTypeOK
<1>4. OpsTypeOK'
  <2>1. /\ wpc' \in [Workers -> {"idle", "get", "mark", "fn", "finish"}]
        /\ wfn' \in [Workers -> {"provision", "agent-run", None}]
        /\ wop' \in [Workers -> OpIds \cup {None}]
        /\ wcopy' \in [Workers -> OpRecords \cup {None}]
    BY <1>0, <1>1 DEF OpsTypeOK
  <2> QED BY <1>0, <1>1, <1>2, <2>1 DEF OpsTypeOK
<1>5. Works(w) /\ wop[w] \in OpIds /\ wcopy[w].state \in Terminal
  BY <1>0, <1>1 DEF WorkerInv, WorkerOf, Works, Own
<1>6. WorkerInv'
  <2>1. \A v \in Workers : Works(v) =>
          /\ wop[v] \in OpIds /\ opstore'[wop[v]] # None /\ opstore'[wop[v]].type = opstore[wop[v]].type
          /\ opstore'[wop[v]].key = opstore[wop[v]].key
    <3> SUFFICES ASSUME NEW v \in Workers, Works(v)
                 PROVE  /\ wop[v] \in OpIds /\ opstore'[wop[v]] # None /\ opstore'[wop[v]].type = opstore[wop[v]].type
                        /\ opstore'[wop[v]].key = opstore[wop[v]].key
      OBVIOUS
    <3>1. WorkerOf(v) /\ WorkerOf(w)
      BY <1>0 DEF WorkerInv
    <3>2. CASE wop[v] = wop[w]
      BY <1>2, <1>5, <3>1, <3>2 DEF WorkerOf
    <3>3. CASE wop[v] # wop[w]
      BY <1>2, <3>1, <3>3 DEF WorkerOf
    <3> QED BY <3>2, <3>3
  <2>2. \A v \in Workers : v # w /\ Works(v) /\ Own(wop[v]) => opstore'[wop[v]] = opstore[wop[v]]
    BY <1>0, <1>2, <1>5 DEF WorkerInv, WorkerOf, OneHand
  <2>3. \A v \in Workers : Works(v)' => Works(v) /\ v # w
    BY <1>3 DEF Works
  <2> SUFFICES ASSUME NEW v \in Workers PROVE WorkerOf(v)' BY DEF WorkerInv
  <2>4. WorkerOf(v)
    BY <1>0 DEF WorkerInv
  <2>5. CASE v = w
    BY <1>3, <2>5 DEF WorkerOf, Works, Own
  <2>6. CASE v # w
    <3>1. wpc'[v] = wpc[v] /\ wfn'[v] = wfn[v] /\ wop'[v] = wop[v] /\ wcopy'[v] = wcopy[v]
      BY <1>3, <2>6
    <3>2. Works(v) /\ Own(wop[v])' => Own(wop[v])
      <4>1. rerun' = rerun /\ (Works(v) => opstore'[wop[v]].key = opstore[wop[v]].key)
        BY <1>1, <2>1
      <4> QED BY <3>1, <4>1 DEF Own
    <3> QED BY <2>1, <2>2, <2>4, <2>6, <3>1, <3>2 DEF WorkerOf, Works
  <2> QED BY <2>5, <2>6
<1>7. OneHand'
  <2>1. UNCHANGED <<cpc, cop, rerun>> /\ \A o \in OpIds : opstore'[o].key = opstore[o].key
    BY <1>1, <1>2
  <2>2. \A o \in OpIds : Own(o)' => Own(o)
    BY <2>1 DEF Own
  <2>3. \A v \in Workers : Works(v)' => Works(v) /\ wop'[v] = wop[v]
    BY <1>3 DEF Works
  <2> QED BY <1>0, <2>1, <2>2, <2>3, HandsKept
<1>8. BootInv'
  BY <1>0, <1>1, <1>3 DEF BootInv
<1>9. PendingIsWorkedOn'
  <2>1. \A o \in OpIds \ unput' : (opstore'[o] # None /\ opstore'[o].state \notin Terminal) =>
          o # wop[w] /\ o \in OpIds \ unput /\ opstore'[o] = opstore[o]
    BY <1>2, <1>5
  <2>2. \A o \in OpIds \ unput' : Unsettled(o)' => o \notin unput /\ Unsettled(o) /\ o # wop[w]
    BY <2>1 DEF Unsettled
  <2>3. \A o \in OpIds : o # wop[w] /\ WorkedOn(o) => WorkedOn(o)'
    BY <1>1, <1>3 DEF WorkedOn
  <2> QED BY <1>0, <1>1, <2>2, <2>3, WorkGoesOn
<1> QED BY <1>2, <1>4, <1>6, <1>7, <1>8, <1>9 DEF OpsInv

\* fn makes a sandbox, works in one, or fails.
LEMMA RunFnKeeps ==
    ASSUME OpsInv, NEW w \in Workers, RunFn(w)
    PROVE  OpsInv'
<1>0. OpsTypeOK /\ StoreInv /\ CallerInv /\ WorkerInv /\ OneHand /\ BootInv /\ PendingIsWorkedOn
  BY DEF OpsInv
<1>1. /\ wpc[w] = "fn" /\ wpc' = [wpc EXCEPT ![w] = "finish"]
      /\ UNCHANGED <<opstore, idem, omu, issued, phase, crashes, cpc, call, ckey, cop, ccopy, retry,
                     wfn, wop, unput, stolen, rerun>>
  BY DEF RunFn, WGoto, store, callers, history
<1>2. /\ wop[w] \in OpIds /\ wcopy[w] \in OpRecords
      /\ wcopy[w].type = opstore[wop[w]].type /\ wcopy[w].key = opstore[wop[w]].key
  BY <1>0, <1>1 DEF WorkerInv, WorkerOf, Works, Own
<1>3. wcopy \in [Workers -> OpRecords \cup {None}]
  BY <1>0 DEF OpsTypeOK
<1>4. "done" \in States /\ "error" \in States /\ "done" \in Terminal /\ "error" \in Terminal
  BY DEF States, Terminal
<1> DEFINE Result(copy) ==
        /\ copy[w] \in OpRecords
        /\ copy[w].type = opstore[wop[w]].type /\ copy[w].key = opstore[wop[w]].key /\ copy[w].state \in Terminal
        /\ copy \in [Workers -> OpRecords \cup {None}]
        /\ \A v \in Workers : v # w => copy[v] = wcopy[v]
<1>5. Result(wcopy')
  <2>1. ASSUME NEW s \in Sids, wcopy' = [wcopy EXCEPT ![w].state = "done", ![w].sandbox = s]
        PROVE  Result(wcopy')
    <3> DEFINE m == [wcopy EXCEPT ![w].state = "done"]
    <3>1. wcopy' = [m EXCEPT ![w].sandbox = s]
      BY <2>1
    <3>2. Result(m)
      BY <1>2, <1>3, <1>4 DEF OpRecords
    <3> HIDE DEF m
    <3> QED BY <3>1, <3>2 DEF OpRecords
  <2>2. ASSUME wcopy' = [wcopy EXCEPT ![w].state = "error"]
        PROVE  Result(wcopy')
    BY <1>2, <1>3, <1>4, <2>2 DEF OpRecords
  <2> QED BY <2>1, <2>2 DEF RunFn
<1>6. sandbox' \in [Sids -> Sandboxes \cup {None}]
  <2>1. wcopy[w].key \in Keys \cup {NoKey}
    BY <1>2 DEF OpRecords
  <2>2. sandbox \in [Sids -> Sandboxes \cup {None}]
    BY <1>0 DEF OpsTypeOK
  <2> QED BY SMTT(60), <2>1, <2>2, OperationsAssumption DEF RunFn, Sandboxes
<1>7. OpsTypeOK'
  <2>1. wcopy' \in [Workers -> OpRecords \cup {None}]
    BY <1>5
  <2>2. wpc' \in [Workers -> {"idle", "get", "mark", "fn", "finish"}]
    BY <1>0, <1>1 DEF OpsTypeOK
  <2> HIDE DEF Result
  <2> QED BY <1>0, <1>1, <1>6, <2>1, <2>2 DEF OpsTypeOK
<1>8. StoreInv'
  BY <1>0, <1>1 DEF StoreInv, NoDanglingKey
<1>9. CallerInv'
  BY <1>0, <1>1 DEF CallerInv, CallerOf, Holds, Own
<1>10. wpc'[w] = "finish" /\ \A v \in Workers : v # w => wpc'[v] = wpc[v]
  BY <1>0, <1>1 DEF OpsTypeOK
<1>11. WorkerInv'
  <2>1. Works(w) /\ WorkerOf(w) /\ UNCHANGED <<opstore, wfn, wop, rerun>>
    BY <1>0, <1>1 DEF WorkerInv, Works
  <2>2. WorkerOf(w)'
    <3>1. (Own(wop[w])' <=> Own(wop[w])) /\ (Works(w)' <=> Works(w))
      BY <1>10, <2>1 DEF Own, Works
    <3>2. wop'[w] = wop[w] /\ wfn'[w] = wfn[w] /\ opstore' = opstore
      BY <2>1
    <3>3. /\ wcopy'[w] \in OpRecords /\ wcopy'[w].state \in Terminal
          /\ wcopy'[w].type = opstore[wop[w]].type /\ wcopy'[w].key = opstore[wop[w]].key
      BY <1>5
    <3> HIDE DEF Result
    <3>4. wpc'[w] = "finish"
      BY <1>10
    <3> QED BY <2>1, <3>1, <3>2, <3>3, <3>4 DEF WorkerOf
  <2>3. ASSUME NEW v \in Workers, v # w PROVE WorkerOf(v)'
    <3>1. WorkerOf(v) /\ wpc'[v] = wpc[v] /\ wcopy'[v] = wcopy[v]
      BY <1>0, <1>5, <1>10, <2>3 DEF WorkerInv
    <3>2. wop'[v] = wop[v] /\ wfn'[v] = wfn[v] /\ opstore' = opstore /\ rerun' = rerun
      BY <2>1
    <3>3. (Own(wop[v])' <=> Own(wop[v])) /\ (Works(v)' <=> Works(v))
      BY <3>1, <3>2 DEF Own, Works
    <3> QED BY <3>1, <3>2, <3>3 DEF WorkerOf
  <2> QED BY <2>2, <2>3 DEF WorkerInv
<1>12. OneHand'
  <2>1. \A v \in Workers : Works(v)' => Works(v)
    BY <1>1, <1>10 DEF Works
  <2>2. \A c \in Callers : Holds(c)' <=> Holds(c)
    BY <1>1 DEF Holds
  <2> QED BY <1>0, <1>1, <2>1, <2>2, FewerHands DEF Own
<1>13. BootInv'
  BY <1>0, <1>1 DEF BootInv
<1>14. PendingIsWorkedOn'
  BY <1>0, <1>1, <1>10, StillWorkedOn DEF Holds, Works
<1> QED BY <1>7, <1>8, <1>9, <1>11, <1>12, <1>13, <1>14 DEF OpsInv

\* The boot settles one op that a crash left behind, or is done.
LEMMA RecoverInterruptedKeeps ==
    ASSUME OpsInv, RecoverInterrupted
    PROVE  OpsInv'
<1>0. OpsTypeOK /\ StoreInv /\ CallerInv /\ WorkerInv /\ OneHand /\ BootInv /\ PendingIsWorkedOn
  BY DEF OpsInv
<1>1. /\ phase = "boot"
      /\ UNCHANGED <<idem, omu, issued, sandbox, crashes, cpc, call, ckey, cop, ccopy, retry,
                     wpc, wfn, wop, wcopy, stolen, rerun>>
  BY DEF RecoverInterrupted, callers, workers
<1>2. (\A c \in Callers : cpc[c] = "idle") /\ (\A w \in Workers : wpc[w] = "idle")
  BY <1>0, <1>1 DEF BootInv
<1>3. CallerInv' /\ WorkerInv' /\ OneHand' /\ BootInv'
  BY <1>1, <1>2 DEF CallerInv, CallerOf, WorkerInv, WorkerOf, OneHand, BootInv, Holds, Works, Own
<1>4. CASE \E o \in Stranded : opstore' = [opstore EXCEPT ![o].state = "error"] /\ UNCHANGED <<phase, unput>>
  <2>1. PICK o \in Stranded : opstore' = [opstore EXCEPT ![o].state = "error"] /\ UNCHANGED <<phase, unput>>
    BY <1>4
  <2>2. opstore \in [OpIds -> OpRecords \cup {None}] /\ idem \in [Keys -> OpIds \cup {None}]
    BY <1>0 DEF OpsTypeOK
  <2>3. o \in OpIds /\ opstore[o] \in OpRecords
    BY <2>2 DEF Stranded
  <2> DEFINE r == [opstore[o] EXCEPT !.state = "error"]
  <2>5. r \in OpRecords /\ r.type = opstore[o].type /\ r.key = opstore[o].key
    <3>1. "error" \in States
      BY DEF States
    <3> QED BY <2>3, <3>1, StateUpdate
  <2>6. r # None /\ opstore' = [opstore EXCEPT ![o] = r]
    BY <2>1, <2>5, OperationsAssumption
  <2> HIDE DEF r
  <2>7. opstore' \in [OpIds -> OpRecords \cup {None}]
    BY <2>2, <2>5, <2>6
  <2>8. OpsTypeOK'
    BY <1>0, <1>1, <2>1, <2>7 DEF OpsTypeOK
  <2>9. \A p \in OpIds : /\ opstore'[p] # None <=> opstore[p] # None
                         /\ opstore'[p] # None =>
                               opstore'[p].type = opstore[p].type /\ opstore'[p].key = opstore[p].key
    BY <2>2, <2>3, <2>5, <2>6, OperationsAssumption
  <2>10. StoreInv'
    <3>1. UNCHANGED <<idem, issued>>
      BY <1>1
    <3> QED BY SMTT(60), <1>0, <2>2, <2>9, <3>1 DEF StoreInv, NoDanglingKey
  <2>11. PendingIsWorkedOn'
    BY <1>1, <2>1 DEF PendingIsWorkedOn
  <2> QED BY <1>3, <2>8, <2>10, <2>11 DEF OpsInv
<1>5. CASE /\ Stranded = {} \/ PutsFail
           /\ phase' = "serving" /\ unput' = unput \cup Stranded
           /\ UNCHANGED opstore
  <2>1. Stranded \subseteq OpIds
    BY DEF Stranded
  <2>2. unput' \subseteq OpIds
    BY <1>0, <1>5, <2>1 DEF OpsTypeOK
  <2>3. OpsTypeOK'
    BY <1>0, <1>1, <1>5, <2>2 DEF OpsTypeOK
  <2>4. StoreInv'
    BY <1>0, <1>1, <1>5 DEF StoreInv, NoDanglingKey
  <2>5. PendingIsWorkedOn'
    BY <1>5 DEF PendingIsWorkedOn, Stranded
  <2> QED BY <1>3, <2>3, <2>4, <2>5 DEF OpsInv
<1> QED BY <1>4, <1>5 DEF RecoverInterrupted

\* A client calls a handler.
LEMMA CallKeeps ==
    ASSUME OpsInv, NEW c \in Callers, NEW q \in Requests, Call(c, q[1], q[2])
    PROVE  OpsInv'
<1>0. OpsTypeOK /\ StoreInv /\ CallerInv /\ WorkerInv /\ OneHand /\ BootInv /\ PendingIsWorkedOn
  BY DEF OpsInv
<1>1. /\ cpc[c] = "idle" /\ phase = "serving" /\ cpc' = [cpc EXCEPT ![c] = "start"]
      /\ call' = [call EXCEPT ![c] = q[1]] /\ ckey' = [ckey EXCEPT ![c] = q[2]]
      /\ UNCHANGED <<opstore, idem, omu, issued, sandbox, phase, crashes, cop, ccopy, retry,
                     wpc, wfn, wop, wcopy, unput, stolen, rerun>>
  BY DEF Call, CGoto, store, workers, history
<1>2. q[1] \in Handlers /\ q[2] \in Keys \cup {NoKey}
  BY SMTT(60), OperationsAssumption
<1>3. OpsTypeOK'
  <2>1. cpc' \in [Callers -> {"idle", "start", "put", "map", "existed", "clear", "run"}]
    BY <1>0, <1>1 DEF OpsTypeOK
  <2>2. call' \in [Callers -> {"provision", "agent-run", None}] /\ ckey' \in [Callers -> Keys \cup {NoKey}]
    <3>1. q[1] \in {"provision", "agent-run", None}
      BY <1>2 DEF Handlers
    <3> QED BY <1>0, <1>1, <1>2, <3>1 DEF OpsTypeOK
  <2>3. \A d \in Callers : cpc'[d] \in {"put", "map"} <=> cpc[d] \in {"put", "map"}
    BY <1>0, <1>1 DEF OpsTypeOK
  <2> QED BY <1>0, <1>1, <2>1, <2>2, <2>3 DEF OpsTypeOK
<1>4. StoreInv'
  BY <1>0, <1>1 DEF StoreInv, NoDanglingKey
<1>5. /\ cpc'[c] = "start" /\ call'[c] = q[1] /\ ckey'[c] = q[2]
      /\ \A d \in Callers : d # c => cpc'[d] = cpc[d] /\ call'[d] = call[d] /\ ckey'[d] = ckey[d]
  BY <1>0, <1>1 DEF OpsTypeOK
<1>6. CallerInv'
  <2> SUFFICES ASSUME NEW d \in Callers PROVE CallerOf(d)' BY DEF CallerInv
  <2>1. CASE d # c
    <3>1. CallerOf(d)
      BY <1>0 DEF CallerInv
    <3>2. /\ UNCHANGED <<opstore, cop, ccopy, rerun>>
          /\ cpc'[d] = cpc[d] /\ call'[d] = call[d] /\ ckey'[d] = ckey[d]
      BY <1>1, <1>5, <2>1
    <3> QED BY <3>1, <3>2 DEF CallerOf, Holds, Own
  <2>2. CASE d = c
    BY <1>2, <1>5, <2>2 DEF CallerOf, Holds, Own
  <2> QED BY <2>1, <2>2
<1>7. WorkerInv'
  BY <1>0, <1>1 DEF WorkerInv, WorkerOf, Works, Own
<1>8. OneHand'
  BY <1>0, <1>1, <1>5, FewerHands DEF Holds, Works, Own
<1>9. BootInv'
  BY <1>0, <1>1 DEF BootInv
<1>10. PendingIsWorkedOn'
  BY <1>0, <1>1, <1>5, StillWorkedOn DEF Holds, Works
<1> QED BY <1>3, <1>4, <1>6, <1>7, <1>8, <1>9, <1>10 DEF OpsInv

\* A sandbox vanishes.
LEMMA VanishKeeps ==
    ASSUME OpsInv, NEW s \in Sids, Vanish(s)
    PROVE  OpsInv'
<1>0. OpsTypeOK /\ StoreInv /\ CallerInv /\ WorkerInv /\ OneHand /\ BootInv /\ PendingIsWorkedOn
  BY DEF OpsInv
<1>1. UNCHANGED <<opstore, idem, omu, issued, phase, crashes, cpc, call, ckey, cop, ccopy, retry,
                  wpc, wfn, wop, wcopy, unput, stolen, rerun>>
  BY DEF Vanish, store, callers, workers, history
<1>2. sandbox' \in [Sids -> Sandboxes \cup {None}]
  <2>1. sandbox \in [Sids -> Sandboxes \cup {None}]
    BY <1>0 DEF OpsTypeOK
  <2>2. sandbox' = [sandbox EXCEPT ![s].fate = "gone"]
    BY DEF Vanish
  <2>3. sandbox[s] \in Sandboxes
    BY <2>1 DEF Vanish
  <2>4. [sandbox[s] EXCEPT !.fate = "gone"] \in Sandboxes
    BY <2>3 DEF Sandboxes
  <2> QED BY <2>1, <2>2, <2>4
<1>3. OpsTypeOK'
  BY <1>0, <1>1, <1>2 DEF OpsTypeOK
<1>4. StoreInv' /\ BootInv' /\ PendingIsWorkedOn'
  BY <1>0, <1>1 DEF StoreInv, NoDanglingKey, BootInv, PendingIsWorkedOn
<1>5. CallerInv'
  BY <1>0, <1>1 DEF CallerInv, CallerOf, Holds, Own
<1>6. WorkerInv'
  BY <1>0, <1>1 DEF WorkerInv, WorkerOf, Works, Own
<1>7. OneHand'
  BY <1>0, <1>1 DEF OneHand, Holds, Works, Own
<1> QED BY <1>3, <1>4, <1>5, <1>6, <1>7 DEF OpsInv

\* The process dies with every handler and goroutine.
LEMMA CrashKeeps ==
    ASSUME OpsInv, Crash
    PROVE  OpsInv'
<1>0. OpsTypeOK /\ StoreInv /\ CallerInv /\ WorkerInv /\ OneHand /\ BootInv /\ PendingIsWorkedOn
  BY DEF OpsInv
<1>1. UNCHANGED <<opstore, idem, issued, sandbox, unput, stolen, rerun>> /\ phase' = "boot"
  BY DEF Crash, store, history
<1>2. /\ \A c \in Callers : cpc'[c] = "idle"
      /\ \A w \in Workers : wpc'[w] = "idle"
  BY DEF Crash
<1>3. OpsTypeOK'
  BY SMTT(60), <1>0, <1>1, OperationsAssumption DEF Crash, OpsTypeOK
<1>4. StoreInv'
  BY <1>0, <1>1 DEF StoreInv, NoDanglingKey
<1>5. CallerInv' /\ WorkerInv' /\ OneHand' /\ BootInv'
  BY <1>2 DEF CallerInv, CallerOf, WorkerInv, WorkerOf, OneHand, BootInv, Holds, Works, Own
<1>6. PendingIsWorkedOn'
  BY <1>1 DEF PendingIsWorkedOn
<1> QED BY <1>3, <1>4, <1>5, <1>6 DEF OpsInv

-----------------------------------------------------------------------------
\* A node starts with empty buckets.
LEMMA InitHolds == Init => OpsInv
<1> SUFFICES ASSUME Init PROVE OpsInv
  OBVIOUS
<1>1. OpsTypeOK
  BY SMTT(60), OperationsAssumption DEF Init, OpsTypeOK
<1>2. StoreInv /\ CallerInv /\ WorkerInv
  BY DEF Init, StoreInv, NoDanglingKey, CallerInv, CallerOf, WorkerInv, WorkerOf, Holds, Works, Own
<1>3. OneHand /\ BootInv /\ PendingIsWorkedOn
  BY DEF Init, OneHand, BootInv, PendingIsWorkedOn, Holds, Works
<1> QED BY <1>1, <1>2, <1>3 DEF OpsInv

\* A step in which nothing changes.
LEMMA StutterKeeps ==
    ASSUME OpsInv, UNCHANGED vars
    PROVE  OpsInv'
<1>0. OpsTypeOK /\ StoreInv /\ CallerInv /\ WorkerInv /\ OneHand /\ BootInv /\ PendingIsWorkedOn
  BY DEF OpsInv
<1>1. UNCHANGED <<opstore, idem, omu, issued, sandbox, phase, crashes, cpc, call, ckey, cop, ccopy, retry,
                  wpc, wfn, wop, wcopy, unput, stolen, rerun>>
  BY DEF vars, store, callers, workers, history
<1>2. OpsTypeOK'
  BY <1>0, <1>1 DEF OpsTypeOK
<1>3. StoreInv' /\ BootInv' /\ PendingIsWorkedOn'
  BY <1>0, <1>1 DEF StoreInv, NoDanglingKey, BootInv, PendingIsWorkedOn
<1>4. CallerInv'
  BY <1>0, <1>1 DEF CallerInv, CallerOf, Holds, Own
<1>5. WorkerInv'
  BY <1>0, <1>1 DEF WorkerInv, WorkerOf, Works, Own
<1>6. OneHand'
  BY <1>0, <1>1, FewerHands DEF Holds, Works, Own
<1> QED BY <1>2, <1>3, <1>4, <1>5, <1>6 DEF OpsInv

\* Every step keeps the invariant.
LEMMA NextKeeps ==
    ASSUME OpsInv, [Next]_vars
    PROVE  OpsInv'
<1>1. ASSUME NEW c \in Callers, CallerStep(c) PROVE OpsInv'
  BY <1>1, StartGetKeeps, StartPutKeeps, StartMapKeeps, ExistedKeeps, ClearIdempotencyKeeps, RunKeeps
     DEF CallerStep
<1>2. ASSUME NEW c \in Callers, NEW q \in Requests, Call(c, q[1], q[2]) PROVE OpsInv'
  BY <1>2, CallKeeps
<1>3. ASSUME NEW w \in Workers, WorkerStep(w) PROVE OpsInv'
  BY <1>3, RunGetKeeps, RunMarkKeeps, RunFnKeeps, RunFinishKeeps DEF WorkerStep
<1>4. ASSUME NEW s \in Sids, Vanish(s) PROVE OpsInv'
  BY <1>4, VanishKeeps
<1>5. CASE Crash
  BY <1>5, CrashKeeps
<1>6. CASE RecoverInterrupted
  BY <1>6, RecoverInterruptedKeeps
<1>7. CASE UNCHANGED vars
  BY <1>7, StutterKeeps
<1> QED BY <1>1, <1>2, <1>3, <1>4, <1>5, <1>6, <1>7 DEF Next

\* The inductive invariant holds in every behaviour.
THEOREM OpsInvariant == Spec => []OpsInv
<1>1. OpsInv /\ [Next]_vars => OpsInv'
  BY NextKeeps
<1> QED BY <1>1, InitHolds, PTL DEF Spec

\* A polling client never hangs on an op nobody works on (Run, the handlers and
\* RecoverInterrupted), unless a put of that op failed.
THEOREM PendingHasAWorker == Spec => []PendingIsWorkedOn
<1>1. OpsInv => PendingIsWorkedOn
  BY DEF OpsInv
<1> QED BY <1>1, OpsInvariant, PTL

\* Between Start's two puts, after any failed put and any crash, a key names no
\* op that is missing or of another key.
THEOREM KeysNameTheirOps == Spec => []NoDanglingKey
<1>1. OpsInv => NoDanglingKey
  BY DEF OpsInv, StoreInv
<1> QED BY <1>1, OpsInvariant, PTL

\* What a step does to the bucket: an op that is done or failed stays as it is.
LEMMA SettledStays ==
    ASSUME OpsInv, [Next]_vars, NEW o \in OpIds,
           opstore[o] # None, Own(o), opstore[o].state \in Terminal
    PROVE  opstore'[o] = opstore[o]
<1>0. OpsTypeOK /\ StoreInv /\ WorkerInv
  BY DEF OpsInv
<1>1. opstore \in [OpIds -> OpRecords \cup {None}]
  BY <1>0 DEF OpsTypeOK
<1>2. ASSUME NEW c \in Callers, StartPut(c) PROVE opstore'[o] = opstore[o]
  <2>1. o \in issued
    BY <1>0 DEF StoreInv
  <2>2. opstore' = opstore \/ \E p \in OpIds \ issued : \E r : opstore' = [opstore EXCEPT ![p] = r]
    BY <1>2 DEF StartPut
  <2> QED BY <1>1, <2>1, <2>2
<1>3. ASSUME NEW w \in Workers, Works(w), PutOrFail(wop[w], wcopy[w]) PROVE opstore'[o] = opstore[o]
  <2>1. wop[w] # o
    <3>1. WorkerOf(w) /\ Works(w)
      BY <1>0, <1>3 DEF WorkerInv
    <3> QED BY <3>1 DEF WorkerOf
  <2>2. opstore' = opstore \/ opstore' = [opstore EXCEPT ![wop[w]] = wcopy[w]]
    BY <1>3 DEF PutOrFail
  <2> QED BY <1>1, <2>1, <2>2
<1>4. ASSUME NEW w \in Workers, WorkerStep(w) PROVE opstore'[o] = opstore[o]
  <2>1. \/ UNCHANGED opstore
        \/ wpc[w] \in {"mark", "finish"} /\ PutOrFail(wop[w], wcopy[w])
    BY <1>4 DEF WorkerStep, RunGet, RunMark, RunFn, RunFinish, store
  <2> QED BY <1>3, <2>1 DEF Works
<1>5. ASSUME NEW c \in Callers, CallerStep(c) PROVE opstore'[o] = opstore[o]
  <2>1. StartPut(c) \/ UNCHANGED opstore
    BY <1>5 DEF CallerStep, StartGet, StartMap, Existed, ClearIdempotency, Run, store
  <2> QED BY <1>2, <2>1
<1>6. CASE RecoverInterrupted
  <2>1. o \notin Stranded
    BY DEF Stranded
  <2>2. opstore' = opstore \/ \E p \in Stranded : opstore' = [opstore EXCEPT ![p].state = "error"]
    BY <1>6 DEF RecoverInterrupted
  <2> QED BY <1>1, <2>1, <2>2
<1>7. CASE Crash \/ (\E s \in Sids : Vanish(s)) \/ UNCHANGED vars
  BY <1>7 DEF Crash, Vanish, vars, store
<1>8. ASSUME NEW c \in Callers, NEW q \in Requests, Call(c, q[1], q[2]) PROVE opstore'[o] = opstore[o]
  BY <1>8 DEF Call, store
<1> QED BY <1>4, <1>5, <1>6, <1>7, <1>8 DEF Next

\* No goroutine, no failed put, no keyed retry of a create and no restart changes
\* an op after it is done or failed; only AgentRun and PublishSandbox do, when
\* they run the op their key already has.
THEOREM SettledIsFinal == Spec => TerminalIsFinal
<1>1. OpsInv /\ [Next]_vars =>
        [\A o \in OpIds :
            (opstore[o] # None /\ opstore[o].state \in Terminal)
                => opstore'[o] = opstore[o] \/ opstore[o].key \in rerun]_vars
  BY SettledStays DEF Own
<1> QED BY <1>1, OpsInvariant, PTL DEF Spec, TerminalIsFinal

-----------------------------------------------------------------------------
(***************************************************************************)
(* One living sandbox of the node per idempotency key (KeysAreSound), on   *)
(* top of the invariant above.                                             *)
(*                                                                         *)
(* As long as no mapping of a key was stolen and no handler ran the op of  *)
(* the key once more, the mapping is what its living sandbox rests on:     *)
(* whoever may still make a sandbox for the key has the op the key is      *)
(* mapped to, a key that no create has has no living sandbox, and an op is *)
(* given up only when this node has no sandbox of it.                      *)
(***************************************************************************)
Live(s, k) == sandbox[s] # None /\ sandbox[s].key = k /\ sandbox[s].fate = "live" /\ sandbox[s].at = "local"

\* A result names a sandbox that was made.
MadeBy(op) == op.state = "done" => op.sandbox \in Sids /\ sandbox[op.sandbox] # None

SandboxInv ==
    /\ \A o \in OpIds : opstore[o] # None => MadeBy(opstore[o])
    /\ \A w \in Workers : wpc[w] = "finish" => MadeBy(wcopy[w])

\* Start goes on only with a free key; CreateSandbox gives an op up only when
\* this node has no sandbox of it.
StartFor(c) ==
    /\ (cpc[c] \in {"put", "map"} /\ ckey[c] # NoKey) => idem[ckey[c]] = None
    /\ cpc[c] \in {"existed", "clear"} => MadeBy(ccopy[c])
    /\ (cpc[c] \in {"existed", "clear"} /\ ccopy[c].state \in Terminal /\ Own(cop[c])) =>
          opstore[cop[c]] = ccopy[c]
    /\ cpc[c] = "clear" => ccopy[c].state = "done" /\ ProvisionSandboxGone(ccopy[c])

StartInv == \A c \in Callers : StartFor(c)

NoneLive(k) == \A s \in Sids : ~Live(s, k)
OnlyLive(k, s) == \A t \in Sids : Live(t, k) => t = s

\* A create about to run, a goroutine creating, and the op of the key.
CallerKey(c, k) ==
    (cpc[c] = "run" /\ call[c] = "provision" /\ ckey[c] = k) => idem[k] = cop[c] /\ NoneLive(k)

WorkerKey(w, k) ==
    (Works(w) /\ wfn[w] = "provision" /\ opstore[wop[w]].key = k) =>
        /\ idem[k] = wop[w]
        /\ wpc[w] # "finish" => NoneLive(k)
        /\ (wpc[w] = "finish" /\ wcopy[w].state = "done") => OnlyLive(k, wcopy[w].sandbox)

MappedKey(k) ==
    (idem[k] # None /\ opstore[idem[k]].type = "provision" /\ opstore[idem[k]].state = "done") =>
        OnlyLive(k, opstore[idem[k]].sandbox)

\* A key that no create has has no living sandbox.
FreeKey(k) == (idem[k] = None \/ opstore[idem[k]].type # "provision") => NoneLive(k)

KeyInv(k) ==
    /\ FreeKey(k)
    /\ \A s \in Sids : Live(s, k) => OnlyLive(k, s)
    /\ \A c \in Callers : CallerKey(c, k)
    /\ \A w \in Workers : WorkerKey(w, k)
    /\ MappedKey(k)

SoundKeys == Keys \ (stolen \cup rerun)

KeysInv == SandboxInv /\ StartInv /\ \A k \in SoundKeys : KeyInv(k)

\* A handler that does not move while the buckets and sandboxes stay.
LEMMA SameStart ==
    ASSUME NEW d \in Callers, StartInv, UNCHANGED <<opstore, idem, sandbox>>, rerun \subseteq rerun',
           cpc'[d] = cpc[d], call'[d] = call[d], ckey'[d] = ckey[d], cop'[d] = cop[d], ccopy'[d] = ccopy[d]
    PROVE  StartFor(d)'
<1>1. StartFor(d)
  BY DEF StartInv
<1>2. (Own(cop[d])' => Own(cop[d])) /\ (MadeBy(ccopy[d]) => MadeBy(ccopy[d])')
  BY DEF Own, MadeBy
<1> QED BY <1>1, <1>2 DEF StartFor, ProvisionSandboxGone

\* Steps of the handlers that leave the buckets, the sandboxes and the
\* goroutines alone, and bring no create to Run.
LEMMA HandlersOnly ==
    ASSUME KeysInv, StartInv', rerun \subseteq rerun',
           UNCHANGED <<opstore, idem, sandbox, stolen, wpc, wfn, wop, wcopy>>,
           \A c \in Callers : (cpc'[c] = "run" /\ call'[c] = "provision" /\ ckey'[c] \in Keys) =>
               cpc[c] = "run" /\ call'[c] = call[c] /\ ckey'[c] = ckey[c] /\ cop'[c] = cop[c]
    PROVE  KeysInv'
<1>1. SandboxInv'
  BY DEF KeysInv, SandboxInv, MadeBy
<1>2. ASSUME NEW k \in SoundKeys' PROVE KeyInv(k)'
  <2>1. KeyInv(k)
    BY <1>2 DEF KeysInv, SoundKeys
  <2>2. \A s \in Sids : Live(s, k)' <=> Live(s, k)
    BY DEF Live
  <2>3. NoneLive(k)' <=> NoneLive(k)
    BY <2>2 DEF NoneLive
  <2>4. \A s : OnlyLive(k, s)' <=> OnlyLive(k, s)
    BY <2>2 DEF OnlyLive
  <2>5. \A c \in Callers : CallerKey(c, k)'
    <3>1. k \in Keys
      BY <1>2 DEF SoundKeys
    <3> QED BY <2>1, <2>3, <3>1 DEF KeyInv, CallerKey
  <2>6. \A w \in Workers : WorkerKey(w, k)'
    BY <2>1, <2>3, <2>4 DEF KeyInv, WorkerKey, Works
  <2>7. MappedKey(k)'
    BY <2>1, <2>4 DEF KeyInv, MappedKey
  <2>8. FreeKey(k)'
    BY <2>1, <2>3 DEF KeyInv, FreeKey
  <2> QED BY <2>1, <2>2, <2>4, <2>5, <2>6, <2>7, <2>8 DEF KeyInv
<1> QED BY <1>1, <1>2 DEF KeysInv

\* A client calls a handler.
LEMMA CallKeepsKeys ==
    ASSUME OpsInv, KeysInv, NEW c \in Callers, NEW q \in Requests, Call(c, q[1], q[2])
    PROVE  KeysInv'
<1>0. OpsTypeOK /\ StartInv
  BY DEF OpsInv, KeysInv
<1>1. /\ cpc' = [cpc EXCEPT ![c] = "start"]
      /\ call' = [call EXCEPT ![c] = q[1]] /\ ckey' = [ckey EXCEPT ![c] = q[2]]
      /\ UNCHANGED <<opstore, idem, sandbox, stolen, rerun, cop, ccopy, wpc, wfn, wop, wcopy>>
  BY DEF Call, CGoto, store, workers, history
<1>2. /\ cpc'[c] = "start"
      /\ \A d \in Callers : d # c => cpc'[d] = cpc[d] /\ call'[d] = call[d] /\ ckey'[d] = ckey[d]
  BY <1>0, <1>1 DEF OpsTypeOK
<1>3. StartInv'
  <2>1. \A d \in Callers : d # c => StartFor(d)'
    BY <1>0, <1>1, <1>2, SameStart
  <2>2. StartFor(c)'
    BY <1>2 DEF StartFor
  <2> QED BY <2>1, <2>2 DEF StartInv
<1>4. \A d \in Callers : cpc'[d] = "run" => cpc[d] = "run" /\ call'[d] = call[d] /\ ckey'[d] = ckey[d]
  BY <1>2
<1> QED BY <1>1, <1>3, <1>4, HandlersOnly

\* Start finds the op of its key, or finds the key free.
LEMMA StartGetKeepsKeys ==
    ASSUME OpsInv, KeysInv, NEW c \in Callers, StartGet(c)
    PROVE  KeysInv'
<1>0. OpsTypeOK /\ StoreInv /\ StartInv /\ SandboxInv
  BY DEF OpsInv, KeysInv
<1>1. UNCHANGED <<opstore, idem, sandbox, stolen, rerun, call, ckey, wpc, wfn, wop, wcopy>>
  BY DEF StartGet, store, workers, history
<1>2. /\ \A d \in Callers : d # c => cpc'[d] = cpc[d] /\ cop'[d] = cop[d] /\ ccopy'[d] = ccopy[d]
      /\ \/ cpc'[c] = "put" /\ ~Mapped(ckey[c])
         \/ /\ cpc'[c] = "existed" /\ cop'[c] = idem[ckey[c]] /\ ccopy'[c] = opstore[idem[ckey[c]]]
            /\ Mapped(ckey[c])
  BY <1>0 DEF StartGet, CGoto, OpsTypeOK
<1>3. ~Mapped(ckey[c]) => ckey[c] = NoKey \/ idem[ckey[c]] = None
  <2>1. ckey[c] \in Keys \cup {NoKey}
    BY <1>0 DEF OpsTypeOK
  <2> QED BY <1>0, <2>1 DEF Mapped, StoreInv, NoDanglingKey
<1>4. StartInv'
  <2>1. \A d \in Callers : d # c => StartFor(d)'
    BY <1>0, <1>1, <1>2, SameStart
  <2>2. ASSUME Mapped(ckey[c]) PROVE StartFor(c)'
    <3>1. PICK o : o = idem[ckey[c]]
      OBVIOUS
    <3>2. ckey[c] \in Keys \cup {NoKey} /\ idem \in [Keys -> OpIds \cup {None}]
      BY <1>0 DEF OpsTypeOK
    <3>3. o \in OpIds /\ opstore[o] # None
      BY <2>2, <3>1, <3>2 DEF Mapped
    <3>4. MadeBy(opstore[o])
      BY <1>0, <3>3 DEF SandboxInv
    <3>5. cpc'[c] = "existed" /\ cop'[c] = o /\ ccopy'[c] = opstore[o] /\ opstore' = opstore /\ sandbox' = sandbox
      BY <1>1, <1>2, <2>2, <3>1
    <3>6. MadeBy(ccopy[c])'
      BY <3>4, <3>5 DEF MadeBy
    <3> QED BY <3>5, <3>6 DEF StartFor
  <2>3. ASSUME ~Mapped(ckey[c]) PROVE StartFor(c)'
    BY <1>1, <1>2, <1>3, <2>3 DEF StartFor
  <2> QED BY <2>1, <2>2, <2>3 DEF StartInv
<1>5. \A d \in Callers : cpc'[d] = "run" => cpc[d] = "run" /\ cop'[d] = cop[d]
  BY <1>2
<1> QED BY <1>1, <1>4, <1>5, HandlersOnly

\* A handler returned and nothing else happened.
LEMMA ReturnKeepsKeys ==
    ASSUME OpsInv, KeysInv, NEW c \in Callers, CReturn(c),
           UNCHANGED <<opstore, idem, sandbox, stolen, rerun, wpc, wfn, wop, wcopy>>
    PROVE  KeysInv'
<1>0. OpsTypeOK /\ StartInv
  BY DEF OpsInv, KeysInv
<1>1. /\ cpc'[c] = "idle"
      /\ \A d \in Callers : d # c => /\ cpc'[d] = cpc[d] /\ call'[d] = call[d] /\ ckey'[d] = ckey[d]
                                     /\ cop'[d] = cop[d] /\ ccopy'[d] = ccopy[d]
  BY <1>0 DEF OpsTypeOK, CReturn, CGoto
<1>2. StartInv'
  <2>1. \A d \in Callers : d # c => StartFor(d)'
    BY <1>0, <1>1, SameStart
  <2>2. StartFor(c)'
    BY <1>1 DEF StartFor
  <2> QED BY <2>1, <2>2 DEF StartInv
<1>3. \A d \in Callers : cpc'[d] = "run" => /\ cpc[d] = "run" /\ call'[d] = call[d] /\ ckey'[d] = ckey[d]
                                           /\ cop'[d] = cop[d]
  BY <1>1
<1> QED BY <1>2, <1>3, HandlersOnly

\* Nobody knows the op Start puts.
LEMMA StartPutKeepsKeys ==
    ASSUME OpsInv, KeysInv, NEW c \in Callers, StartPut(c)
    PROVE  KeysInv'
<1>0. OpsTypeOK /\ StoreInv /\ CallerInv /\ WorkerInv /\ SandboxInv /\ StartInv /\ \A k \in SoundKeys : KeyInv(k)
  BY DEF OpsInv, KeysInv
<1>1. cpc[c] = "put" /\ UNCHANGED <<idem, sandbox, stolen, rerun, wpc, wfn, wop, wcopy>>
  BY DEF StartPut, workers, history
<1>2. CASE \E o \in OpIds \ issued :
            /\ issued' = issued \cup {o}
            /\ opstore' = [opstore EXCEPT ![o] = [type |-> call[c], state |-> "pending", key |-> ckey[c], sandbox |-> None]]
            /\ cop' = [cop EXCEPT ![c] = o]
            /\ IF ckey[c] = NoKey THEN CGoto(c, "run") /\ omu' = None
                                 ELSE CGoto(c, "map") /\ UNCHANGED omu
            /\ UNCHANGED <<call, ckey, ccopy, retry>>
  <2>1. PICK o \in OpIds \ issued :
            /\ issued' = issued \cup {o}
            /\ opstore' = [opstore EXCEPT ![o] = [type |-> call[c], state |-> "pending", key |-> ckey[c], sandbox |-> None]]
            /\ cop' = [cop EXCEPT ![c] = o]
            /\ IF ckey[c] = NoKey THEN CGoto(c, "run") /\ omu' = None
                                 ELSE CGoto(c, "map") /\ UNCHANGED omu
            /\ UNCHANGED <<call, ckey, ccopy, retry>>
    BY <1>2
  <2>2. opstore[o] = None
    BY <1>0 DEF StoreInv
  <2>3. opstore'[o].state = "pending" /\ \A p \in OpIds : p # o => opstore'[p] = opstore[p]
    BY <1>0, <2>1 DEF OpsTypeOK
  <2>4. /\ cpc'[c] = IF ckey[c] = NoKey THEN "run" ELSE "map"
        /\ \A d \in Callers : d # c => cpc'[d] = cpc[d] /\ cop'[d] = cop[d]
        /\ UNCHANGED <<call, ckey, ccopy>>
    BY <1>0, <2>1 DEF OpsTypeOK, CGoto
  <2>5. SandboxInv'
    BY <1>0, <1>1, <2>3 DEF SandboxInv, MadeBy
  <2>6. StartInv'
    <3>1. \A d \in Callers : cpc[d] \in {"existed", "clear"} => d # c /\ opstore'[cop[d]] = opstore[cop[d]]
      BY <1>0, <1>1, <2>2, <2>3 DEF CallerInv, CallerOf
    <3>2. ASSUME NEW d \in Callers, d # c PROVE StartFor(d)'
      <4>1. StartFor(d) /\ cpc'[d] = cpc[d] /\ cop'[d] = cop[d] /\ ckey'[d] = ckey[d] /\ ccopy'[d] = ccopy[d]
        BY <1>0, <2>4, <3>2 DEF StartInv
      <4>2. UNCHANGED <<idem, sandbox, rerun>>
        BY <1>1
      <4> QED BY <3>1, <4>1, <4>2 DEF StartFor, ProvisionSandboxGone, MadeBy, Own
    <3>3. StartFor(c)'
      BY <1>0, <1>1, <2>4 DEF StartInv, StartFor
    <3> QED BY <3>2, <3>3 DEF StartInv
  <2>7. ASSUME NEW k \in SoundKeys' PROVE KeyInv(k)'
    <3>1. KeyInv(k)
      BY <1>0, <1>1, <2>7 DEF SoundKeys
    <3>2. \A s \in Sids : Live(s, k)' <=> Live(s, k)
      BY <1>1 DEF Live
    <3>3. NoneLive(k)' <=> NoneLive(k)
      BY <3>2 DEF NoneLive
    <3>4. \A s : OnlyLive(k, s)' <=> OnlyLive(k, s)
      BY <3>2 DEF OnlyLive
    <3>5. \A d \in Callers : (cpc'[d] = "run" /\ ckey'[d] = k) => d # c /\ cpc[d] = "run"
      <4>1. k # NoKey
        BY <2>7, OperationsAssumption DEF SoundKeys
      <4> QED BY <2>4, <4>1
    <3>6. \A w \in Workers : Works(w) => opstore'[wop[w]] = opstore[wop[w]]
      BY <1>0, <2>2, <2>3 DEF WorkerInv, WorkerOf
    <3>7. idem[k] # None => opstore'[idem[k]] = opstore[idem[k]]
      <4>0. k \in Keys
        BY <2>7 DEF SoundKeys
      <4>1. idem[k] \in OpIds \cup {None}
        BY <1>0, <4>0 DEF OpsTypeOK
      <4> QED BY <1>0, <2>2, <2>3, <4>0, <4>1 DEF StoreInv, NoDanglingKey
    <3>8. \A d \in Callers : CallerKey(d, k)'
      BY <1>1, <2>4, <3>1, <3>3, <3>5 DEF KeyInv, CallerKey
    <3>9. \A w \in Workers : WorkerKey(w, k)'
      BY <1>1, <3>1, <3>3, <3>4, <3>6 DEF KeyInv, WorkerKey, Works
    <3>10. MappedKey(k)'
      BY <1>1, <3>1, <3>4, <3>7 DEF KeyInv, MappedKey
    <3>11. FreeKey(k)'
      BY <1>1, <3>1, <3>3, <3>7 DEF KeyInv, FreeKey
    <3> QED BY <1>1, <3>1, <3>2, <3>4, <3>8, <3>9, <3>10, <3>11 DEF KeyInv
  <2> QED BY <2>5, <2>6, <2>7 DEF KeysInv
<1>3. CASE PutsFail /\ omu' = None /\ CReturn(c) /\ UNCHANGED <<opstore, issued>>
  BY <1>1, <1>3, ReturnKeepsKeys
<1> QED BY <1>2, <1>3 DEF StartPut
\* The sandboxes of a key are the same when no sandbox changed.
LEMMA SameLive ==
    ASSUME UNCHANGED sandbox, NEW k
    PROVE  /\ \A s \in Sids : Live(s, k)' <=> Live(s, k)
           /\ NoneLive(k)' <=> NoneLive(k)
           /\ \A s : OnlyLive(k, s)' <=> OnlyLive(k, s)
<1>1. \A s \in Sids : Live(s, k)' <=> Live(s, k)
  BY DEF Live
<1> QED BY <1>1 DEF NoneLive, OnlyLive

\* The key was free and had no sandbox when Start maps it.
LEMMA StartMapKeepsKeys ==
    ASSUME OpsInv, KeysInv, NEW c \in Callers, StartMap(c)
    PROVE  KeysInv'
<1>0. OpsTypeOK /\ CallerInv /\ WorkerInv /\ SandboxInv /\ StartInv /\ \A k \in SoundKeys : KeyInv(k)
  BY DEF OpsInv, KeysInv
<1>1. cpc[c] = "map" /\ UNCHANGED <<opstore, sandbox, stolen, rerun, wpc, wfn, wop, wcopy>>
  BY DEF StartMap, workers
<1>2. CASE PutsFail /\ CReturn(c) /\ UNCHANGED idem
  BY <1>1, <1>2, ReturnKeepsKeys
<1>3. CASE idem' = [idem EXCEPT ![ckey[c]] = cop[c]] /\ CGoto(c, "run") /\ UNCHANGED <<call, ckey, cop, ccopy>>
  <2>1. ckey[c] \in Keys /\ idem[ckey[c]] = None /\ cop[c] \in OpIds
    <3>1. ckey[c] \in Keys \cup {NoKey}
      BY <1>0 DEF OpsTypeOK
    <3>2. ckey[c] # NoKey /\ cop[c] \in OpIds
      BY <1>0, <1>1 DEF CallerInv, CallerOf
    <3> QED BY <1>0, <1>1, <3>1, <3>2 DEF StartInv, StartFor
  <2>2. /\ cpc'[c] = "run" /\ \A d \in Callers : d # c => cpc'[d] = cpc[d] /\ cpc[d] \notin {"put", "map"}
        /\ idem'[ckey[c]] = cop[c] /\ \A k \in Keys : k # ckey[c] => idem'[k] = idem[k]
    BY <1>0, <1>1, <1>3, <2>1 DEF OpsTypeOK, CGoto
  <2>3. SandboxInv'
    BY <1>0, <1>1 DEF SandboxInv, MadeBy
  <2>4. StartInv'
    <3>1. ASSUME NEW d \in Callers, d # c PROVE StartFor(d)'
      <4>1. StartFor(d) /\ cpc'[d] = cpc[d] /\ cpc[d] \notin {"put", "map"}
        BY <1>0, <2>2, <3>1 DEF StartInv
      <4>2. UNCHANGED <<opstore, sandbox, cop, ccopy, rerun>>
        BY <1>1, <1>3
      <4> QED BY <4>1, <4>2 DEF StartFor, ProvisionSandboxGone, MadeBy, Own
    <3>2. StartFor(c)'
      BY <2>2 DEF StartFor
    <3> QED BY <3>1, <3>2 DEF StartInv
  <2>5. ASSUME NEW k \in SoundKeys' PROVE KeyInv(k)'
    <3>1. KeyInv(k) /\ k \in Keys
      BY <1>0, <1>1, <2>5 DEF SoundKeys
    <3>2. /\ \A s \in Sids : Live(s, k)' <=> Live(s, k)
          /\ NoneLive(k)' <=> NoneLive(k)
          /\ \A s : OnlyLive(k, s)' <=> OnlyLive(k, s)
      BY <1>1, SameLive
    <3>3. CASE k # ckey[c]
      <4>1. idem'[k] = idem[k]
        BY <2>2, <3>1, <3>3
      <4>2. \A d \in Callers : CallerKey(d, k)'
        BY <1>3, <2>2, <3>1, <3>2, <3>3, <4>1 DEF KeyInv, CallerKey
      <4>3. \A w \in Workers : WorkerKey(w, k)'
        BY <1>1, <3>1, <3>2, <4>1 DEF KeyInv, WorkerKey, Works
      <4>4. MappedKey(k)'
        BY <1>1, <3>1, <3>2, <4>1 DEF KeyInv, MappedKey
      <4>5. FreeKey(k)'
        BY <1>1, <3>1, <3>2, <4>1 DEF KeyInv, FreeKey
      <4> QED BY <3>1, <3>2, <4>2, <4>3, <4>4, <4>5 DEF KeyInv
    <3>4. CASE k = ckey[c]
      <4>1. idem[k] = None /\ idem'[k] = cop[c] /\ NoneLive(k)
        BY <2>1, <2>2, <3>1, <3>4 DEF KeyInv, FreeKey
      <4>2. idem'[k] # None /\ \A o \in OpIds : o # None
        BY <2>1, <4>1, OperationsAssumption
      <4>3. \A d \in Callers : d # c => CallerKey(d, k)'
        <5>1. \A d \in Callers : d # c /\ cpc'[d] = "run" => cop[d] \in OpIds /\ CallerKey(d, k) /\ cpc[d] = "run"
          BY <1>0, <2>2, <3>1 DEF KeyInv, CallerInv, CallerOf
        <5> QED BY <1>3, <4>1, <4>2, <5>1 DEF CallerKey
      <4>4. CallerKey(c, k)'
        BY <1>3, <3>2, <4>1 DEF CallerKey
      <4>5. \A w \in Workers : WorkerKey(w, k)'
        BY <1>0, <1>1, <3>1, <4>1, <4>2 DEF KeyInv, WorkerKey, Works, WorkerInv, WorkerOf
      <4>6. \A s : OnlyLive(k, s)'
        BY <3>2, <4>1 DEF NoneLive, OnlyLive
      <4>7. MappedKey(k)'
        BY <4>6 DEF MappedKey
      <4>8. FreeKey(k)'
        BY <3>2, <4>1 DEF FreeKey
      <4> QED BY <4>3, <4>4, <4>5, <4>6, <4>7, <4>8 DEF KeyInv
    <3> QED BY <3>3, <3>4
  <2> QED BY <2>3, <2>4, <2>5 DEF KeysInv
<1> QED BY <1>2, <1>3 DEF StartMap

\* CreateSandbox judges the op its key already has.
LEMMA ExistedKeepsKeys ==
    ASSUME OpsInv, KeysInv, NEW c \in Callers, Existed(c)
    PROVE  KeysInv'
<1>0. OpsTypeOK /\ CallerInv /\ SandboxInv /\ StartInv
  BY DEF OpsInv, KeysInv
<1>1. cpc[c] = "existed" /\ UNCHANGED <<opstore, idem, sandbox, stolen, wpc, wfn, wop, wcopy>>
  BY DEF Existed, store, workers
<1>2. CASE CReturn(c) /\ UNCHANGED rerun
  BY <1>1, <1>2, ReturnKeepsKeys
<1>3. CASE /\ call[c] = "agent-run" /\ CGoto(c, "run") /\ rerun' = rerun \cup {ckey[c]}
           /\ UNCHANGED <<call, ckey, cop, ccopy>>
  <2>1. cpc'[c] = "run" /\ \A d \in Callers : d # c => cpc'[d] = cpc[d]
    BY <1>0, <1>3 DEF OpsTypeOK, CGoto
  <2>2. StartInv'
    <3>1. rerun \subseteq rerun'
      BY <1>3
    <3>2. \A d \in Callers : d # c => StartFor(d)'
      BY <1>0, <1>1, <1>3, <2>1, <3>1, SameStart
    <3>3. StartFor(c)'
      BY <2>1 DEF StartFor
    <3> QED BY <3>2, <3>3 DEF StartInv
  <2>3. \A d \in Callers : cpc'[d] = "run" /\ call'[d] = "provision" => cpc[d] = "run"
    BY <1>3, <2>1
  <2>4. rerun \subseteq rerun'
    BY <1>3
  <2> QED BY <1>1, <1>3, <2>2, <2>3, <2>4, HandlersOnly
<1>4. CASE /\ ProvisionSandboxGone(ccopy[c]) /\ CGoto(c, "clear")
           /\ UNCHANGED <<call, ckey, cop, ccopy, rerun>>
  <2>1. cpc'[c] = "clear" /\ \A d \in Callers : d # c => cpc'[d] = cpc[d]
    BY <1>0, <1>4 DEF OpsTypeOK, CGoto
  <2>2. ccopy[c].state = "done"
    BY <1>4 DEF ProvisionSandboxGone
  <2>3. StartInv'
    <3>1. \A d \in Callers : d # c => StartFor(d)'
      BY <1>0, <1>1, <1>4, <2>1, SameStart
    <3>2. StartFor(c)'
      <4>1. StartFor(c)
        BY <1>0 DEF StartInv
      <4>2. UNCHANGED <<opstore, idem, sandbox, rerun, cop, ccopy>> /\ ProvisionSandboxGone(ccopy[c])
        BY <1>1, <1>4
      <4>3. ProvisionSandboxGone(ccopy[c])' /\ MadeBy(ccopy[c])' /\ (Own(cop[c])' => Own(cop[c]))
        BY <1>1, <4>1, <4>2 DEF ProvisionSandboxGone, MadeBy, Own, StartFor
      <4> QED BY <1>1, <2>1, <2>2, <4>1, <4>2, <4>3 DEF StartFor
    <3> QED BY <3>1, <3>2 DEF StartInv
  <2>4. \A d \in Callers : cpc'[d] = "run" => cpc[d] = "run"
    BY <2>1
  <2> QED BY <1>1, <1>4, <2>3, <2>4, HandlersOnly
<1> QED BY <1>2, <1>3, <1>4 DEF Existed

\* The op that was judged stale has no living sandbox, so the key has none
\* when its mapping is dropped.
LEMMA ClearIdempotencyKeepsKeys ==
    ASSUME OpsInv, KeysInv, NEW c \in Callers, ClearIdempotency(c)
    PROVE  KeysInv'
<1>0. OpsTypeOK /\ CallerInv /\ WorkerInv /\ SandboxInv /\ StartInv /\ \A k \in SoundKeys : KeyInv(k)
  BY DEF OpsInv, KeysInv
<1>1. /\ cpc[c] = "clear" /\ omu = None /\ CGoto(c, "start")
      /\ idem' = [idem EXCEPT ![ckey[c]] = None]
      /\ stolen' = IF idem[ckey[c]] \in {cop[c], None} THEN stolen ELSE stolen \cup {ckey[c]}
      /\ UNCHANGED <<opstore, sandbox, rerun, call, ckey, cop, ccopy, wpc, wfn, wop, wcopy>>
  BY DEF ClearIdempotency, workers
<1>2. ckey[c] \in Keys /\ call[c] = "provision"
  <2>1. ckey[c] \in Keys \cup {NoKey}
    BY <1>0 DEF OpsTypeOK
  <2> QED BY <1>0, <1>1, <2>1 DEF CallerInv, CallerOf
<1>3. /\ cpc'[c] = "start" /\ \A d \in Callers : d # c => cpc'[d] = cpc[d]
      /\ idem'[ckey[c]] = None /\ \A k \in Keys : k # ckey[c] => idem'[k] = idem[k]
  BY <1>0, <1>1, <1>2 DEF OpsTypeOK, CGoto
<1>4. \A d \in Callers : cpc[d] \notin {"put", "map"}
  <2>1. \A d \in Callers : d # None
    BY OperationsAssumption
  <2>2. \A d \in Callers : omu = d <=> cpc[d] \in {"put", "map"}
    BY <1>0 DEF OpsTypeOK
  <2> QED BY <1>1, <2>1, <2>2
<1>5. SandboxInv'
  BY <1>0, <1>1 DEF SandboxInv, MadeBy
<1>6. StartInv'
  <2>1. ASSUME NEW d \in Callers PROVE StartFor(d)'
    <3>1. StartFor(d) /\ cpc'[d] \in {cpc[d], "start"} /\ cpc[d] \notin {"put", "map"}
      BY <1>0, <1>3, <1>4 DEF StartInv
    <3>2. UNCHANGED <<opstore, sandbox, cop, ccopy, rerun>>
      BY <1>1
    <3> QED BY <3>1, <3>2 DEF StartFor, ProvisionSandboxGone, MadeBy, Own
  <2> QED BY <2>1 DEF StartInv
<1>7. ASSUME NEW k \in SoundKeys' PROVE KeyInv(k)'
  <2>1. k \in SoundKeys /\ k \in Keys /\ k \notin rerun /\ (k = ckey[c] => idem[k] \in {cop[c], None})
    BY <1>1, <1>7 DEF SoundKeys
  <2>2. KeyInv(k)
    BY <1>0, <2>1
  <2>3. /\ \A s \in Sids : Live(s, k)' <=> Live(s, k)
        /\ NoneLive(k)' <=> NoneLive(k)
        /\ \A s : OnlyLive(k, s)' <=> OnlyLive(k, s)
    BY <1>1, SameLive
  <2>4. CASE k # ckey[c]
    <3>1. idem'[k] = idem[k]
      BY <1>3, <2>1, <2>4
    <3>2. \A d \in Callers : CallerKey(d, k)'
      BY <1>1, <1>3, <2>2, <2>3, <2>4, <3>1 DEF KeyInv, CallerKey
    <3>3. \A w \in Workers : WorkerKey(w, k)'
      BY <1>1, <2>2, <2>3, <3>1 DEF KeyInv, WorkerKey, Works
    <3>4. MappedKey(k)'
      BY <1>1, <2>2, <2>3, <3>1 DEF KeyInv, MappedKey
    <3>5. FreeKey(k)'
      BY <1>1, <2>2, <2>3, <3>1 DEF KeyInv, FreeKey
    <3> QED BY <2>2, <2>3, <3>2, <3>3, <3>4, <3>5 DEF KeyInv
  <2>5. CASE k = ckey[c]
    <3>1. idem'[k] = None
      BY <1>3, <2>5
    <3>0. Own(cop[c]) /\ cop[c] \in OpIds
      BY <1>0, <1>1, <2>1, <2>5 DEF CallerInv, CallerOf, Own
    <3>2. /\ opstore[cop[c]] = ccopy[c] /\ ccopy[c].state = "done"
          /\ sandbox[ccopy[c].sandbox].at = "peer" \/ sandbox[ccopy[c].sandbox].fate # "live"
      BY <1>0, <1>1, <3>0 DEF StartInv, StartFor, Terminal, ProvisionSandboxGone
    <3>3. \A o \in OpIds : o # None
      BY OperationsAssumption
    <3>4. idem[k] = cop[c] => NoneLive(k) \/ OnlyLive(k, ccopy[c].sandbox)
      BY <2>2, <3>0, <3>2, <3>3 DEF KeyInv, MappedKey, FreeKey
    <3>11. ~Live(ccopy[c].sandbox, k)
      BY <3>2 DEF Live
    <3>5. NoneLive(k)
      BY <2>1, <2>2, <2>5, <3>4, <3>11 DEF KeyInv, FreeKey, NoneLive, OnlyLive
    <3>6. \A o \in OpIds : idem[k] = o => opstore[o].state \in Terminal
      BY <2>1, <2>5, <3>2, <3>3 DEF Terminal
    <3>7. ASSUME NEW d \in Callers PROVE CallerKey(d, k)'
      <4>1. CASE d = c
        BY <1>3, <4>1 DEF CallerKey
      <4>2. CASE d # c
        <5>1. CallerKey(d, k) /\ cpc'[d] = cpc[d]
          BY <1>3, <2>2, <4>2 DEF KeyInv
        <5>2. (cpc[d] = "run" /\ ckey[d] = k) => cop[d] \in OpIds /\ opstore[cop[d]].state \notin Terminal
          BY <1>0, <2>1 DEF CallerInv, CallerOf, Holds, Own
        <5> QED BY <1>1, <3>6, <5>1, <5>2 DEF CallerKey
      <4> QED BY <4>1, <4>2
    <3>8. ASSUME NEW w \in Workers PROVE WorkerKey(w, k)'
      <4>1. WorkerKey(w, k) /\ UNCHANGED <<opstore, wpc, wfn, wop, wcopy>>
        BY <1>1, <2>2 DEF KeyInv
      <4>2. (Works(w) /\ opstore[wop[w]].key = k) => wop[w] \in OpIds /\ opstore[wop[w]].state \notin Terminal
        BY <1>0, <2>1 DEF WorkerInv, WorkerOf, Own
      <4> QED BY <3>6, <4>1, <4>2 DEF WorkerKey, Works
    <3>9. MappedKey(k)'
      BY <3>1 DEF MappedKey
    <3>10. \A s \in Sids : Live(s, k)' => OnlyLive(k, s)'
      BY <2>3, <3>5 DEF NoneLive
    <3> QED BY <2>3, <3>5, <3>7, <3>8, <3>9, <3>10 DEF KeyInv, FreeKey
  <2> QED BY <2>4, <2>5
<1> QED BY <1>5, <1>6, <1>7 DEF KeysInv

\* Run hands its op to a goroutine.
LEMMA RunKeepsKeys ==
    ASSUME OpsInv, KeysInv, NEW c \in Callers, Run(c)
    PROVE  KeysInv'
<1>0. OpsTypeOK /\ CallerInv /\ SandboxInv /\ StartInv /\ \A k \in SoundKeys : KeyInv(k)
  BY DEF OpsInv, KeysInv
<1>1. cpc[c] = "run" /\ CReturn(c) /\ UNCHANGED <<opstore, idem, sandbox, stolen, rerun, wcopy>>
  BY DEF Run, store, history
<1>2. PICK w \in Workers : /\ wpc[w] = "idle" /\ WGoto(w, "get")
                           /\ wfn' = [wfn EXCEPT ![w] = call[c]] /\ wop' = [wop EXCEPT ![w] = cop[c]]
  BY DEF Run
<1>3. /\ wpc'[w] = "get" /\ wfn'[w] = call[c] /\ wop'[w] = cop[c]
      /\ \A v \in Workers : v # w => wpc'[v] = wpc[v] /\ wfn'[v] = wfn[v] /\ wop'[v] = wop[v]
  BY <1>0, <1>2 DEF OpsTypeOK, WGoto
<1>4. /\ cpc'[c] = "idle"
      /\ \A d \in Callers : d # c => /\ cpc'[d] = cpc[d] /\ call'[d] = call[d] /\ ckey'[d] = ckey[d]
                                     /\ cop'[d] = cop[d] /\ ccopy'[d] = ccopy[d]
  BY <1>0, <1>1 DEF OpsTypeOK, CReturn, CGoto
<1>5. SandboxInv'
  BY <1>0, <1>1, <1>3 DEF SandboxInv, MadeBy
<1>6. StartInv'
  <2>1. \A d \in Callers : d # c => StartFor(d)'
    BY <1>0, <1>1, <1>4, SameStart
  <2>2. StartFor(c)'
    BY <1>4 DEF StartFor
  <2> QED BY <2>1, <2>2 DEF StartInv
<1>7. ASSUME NEW k \in SoundKeys' PROVE KeyInv(k)'
  <2>1. KeyInv(k)
    BY <1>0, <1>1, <1>7 DEF SoundKeys
  <2>2. /\ \A s \in Sids : Live(s, k)' <=> Live(s, k)
        /\ NoneLive(k)' <=> NoneLive(k)
        /\ \A s : OnlyLive(k, s)' <=> OnlyLive(k, s)
    BY <1>1, SameLive
  <2>3. ASSUME NEW d \in Callers PROVE CallerKey(d, k)'
    BY <1>1, <1>4, <2>1, <2>2 DEF KeyInv, CallerKey
  <2>4. WorkerKey(w, k)'
    <3>1. CallerKey(c, k) /\ opstore[cop[c]].key = ckey[c]
      BY <1>0, <1>1, <2>1 DEF KeyInv, CallerInv, CallerOf
    <3> QED BY <1>1, <1>3, <2>2, <3>1 DEF CallerKey, WorkerKey
  <2>5. \A v \in Workers : v # w => WorkerKey(v, k)'
    BY <1>1, <1>3, <2>1, <2>2 DEF KeyInv, WorkerKey, Works
  <2>6. MappedKey(k)'
    BY <1>1, <2>1, <2>2 DEF KeyInv, MappedKey
  <2>7. FreeKey(k)'
    BY <1>1, <2>1, <2>2 DEF KeyInv, FreeKey
  <2> QED BY <2>1, <2>2, <2>3, <2>4, <2>5, <2>6, <2>7 DEF KeyInv
<1> QED BY <1>5, <1>6, <1>7 DEF KeysInv

\* A goroutine's put of its copy, while the op is settled at most by it.
LEMMA PutKeepsKeys ==
    ASSUME OpsInv, KeysInv, NEW w \in Workers, wpc[w] \in {"mark", "finish"},
           PutOrFail(wop[w], wcopy[w]),
           \A v \in Workers : v # w => wpc'[v] = wpc[v] /\ wfn'[v] = wfn[v] /\ wop'[v] = wop[v] /\ wcopy'[v] = wcopy[v],
           \/ wpc[w] = "finish" /\ wpc'[w] = "idle"
           \/ wpc[w] = "mark" /\ wpc'[w] = "fn" /\ wfn'[w] = wfn[w] /\ wop'[w] = wop[w],
           UNCHANGED <<idem, sandbox, stolen, rerun, cpc, call, ckey, cop, ccopy>>
    PROVE  KeysInv'
<1>0. OpsTypeOK /\ StoreInv /\ CallerInv /\ WorkerInv /\ SandboxInv /\ StartInv /\ \A k \in SoundKeys : KeyInv(k)
  BY DEF OpsInv, KeysInv
<1>1. /\ wop[w] \in OpIds /\ opstore[wop[w]] # None
      /\ wcopy[w] \in OpRecords
      /\ wcopy[w].type = opstore[wop[w]].type /\ wcopy[w].key = opstore[wop[w]].key
      /\ wcopy[w].state = "done" => wpc[w] = "finish"
  BY <1>0 DEF WorkerInv, WorkerOf, Works, Own
<1>2. /\ \A o \in OpIds : o # wop[w] => opstore'[o] = opstore[o]
      /\ opstore'[wop[w]] \in {opstore[wop[w]], wcopy[w]}
  <2>1. opstore' = opstore \/ opstore' = [opstore EXCEPT ![wop[w]] = wcopy[w]]
    BY DEF PutOrFail
  <2>2. opstore \in [OpIds -> OpRecords \cup {None}]
    BY <1>0 DEF OpsTypeOK
  <2> QED BY <1>1, <2>1, <2>2
<1>3. \A o \in OpIds : opstore[o] # None => opstore'[o].key = opstore[o].key
  BY <1>1, <1>2
<1>4. SandboxInv'
  <2>1. MadeBy(wcopy[w])
    BY <1>0, <1>1 DEF SandboxInv, MadeBy
  <2>2. \A o \in OpIds : opstore'[o] # None => MadeBy(opstore'[o])
    BY <1>0, <1>1, <1>2, <2>1 DEF SandboxInv
  <2>3. \A v \in Workers : wpc'[v] = "finish" => v # w
    OBVIOUS
  <2> QED BY <1>0, <2>2, <2>3 DEF SandboxInv, MadeBy
<1>5. StartInv'
  <2>1. ASSUME NEW d \in Callers, cpc[d] \in {"existed", "clear"}, ccopy[d].state \in Terminal, Own(cop[d])'
        PROVE  opstore'[cop[d]] = ccopy[d]
    <3>1. cop[d] \in OpIds /\ opstore[cop[d]] # None
      BY <1>0, <2>1 DEF CallerInv, CallerOf
    <3>2. Own(cop[d])
      BY <1>3, <2>1, <3>1 DEF Own
    <3>3. opstore[cop[d]] = ccopy[d]
      BY <1>0, <2>1, <3>2 DEF StartInv, StartFor
    <3>4. Own(wop[w]) => opstore[wop[w]].state \notin Terminal
      BY <1>0 DEF WorkerInv, WorkerOf, Works
    <3>5. cop[d] # wop[w]
      BY <2>1, <3>2, <3>3, <3>4
    <3> QED BY <1>2, <3>1, <3>3, <3>5
  <2>2. ASSUME NEW d \in Callers PROVE StartFor(d)'
    <3>1. StartFor(d)
      BY <1>0 DEF StartInv
    <3> QED BY <2>1, <3>1 DEF StartFor, ProvisionSandboxGone, MadeBy
  <2> QED BY <2>2 DEF StartInv
<1>6. ASSUME NEW k \in SoundKeys' PROVE KeyInv(k)'
  <2>1. KeyInv(k) /\ k \in Keys
    BY <1>0, <1>6 DEF SoundKeys
  <2>2. /\ \A s \in Sids : Live(s, k)' <=> Live(s, k)
        /\ NoneLive(k)' <=> NoneLive(k)
        /\ \A s : OnlyLive(k, s)' <=> OnlyLive(k, s)
    BY SameLive
  <2>3. \A d \in Callers : CallerKey(d, k)'
    BY <2>1, <2>2 DEF KeyInv, CallerKey
  <2>4. ASSUME NEW v \in Workers, v # w PROVE WorkerKey(v, k)'
    <3>1. WorkerKey(v, k) /\ (Works(v) => wop[v] \in OpIds /\ opstore[wop[v]] # None)
      BY <1>0, <2>1 DEF KeyInv, WorkerInv, WorkerOf
    <3>2. Works(v) => opstore'[wop[v]].key = opstore[wop[v]].key
      BY <1>3, <3>1
    <3> QED BY <2>2, <2>4, <3>1, <3>2 DEF WorkerKey, Works
  <2>5. WorkerKey(w, k)'
    <3>1. WorkerKey(w, k) /\ opstore'[wop[w]].key = opstore[wop[w]].key
      BY <1>1, <1>3, <2>1 DEF KeyInv
    <3>2. CASE wpc[w] = "finish" /\ wpc'[w] = "idle"
      <4>1. ~Works(w)'
        BY <3>2 DEF Works
      <4> QED BY <4>1 DEF WorkerKey
    <3>3. CASE wpc[w] = "mark" /\ wpc'[w] = "fn" /\ wfn'[w] = wfn[w] /\ wop'[w] = wop[w]
      <4>1. Works(w) /\ wpc[w] # "finish" /\ wpc'[w] # "finish"
        BY <3>3 DEF Works
      <4>2. (wfn'[w] = "provision" /\ opstore'[wop'[w]].key = k) => idem'[k] = wop'[w] /\ NoneLive(k)'
        BY <2>2, <3>1, <3>3, <4>1 DEF WorkerKey
      <4> QED BY <4>1, <4>2 DEF WorkerKey
    <3> QED BY <3>2, <3>3
  <2>6. MappedKey(k)'
    <3>1. CASE idem[k] = wop[w] /\ opstore'[wop[w]] = wcopy[w] /\ wcopy[w].state = "done" /\ wcopy[w].type = "provision"
      <4>1. opstore[wop[w]].key = k
        BY <1>0, <1>1, <2>1, <3>1, OperationsAssumption DEF StoreInv, NoDanglingKey
      <4>3. k \notin rerun
        BY <1>6 DEF SoundKeys
      <4>4. Works(w) /\ Own(wop[w]) /\ WorkerOf(w)
        BY <1>0, <4>1, <4>3 DEF Works, Own, WorkerInv
      <4>5. wfn[w] = "provision"
        BY <1>1, <3>1, <4>4 DEF WorkerOf
      <4>2. OnlyLive(k, wcopy[w].sandbox)
        BY <1>1, <2>1, <3>1, <4>1, <4>4, <4>5 DEF KeyInv, WorkerKey
      <4> QED BY <2>2, <3>1, <4>2 DEF MappedKey
    <3>2. CASE idem[k] # None /\ opstore'[idem[k]] = opstore[idem[k]]
      BY <2>1, <2>2, <3>2 DEF KeyInv, MappedKey
    <3>3. idem[k] \in OpIds \cup {None}
      BY <1>0, <2>1 DEF OpsTypeOK
    <3> QED BY <1>2, <3>1, <3>2, <3>3 DEF MappedKey
  <2>7. FreeKey(k)'
    <3>1. idem[k] \in OpIds \cup {None} /\ (idem[k] # None => opstore[idem[k]] # None)
      BY <1>0, <2>1 DEF OpsTypeOK, StoreInv, NoDanglingKey
    <3>2. \A o \in OpIds : opstore[o] # None => opstore'[o].type = opstore[o].type
      BY <1>1, <1>2
    <3> QED BY <2>1, <2>2, <3>1, <3>2 DEF KeyInv, FreeKey
  <2> QED BY <2>1, <2>2, <2>3, <2>4, <2>5, <2>6, <2>7 DEF KeyInv
<1> QED BY <1>4, <1>5, <1>6 DEF KeysInv
\* The goroutine reads its op.
LEMMA RunGetKeepsKeys ==
    ASSUME OpsInv, KeysInv, NEW w \in Workers, RunGet(w)
    PROVE  KeysInv'
<1>0. OpsTypeOK /\ SandboxInv /\ StartInv /\ \A k \in SoundKeys : KeyInv(k)
  BY DEF OpsInv, KeysInv
<1>1. /\ wpc[w] = "get" /\ WGoto(w, "mark")
      /\ wcopy' = [wcopy EXCEPT ![w] = [opstore[wop[w]] EXCEPT !.state = "running"]]
      /\ UNCHANGED <<opstore, idem, sandbox, stolen, rerun, cpc, call, ckey, cop, ccopy, wfn, wop>>
  BY DEF RunGet, store, callers, history
<1>2. wpc'[w] = "mark" /\ \A v \in Workers : v # w => wpc'[v] = wpc[v] /\ wcopy'[v] = wcopy[v]
  BY <1>0, <1>1 DEF OpsTypeOK, WGoto
<1>3. SandboxInv'
  BY <1>0, <1>1, <1>2 DEF SandboxInv, MadeBy
<1>4. StartInv'
  BY <1>0, <1>1, SameStart DEF StartInv
<1>5. ASSUME NEW k \in SoundKeys' PROVE KeyInv(k)'
  <2>1. KeyInv(k)
    BY <1>0, <1>1, <1>5 DEF SoundKeys
  <2>2. /\ \A s \in Sids : Live(s, k)' <=> Live(s, k)
        /\ NoneLive(k)' <=> NoneLive(k)
        /\ \A s : OnlyLive(k, s)' <=> OnlyLive(k, s)
    BY <1>1, SameLive
  <2>3. \A d \in Callers : CallerKey(d, k)'
    BY <1>1, <2>1, <2>2 DEF KeyInv, CallerKey
  <2>4. \A v \in Workers : v # w => WorkerKey(v, k)'
    BY <1>1, <1>2, <2>1, <2>2 DEF KeyInv, WorkerKey, Works
  <2>5. WorkerKey(w, k)'
    BY <1>1, <1>2, <2>1, <2>2 DEF KeyInv, WorkerKey, Works
  <2>6. MappedKey(k)'
    BY <1>1, <2>1, <2>2 DEF KeyInv, MappedKey
  <2>7. FreeKey(k)'
    BY <1>1, <2>1, <2>2 DEF KeyInv, FreeKey
  <2> QED BY <2>1, <2>2, <2>3, <2>4, <2>5, <2>6, <2>7 DEF KeyInv
<1> QED BY <1>3, <1>4, <1>5 DEF KeysInv

\* The goroutine marks its op running.
LEMMA RunMarkKeepsKeys ==
    ASSUME OpsInv, KeysInv, NEW w \in Workers, RunMark(w)
    PROVE  KeysInv'
<1>0. OpsTypeOK
  BY DEF OpsInv
<1>1. /\ wpc[w] = "mark" /\ WGoto(w, "fn") /\ PutOrFail(wop[w], wcopy[w])
      /\ UNCHANGED <<idem, sandbox, stolen, rerun, cpc, call, ckey, cop, ccopy, wfn, wop, wcopy>>
  BY DEF RunMark, callers
<1>2. wpc'[w] = "fn" /\ \A v \in Workers : v # w => wpc'[v] = wpc[v]
  BY <1>0, <1>1 DEF OpsTypeOK, WGoto
<1> QED BY <1>1, <1>2, PutKeepsKeys

\* The goroutine puts what came of its op.
LEMMA RunFinishKeepsKeys ==
    ASSUME OpsInv, KeysInv, NEW w \in Workers, RunFinish(w)
    PROVE  KeysInv'
<1>0. OpsTypeOK
  BY DEF OpsInv
<1>1. /\ wpc[w] = "finish" /\ WGoto(w, "idle") /\ PutOrFail(wop[w], wcopy[w])
      /\ wfn' = [wfn EXCEPT ![w] = None] /\ wop' = [wop EXCEPT ![w] = None] /\ wcopy' = [wcopy EXCEPT ![w] = None]
      /\ UNCHANGED <<idem, sandbox, stolen, rerun, cpc, call, ckey, cop, ccopy>>
  BY DEF RunFinish, callers
<1>2. /\ wpc'[w] = "idle"
      /\ \A v \in Workers : v # w => /\ wpc'[v] = wpc[v] /\ wfn'[v] = wfn[v] /\ wop'[v] = wop[v]
                                     /\ wcopy'[v] = wcopy[v]
  BY <1>0, <1>1 DEF OpsTypeOK, WGoto
<1> QED BY <1>1, <1>2, PutKeepsKeys

\* What fn changes when it makes no sandbox: only its own copy, which is then
\* not done or names a sandbox that exists.
LEMMA NoCreateKeepsKeys ==
    ASSUME OpsInv, KeysInv, NEW w \in Workers, wpc[w] = "fn", wpc'[w] = "finish",
           \A v \in Workers : v # w => wpc'[v] = wpc[v] /\ wcopy'[v] = wcopy[v],
           MadeBy(wcopy'[w]), wfn[w] = "provision" => wcopy'[w].state # "done",
           UNCHANGED <<opstore, idem, sandbox, stolen, rerun, cpc, call, ckey, cop, ccopy, wfn, wop>>
    PROVE  KeysInv'
<1>0. SandboxInv /\ StartInv /\ \A k \in SoundKeys : KeyInv(k)
  BY DEF KeysInv
<1>1. SandboxInv'
  BY <1>0 DEF SandboxInv, MadeBy
<1>2. StartInv'
  BY <1>0, SameStart DEF StartInv
<1>3. ASSUME NEW k \in SoundKeys' PROVE KeyInv(k)'
  <2>1. KeyInv(k)
    BY <1>0, <1>3 DEF SoundKeys
  <2>2. /\ \A s \in Sids : Live(s, k)' <=> Live(s, k)
        /\ NoneLive(k)' <=> NoneLive(k)
        /\ \A s : OnlyLive(k, s)' <=> OnlyLive(k, s)
    BY SameLive
  <2>3. \A d \in Callers : CallerKey(d, k)'
    BY <2>1, <2>2 DEF KeyInv, CallerKey
  <2>4. \A v \in Workers : v # w => WorkerKey(v, k)'
    BY <2>1, <2>2 DEF KeyInv, WorkerKey, Works
  <2>5. WorkerKey(w, k)'
    BY <2>1, <2>2 DEF KeyInv, WorkerKey, Works
  <2>6. MappedKey(k)'
    BY <2>1, <2>2 DEF KeyInv, MappedKey
  <2>7. FreeKey(k)'
    BY <2>1, <2>2 DEF KeyInv, FreeKey
  <2> QED BY <2>1, <2>2, <2>3, <2>4, <2>5, <2>6, <2>7 DEF KeyInv
<1> QED BY <1>1, <1>2, <1>3 DEF KeysInv

\* fn makes the first sandbox its key has on this node, or one on a peer.
LEMMA CreateKeepsKeys ==
    ASSUME OpsInv, KeysInv, NEW w \in Workers, NEW s \in Sids,
           wpc[w] = "fn", wpc'[w] = "finish", wfn[w] = "provision",
           \A v \in Workers : v # w => wpc'[v] = wpc[v] /\ wcopy'[v] = wcopy[v],
           wcopy'[w].state = "done", wcopy'[w].sandbox = s,
           sandbox[s] = None, sandbox'[s] # None, sandbox'[s].key = wcopy[w].key,
           \A t \in Sids : t # s => sandbox'[t] = sandbox[t],
           UNCHANGED <<opstore, idem, stolen, rerun, cpc, call, ckey, cop, ccopy, wfn, wop>>
    PROVE  KeysInv'
<1>0. OpsTypeOK /\ WorkerInv /\ OneHand /\ CallerInv /\ SandboxInv /\ StartInv /\ \A k \in SoundKeys : KeyInv(k)
  BY DEF OpsInv, KeysInv
<1>1. /\ wop[w] \in OpIds /\ opstore[wop[w]].type = "provision"
      /\ Own(wop[w]) => opstore[wop[w]].state \notin Terminal
      /\ wcopy[w].key = opstore[wop[w]].key
  BY <1>0 DEF WorkerInv, WorkerOf, Works
<1>2. \A op : MadeBy(op) => MadeBy(op)'
  BY DEF MadeBy
<1>3. SandboxInv'
  <2>2. \A o \in OpIds : opstore'[o] # None => MadeBy(opstore[o])'
    BY <1>0, <1>2 DEF SandboxInv
  <2>3. MadeBy(wcopy[w])'
    BY DEF MadeBy
  <2>4. \A v \in Workers : v # w /\ wpc'[v] = "finish" => MadeBy(wcopy[v])'
    BY <1>0, <1>2 DEF SandboxInv
  <2> QED BY <2>2, <2>3, <2>4 DEF SandboxInv
<1>4. StartInv'
  <2>1. ASSUME NEW d \in Callers PROVE StartFor(d)'
    <3>1. StartFor(d)
      BY <1>0 DEF StartInv
    <3>2. cpc[d] \in {"existed", "clear"} => MadeBy(ccopy[d]) /\ MadeBy(ccopy[d])'
      BY <1>2, <3>1 DEF StartFor
    <3>3. (cpc[d] = "clear" /\ MadeBy(ccopy[d]) /\ ProvisionSandboxGone(ccopy[d])) => ProvisionSandboxGone(ccopy[d])'
      BY DEF MadeBy, ProvisionSandboxGone
    <3>4. Own(cop[d])' => Own(cop[d])
      BY DEF Own
    <3> QED BY <3>1, <3>2, <3>3, <3>4 DEF StartFor
  <2> QED BY <2>1 DEF StartInv
<1>5. ASSUME NEW k \in SoundKeys' PROVE KeyInv(k)'
  <2>1. KeyInv(k) /\ k \notin rerun
    BY <1>0, <1>5 DEF SoundKeys
  <2>2. CASE wcopy[w].key # k
    <3>1. \A t \in Sids : Live(t, k)' <=> Live(t, k)
      BY <2>2 DEF Live
    <3>2. (NoneLive(k)' <=> NoneLive(k)) /\ \A t : OnlyLive(k, t)' <=> OnlyLive(k, t)
      BY <3>1 DEF NoneLive, OnlyLive
    <3>3. \A d \in Callers : CallerKey(d, k)'
      BY <2>1, <3>2 DEF KeyInv, CallerKey
    <3>4. \A v \in Workers : v # w => WorkerKey(v, k)'
      BY <2>1, <3>2 DEF KeyInv, WorkerKey, Works
    <3>5. WorkerKey(w, k)'
      BY <1>1, <2>2 DEF WorkerKey
    <3>6. MappedKey(k)'
      BY <2>1, <3>2 DEF KeyInv, MappedKey
    <3>7. FreeKey(k)'
      BY <2>1, <3>2 DEF KeyInv, FreeKey
    <3> QED BY <2>1, <3>1, <3>2, <3>3, <3>4, <3>5, <3>6, <3>7 DEF KeyInv
  <2>3. CASE wcopy[w].key = k
    <3>1. idem[k] = wop[w] /\ NoneLive(k) /\ Own(wop[w])
      BY <1>1, <2>1, <2>3 DEF KeyInv, WorkerKey, Works, Own
    <3>2. \A t \in Sids : t # s => ~Live(t, k)'
      BY <3>1 DEF NoneLive, Live
    <3>3. OnlyLive(k, s)'
      BY <3>2 DEF OnlyLive
    <3>4. \A t \in Sids : Live(t, k)' => OnlyLive(k, t)'
      BY <3>2, <3>3
    <3>5. idem'[k] # None
      BY <1>1, <3>1, OperationsAssumption
    <3>6. ASSUME NEW d \in Callers PROVE CallerKey(d, k)'
      <4>1. CallerKey(d, k)
        BY <2>1 DEF KeyInv
      <4>2. cpc[d] = "run" => cop[d] # wop[w]
        BY <1>0, <3>1 DEF OneHand, Holds, Works
      <4> QED BY <3>1, <4>1, <4>2 DEF CallerKey
    <3>7. ASSUME NEW v \in Workers, v # w PROVE WorkerKey(v, k)'
      <4>1. WorkerKey(v, k)
        BY <2>1 DEF KeyInv
      <4>2. Works(v) => wop[v] # wop[w]
        BY <1>0, <3>1, <3>7 DEF OneHand, Works
      <4> QED BY <3>1, <3>7, <4>1, <4>2 DEF WorkerKey, Works
    <3>8. WorkerKey(w, k)'
      BY <3>1, <3>3 DEF WorkerKey
    <3>9. MappedKey(k)'
      BY <1>1, <3>1 DEF MappedKey, Terminal
    <3>10. FreeKey(k)'
      BY <1>1, <3>1, <3>5 DEF FreeKey
    <3> QED BY <3>4, <3>6, <3>7, <3>8, <3>9, <3>10 DEF KeyInv
  <2> QED BY <2>2, <2>3
<1> QED BY <1>3, <1>4, <1>5 DEF KeysInv
\* fn makes a sandbox, works in one, or fails.
LEMMA RunFnKeepsKeys ==
    ASSUME OpsInv, KeysInv, NEW w \in Workers, RunFn(w)
    PROVE  KeysInv'
<1>0. OpsTypeOK /\ WorkerInv
  BY DEF OpsInv
<1>1. /\ wpc[w] = "fn" /\ WGoto(w, "finish")
      /\ UNCHANGED <<opstore, idem, stolen, rerun, cpc, call, ckey, cop, ccopy, wfn, wop>>
  BY DEF RunFn, store, callers, history
<1>2. wpc'[w] = "finish" /\ \A v \in Workers : v # w => wpc'[v] = wpc[v]
  BY <1>0, <1>1 DEF OpsTypeOK, WGoto
<1>3. wcopy \in [Workers -> OpRecords \cup {None}] /\ wcopy[w] \in OpRecords /\ sandbox \in [Sids -> Sandboxes \cup {None}]
  BY <1>0, <1>1 DEF OpsTypeOK, WorkerInv, WorkerOf
<1>4. ASSUME NEW s \in Sids, wcopy' = [wcopy EXCEPT ![w].state = "done", ![w].sandbox = s]
      PROVE  /\ wcopy'[w].state = "done" /\ wcopy'[w].sandbox = s
             /\ \A v \in Workers : v # w => wcopy'[v] = wcopy[v]
  <2> DEFINE m == [wcopy EXCEPT ![w].state = "done"]
  <2>1. wcopy' = [m EXCEPT ![w].sandbox = s]
    BY <1>4
  <2>2. /\ m[w] \in OpRecords /\ m[w].state = "done" /\ m \in [Workers -> OpRecords \cup {None}]
        /\ \A v \in Workers : v # w => m[v] = wcopy[v]
    BY <1>3 DEF OpRecords, States
  <2> HIDE DEF m
  <2> QED BY <2>1, <2>2 DEF OpRecords
<1>5. CASE wfn[w] = "provision" /\
           \E s \in Sids, at \in Places :
                /\ sandbox[s] = None
                /\ sandbox' = [sandbox EXCEPT ![s] = [at |-> at, fate |-> "live", key |-> wcopy[w].key]]
                /\ wcopy' = [wcopy EXCEPT ![w].state = "done", ![w].sandbox = s]
  <2>1. PICK s \in Sids, at \in Places :
                /\ sandbox[s] = None
                /\ sandbox' = [sandbox EXCEPT ![s] = [at |-> at, fate |-> "live", key |-> wcopy[w].key]]
                /\ wcopy' = [wcopy EXCEPT ![w].state = "done", ![w].sandbox = s]
    BY <1>5
  <2> DEFINE box == [at |-> at, fate |-> "live", key |-> wcopy[w].key]
  <2>2. box.key = wcopy[w].key
    OBVIOUS
  <2>3. box \in Sandboxes
    BY <1>3, OperationsAssumption DEF Sandboxes, OpRecords
  <2>4. box # None
    BY <2>3, OperationsAssumption
  <2>5. sandbox' = [sandbox EXCEPT ![s] = box]
    BY <2>1
  <2> HIDE DEF box
  <2>6. sandbox'[s] = box /\ \A t \in Sids : t # s => sandbox'[t] = sandbox[t]
    BY <1>3, <2>5
  <2>7. /\ wcopy'[w].state = "done" /\ wcopy'[w].sandbox = s
        /\ \A v \in Workers : v # w => wcopy'[v] = wcopy[v]
    BY <1>4, <2>1
  <2>8. sandbox'[s] # None /\ sandbox'[s].key = wcopy[w].key
    BY <2>2, <2>4, <2>6
  <2>9. sandbox[s] = None /\ \A t \in Sids : t # s => sandbox'[t] = sandbox[t]
    BY <2>1, <2>6
  <2>10. wfn[w] = "provision"
    BY <1>5
  <2> QED BY <1>1, <1>2, <2>7, <2>8, <2>9, <2>10, CreateKeepsKeys
<1>6. CASE wfn[w] = "agent-run" /\ UNCHANGED sandbox /\
           \E s \in Sids : sandbox[s] # None /\ wcopy' = [wcopy EXCEPT ![w].state = "done", ![w].sandbox = s]
  <2>1. PICK s \in Sids : sandbox[s] # None /\ wcopy' = [wcopy EXCEPT ![w].state = "done", ![w].sandbox = s]
    BY <1>6
  <2>2. /\ wcopy'[w].state = "done" /\ wcopy'[w].sandbox = s
        /\ \A v \in Workers : v # w => wcopy'[v] = wcopy[v]
    BY <1>4, <2>1
  <2>3. MadeBy(wcopy'[w]) /\ wfn[w] # "provision"
    BY <1>6, <2>1, <2>2 DEF MadeBy
  <2> QED BY <1>1, <1>2, <1>6, <2>2, <2>3, NoCreateKeepsKeys
<1>7. CASE wcopy' = [wcopy EXCEPT ![w].state = "error"] /\ UNCHANGED sandbox
  <2>1. wcopy'[w].state = "error" /\ \A v \in Workers : v # w => wcopy'[v] = wcopy[v]
    BY <1>3, <1>7 DEF OpRecords
  <2>2. MadeBy(wcopy'[w]) /\ wcopy'[w].state # "done"
    BY <2>1 DEF MadeBy
  <2> QED BY <1>1, <1>2, <1>7, <2>1, <2>2, NoCreateKeepsKeys
<1> QED BY <1>5, <1>6, <1>7 DEF RunFn

\* A sandbox that vanishes makes room, and stays made.
LEMMA VanishKeepsKeys ==
    ASSUME OpsInv, KeysInv, NEW s \in Sids, Vanish(s)
    PROVE  KeysInv'
<1>0. OpsTypeOK /\ SandboxInv /\ StartInv /\ \A k \in SoundKeys : KeyInv(k)
  BY DEF OpsInv, KeysInv
<1>1. /\ sandbox[s] # None
      /\ UNCHANGED <<opstore, idem, stolen, rerun, cpc, call, ckey, cop, ccopy, wpc, wfn, wop, wcopy>>
  BY DEF Vanish, store, callers, workers, history
<1>2. sandbox' = [sandbox EXCEPT ![s].fate = "gone"]
  BY DEF Vanish
<1>3. sandbox \in [Sids -> Sandboxes \cup {None}] /\ sandbox[s] \in Sandboxes
  BY <1>0, <1>1 DEF OpsTypeOK
<1> DEFINE box == [sandbox[s] EXCEPT !.fate = "gone"]
<1>4. box \in Sandboxes /\ box.fate # "live" /\ box.at = sandbox[s].at
  BY <1>3 DEF Sandboxes
<1>5. box # None /\ sandbox' = [sandbox EXCEPT ![s] = box]
  BY <1>2, <1>4, OperationsAssumption
<1> HIDE DEF box
<1>6. sandbox'[s] = box /\ \A t \in Sids : t # s => sandbox'[t] = sandbox[t]
  BY <1>3, <1>5
<1>7. SandboxInv'
  <2>2. \A op : MadeBy(op) => MadeBy(op)'
    BY <1>5, <1>6 DEF MadeBy
  <2> QED BY <1>0, <1>1, <2>2 DEF SandboxInv, MadeBy
<1>8. StartInv'
  <2>1. ASSUME NEW d \in Callers PROVE StartFor(d)'
    <3>1. StartFor(d)
      BY <1>0 DEF StartInv
    <3>2. UNCHANGED <<opstore, idem, rerun, cpc, ckey, cop, ccopy>>
      BY <1>1
    <3>3. cpc[d] \in {"existed", "clear"} => MadeBy(ccopy[d]) /\ MadeBy(ccopy[d])'
      BY <1>5, <1>6, <3>1, <3>2 DEF StartFor, MadeBy
    <3>4. (cpc[d] = "clear" /\ MadeBy(ccopy[d]) /\ ProvisionSandboxGone(ccopy[d])) => ProvisionSandboxGone(ccopy[d])'
      BY <1>4, <1>6, <3>2 DEF MadeBy, ProvisionSandboxGone
    <3>5. Own(cop[d])' => Own(cop[d])
      BY <3>2 DEF Own
    <3> QED BY <3>1, <3>2, <3>3, <3>4, <3>5 DEF StartFor
  <2> QED BY <2>1 DEF StartInv
<1>9. ASSUME NEW k \in SoundKeys' PROVE KeyInv(k)'
  <2>1. KeyInv(k)
    BY <1>0, <1>1, <1>9 DEF SoundKeys
  <2>2. \A t \in Sids : Live(t, k)' => Live(t, k)
    BY <1>4, <1>6 DEF Live
  <2>3. (NoneLive(k) => NoneLive(k)') /\ \A t : OnlyLive(k, t) => OnlyLive(k, t)'
    BY <2>2 DEF NoneLive, OnlyLive
  <2>4. \A d \in Callers : CallerKey(d, k)'
    BY <1>1, <2>1, <2>3 DEF KeyInv, CallerKey
  <2>5. \A w \in Workers : WorkerKey(w, k)'
    BY <1>1, <2>1, <2>3 DEF KeyInv, WorkerKey, Works
  <2>6. MappedKey(k)'
    BY <1>1, <2>1, <2>3 DEF KeyInv, MappedKey
  <2>7. FreeKey(k)'
    BY <1>1, <2>1, <2>3 DEF KeyInv, FreeKey
  <2> QED BY <2>1, <2>2, <2>3, <2>4, <2>5, <2>6, <2>7 DEF KeyInv
<1> QED BY <1>7, <1>8, <1>9 DEF KeysInv

\* With nobody at work only the store and the sandboxes matter.
LEMMA IdleKeepsKeys ==
    ASSUME KeysInv, UNCHANGED <<idem, sandbox, stolen, rerun>>,
           \A c \in Callers : cpc'[c] = "idle", \A w \in Workers : wpc'[w] = "idle",
           \A o \in OpIds : \/ opstore'[o] = opstore[o]
                            \/ opstore[o] # None /\ opstore'[o].state = "error" /\ opstore'[o].type = opstore[o].type,
           OpsTypeOK
    PROVE  KeysInv'
<1>0. SandboxInv /\ \A k \in SoundKeys : KeyInv(k)
  BY DEF KeysInv
<1>1. SandboxInv'
  BY <1>0 DEF SandboxInv, MadeBy
<1>2. StartInv'
  BY DEF StartInv, StartFor
<1>3. ASSUME NEW k \in SoundKeys' PROVE KeyInv(k)'
  <2>1. KeyInv(k) /\ k \in Keys
    BY <1>0, <1>3 DEF SoundKeys
  <2>2. /\ \A s \in Sids : Live(s, k)' <=> Live(s, k)
        /\ NoneLive(k)' <=> NoneLive(k)
        /\ \A s : OnlyLive(k, s)' <=> OnlyLive(k, s)
    BY SameLive
  <2>3. (\A d \in Callers : CallerKey(d, k)') /\ (\A w \in Workers : WorkerKey(w, k)')
    BY DEF CallerKey, WorkerKey, Works
  <2>4. idem[k] \in OpIds \cup {None}
    BY <2>1 DEF OpsTypeOK
  <2>5. MappedKey(k)'
    BY <2>1, <2>2, <2>4 DEF KeyInv, MappedKey
  <2>6. FreeKey(k)'
    BY <2>1, <2>2, <2>4 DEF KeyInv, FreeKey
  <2> QED BY <2>1, <2>2, <2>3, <2>5, <2>6 DEF KeyInv
<1> QED BY <1>1, <1>2, <1>3 DEF KeysInv

\* A crash forgets who was at work.
LEMMA CrashKeepsKeys ==
    ASSUME OpsInv, KeysInv, Crash
    PROVE  KeysInv'
<1>1. UNCHANGED <<opstore, idem, sandbox, stolen, rerun>> /\ OpsTypeOK
  BY DEF Crash, store, history, OpsInv
<1>2. (\A c \in Callers : cpc'[c] = "idle") /\ (\A w \in Workers : wpc'[w] = "idle")
  BY DEF Crash
<1> QED BY <1>1, <1>2, IdleKeepsKeys

\* The boot settles ops nobody works on.
LEMMA RecoverInterruptedKeepsKeys ==
    ASSUME OpsInv, KeysInv, RecoverInterrupted
    PROVE  KeysInv'
<1>1. /\ OpsTypeOK /\ phase = "boot" /\ BootInv
      /\ UNCHANGED <<idem, sandbox, stolen, rerun, cpc, wpc>>
  BY DEF RecoverInterrupted, callers, workers, OpsInv
<1>2. (\A c \in Callers : cpc'[c] = "idle") /\ (\A w \in Workers : wpc'[w] = "idle")
  BY <1>1 DEF BootInv
<1>3. \A o \in OpIds : \/ opstore'[o] = opstore[o]
                       \/ opstore[o] # None /\ opstore'[o].state = "error" /\ opstore'[o].type = opstore[o].type
  <2>1. CASE UNCHANGED opstore
    BY <2>1
  <2>2. CASE \E o \in Stranded : opstore' = [opstore EXCEPT ![o].state = "error"]
    <3>1. PICK o \in Stranded : opstore' = [opstore EXCEPT ![o].state = "error"]
      BY <2>2
    <3>2. opstore \in [OpIds -> OpRecords \cup {None}] /\ o \in OpIds /\ opstore[o] \in OpRecords /\ opstore[o] # None
      BY <1>1, <3>1 DEF OpsTypeOK, Stranded
    <3>3. opstore'[o].state = "error" /\ opstore'[o].type = opstore[o].type /\ \A p \in OpIds : p # o => opstore'[p] = opstore[p]
      BY <3>1, <3>2 DEF OpRecords
    <3> QED BY <3>2, <3>3
  <2> QED BY <2>1, <2>2 DEF RecoverInterrupted
<1> QED BY <1>1, <1>2, <1>3, IdleKeepsKeys

\* Every step keeps KeysInv when sandboxes are placed on this node only.
LEMMA NextKeepsKeys ==
    ASSUME OpsInv, KeysInv, Next
    PROVE  KeysInv'
<1>1. ASSUME NEW c \in Callers, CallerStep(c) PROVE KeysInv'
  BY <1>1, StartGetKeepsKeys, StartPutKeepsKeys, StartMapKeepsKeys, ExistedKeepsKeys,
     ClearIdempotencyKeepsKeys, RunKeepsKeys DEF CallerStep
<1>2. ASSUME NEW c \in Callers, NEW q \in Requests, Call(c, q[1], q[2]) PROVE KeysInv'
  BY <1>2, CallKeepsKeys
<1>3. ASSUME NEW w \in Workers, WorkerStep(w) PROVE KeysInv'
  BY <1>3, RunGetKeepsKeys, RunMarkKeepsKeys, RunFnKeepsKeys, RunFinishKeepsKeys DEF WorkerStep
<1> QED BY <1>1, <1>2, <1>3, VanishKeepsKeys, CrashKeepsKeys, RecoverInterruptedKeepsKeys DEF Next

\* Stuttering keeps it.
LEMMA StutterKeepsKeys ==
    ASSUME KeysInv, UNCHANGED vars
    PROVE  KeysInv'
<1>1. UNCHANGED <<opstore, idem, sandbox, stolen, rerun, cpc, call, ckey, cop, ccopy, wpc, wfn, wop, wcopy>> /\ StartInv
  BY DEF vars, store, callers, workers, history, KeysInv
<1>2. StartInv'
  BY <1>1, SameStart DEF StartInv
<1> QED BY <1>1, <1>2, HandlersOnly

\* It holds when the node is first started.
LEMMA InitHasKeys ==
    ASSUME Init
    PROVE  KeysInv
<1>1. /\ \A s \in Sids : sandbox[s] = None
      /\ \A o \in OpIds : opstore[o] = None
      /\ \A k \in Keys : idem[k] = None
      /\ \A c \in Callers : cpc[c] = "idle"
      /\ \A w \in Workers : wpc[w] = "idle"
  BY DEF Init
<1>2. SandboxInv /\ StartInv
  BY <1>1 DEF SandboxInv, StartInv, StartFor
<1>3. ASSUME NEW k \in SoundKeys PROVE KeyInv(k)
  <2>1. k \in Keys
    BY <1>3 DEF SoundKeys
  <2> QED BY <1>1, <2>1 DEF KeyInv, FreeKey, NoneLive, Live, CallerKey, WorkerKey, MappedKey, Works
<1> QED BY <1>2, <1>3 DEF KeysInv

\* The invariant bounds the living sandboxes of a key.
LEMMA KeysInvBounds ==
    ASSUME KeysInv, OpsInv
    PROVE  KeysAreSound
<1>1. ASSUME NEW k \in SoundKeys PROVE LivePerKey(k, {"local"}) <= 1
  <2>1. KeyInv(k)
    BY <1>1 DEF KeysInv
  <2> DEFINE L == {s \in Sids : /\ sandbox[s] # None /\ sandbox[s].key = k
                                /\ sandbox[s].fate = "live" /\ sandbox[s].at \in {"local"}}
  <2>2. CASE L = {}
    <3>1. Cardinality(L) = 0
      BY <2>2, FS_EmptySet
    <3> HIDE DEF L
    <3>2. Cardinality(L) <= 1
      BY SMTT(60), <3>1
    <3> QED BY <3>2 DEF LivePerKey, L
  <2>3. CASE L # {}
    <3>1. PICK s \in Sids : Live(s, k)
      BY <2>3 DEF Live
    <3>2. \A t \in Sids : Live(t, k) => t = s
      BY <2>1, <3>1 DEF KeyInv, OnlyLive
    <3>3. L = {s}
      BY <3>1, <3>2 DEF Live
    <3>4. Cardinality(L) = 1
      BY <3>3, FS_Singleton
    <3> HIDE DEF L
    <3>5. Cardinality(L) <= 1
      BY SMTT(60), <3>4
    <3> QED BY <3>5 DEF LivePerKey, L
  <2> QED BY <2>2, <2>3
<1>2. NoDanglingKey
  BY DEF OpsInv, StoreInv
<1> QED BY <1>1, <1>2 DEF KeysAreSound, OneLivePerKey, SoundKeys

\* KeysAreSound, wherever sandboxes are placed: however many clients retry
\* CreateSandbox with one key, whatever put fails and whenever the node dies, the
\* key names a stored operation of its own and has one living sandbox on the node
\* at most, until a mapping is stolen or AgentRun or PublishSandbox runs its op.
THEOREM OneSandboxPerKey == Spec => []KeysAreSound
<1>1. Init => KeysInv
  BY InitHasKeys
<1>2. OpsInv /\ KeysInv /\ [Next]_vars => KeysInv'
  BY NextKeepsKeys, StutterKeepsKeys
<1>3. OpsInv /\ KeysInv => KeysAreSound
  BY KeysInvBounds
<1> QED BY <1>1, <1>2, <1>3, OpsInvariant, PTL DEF Spec
=============================================================================
