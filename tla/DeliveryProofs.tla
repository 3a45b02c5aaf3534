--------------------------- MODULE DeliveryProofs ---------------------------
(***************************************************************************)
(* The Lambda handlers under a queue that delivers again, for any number   *)
(* of messages, containers, attempts and batch sizes: a deleted message is *)
(* stored, a failing one harms nobody, and snapshots are one invocation's. *)
(*                                                                         *)
(* The argument: at every moment of an invocation a message of its batch   *)
(* that has not failed has each of its objects stored or still to be       *)
(* attempted, so that an answer, which waits for the last attempt, finds   *)
(* them stored; and each receive of a message is either in progress or     *)
(* accounted for by `blame`, or it ended in such an answer.                *)
(***************************************************************************)
EXTENDS Delivery, FiniteSetTheorems, TLAPS

USE DeliveryAssumption

ContainerStates ==
    [pc : {"off", "init", "config", "run", "idle"}, batch : SUBSET Messages,
     left : SUBSET Objects, failed : SUBSET Messages, writing : SUBSET Objects,
     rules : BOOLEAN, cold : BOOLEAN, answered : BOOLEAN, pending : Nat]

(* The shape of the queue and of the containers.                           *)
DeliveryTypeOK ==
    /\ cfg \in Configs
    /\ queue \in [Messages -> {"visible", "flight", "deleted", "dead"}]
    /\ holder \in [Messages -> Containers \cup {Nobody}]
    /\ receives \in [Messages -> Nat]
    /\ blame \in [Messages -> Nat]
    /\ con \in [Containers -> ContainerStates]

(* What an invocation in progress still owes its batch: an undecodable     *)
(* body has failed, and the objects of a message that has not failed are   *)
(* stored, or left to be attempted.                                        *)
BatchInv(c) ==
    con[c].pc = "run" =>
        /\ con[c].left \subseteq ObjectsOf(c)
        /\ con[c].writing \subseteq con[c].left
        /\ con[c].batch \cap Poison \subseteq con[c].failed
        /\ con[c].failed \subseteq con[c].batch
        /\ \A m \in con[c].batch \ con[c].failed : Refs[m] \subseteq stored \cup con[c].left

(* The counters of a container since its last snapshot.                    *)
CounterInv(c) ==
    /\ con[c].pc # "run" => con[c].pending = 0 /\ con[c].writing = {}
    /\ con[c].pc = "run" => con[c].pending = Cardinality(ObjectsOf(c) \ con[c].left)
    /\ con[c].cold <=> ~ con[c].answered

(* The receives of a message that are accounted for: those that ended in   *)
(* vain by its own failure or the platform's, and the one in progress.     *)
Accounted(m) == blame[m] + IF queue[m] = "flight" THEN 1 ELSE 0

(* A receive that is not accounted for was answered, with every object of  *)
(* the message attempted and none failed.                                  *)
CollateralInv ==
    \A m \in Messages :
        queue[m] # "deleted" /\ Accounted(m) < receives[m] => Refs[m] \subseteq stored

(* With partial_batch_failures every receive is accounted for.             *)
InnocentInv ==
    cfg.transport = "sqs" /\ cfg.partial /\ cfg.report =>
        \A m \in Messages : queue[m] # "deleted" => Accounted(m) = receives[m]

DeliveryInv ==
    /\ DeliveryTypeOK
    /\ \A c \in Containers : BatchInv(c) /\ CounterInv(c)
    /\ CollateralInv
    /\ InnocentInv
    /\ NothingLost
    /\ SnapshotPerInvocation

-----------------------------------------------------------------------------
(* Init: every message is visible and no container runs.                   *)
LEMMA DeliveryInit == Init => DeliveryInv
<1> SUFFICES ASSUME Init PROVE DeliveryInv
  OBVIOUS
<1>0. Off \in ContainerStates
  BY DEF Off, ContainerStates
<1>1. DeliveryTypeOK
  BY <1>0 DEF Init, DeliveryTypeOK
<1>2. ASSUME NEW c \in Containers PROVE BatchInv(c) /\ CounterInv(c)
  <2>1. con[c] = Off
    BY DEF Init
  <2> QED
    BY <2>1 DEF Off, BatchInv, CounterInv
<1>3. CollateralInv /\ InnocentInv
  BY DEF Init, CollateralInv, InnocentInv, Accounted
<1>4. NothingLost
  BY DEF Init, NothingLost
<1>5. SnapshotPerInvocation
  BY DEF Init, SnapshotPerInvocation
<1> QED
  BY <1>1, <1>2, <1>3, <1>4, <1>5 DEF DeliveryInv

(* The other containers' invocations go on: what is stored stays stored.   *)
LEMMA OthersKeep ==
    ASSUME \A d \in Containers : BatchInv(d) /\ CounterInv(d),
           NEW c \in Containers, \A d \in Containers \ {c} : con'[d] = con[d],
           stored \subseteq stored', BatchInv(c)', CounterInv(c)'
    PROVE  \A d \in Containers : BatchInv(d)' /\ CounterInv(d)'
<1> SUFFICES ASSUME NEW d \in Containers, d # c PROVE BatchInv(d)' /\ CounterInv(d)'
  OBVIOUS
<1>1. con'[d] = con[d]
  OBVIOUS
<1>2. BatchInv(d)'
  BY <1>1 DEF BatchInv, ObjectsOf
<1>3. CounterInv(d)'
  BY <1>1 DEF CounterInv, ObjectsOf
<1> QED
  BY <1>2, <1>3

(* The end of an invocation: a message is deleted, comes back blamed, or   *)
(* comes back without blame; the first and the last are stored.            *)
LEMMA SettleKeeps ==
    ASSUME DeliveryInv, NEW c \in Containers, NEW gone, NEW guilty,
           Settle(c, gone), Blamed(Held(c, guilty)), UNCHANGED <<cfg, receives, stored>>,
           guilty \subseteq con[c].batch,
           \A m \in con[c].batch :
               /\ m \notin gone /\ m \notin guilty => Refs[m] \subseteq stored
               /\ Safe /\ m \in gone => m \notin Poison /\ Refs[m] \subseteq stored
               /\ cfg.transport = "sqs" /\ cfg.partial /\ cfg.report
                     => m \in gone \/ m \in guilty
    PROVE  /\ queue' \in [Messages -> {"visible", "flight", "deleted", "dead"}]
           /\ holder' \in [Messages -> Containers \cup {Nobody}]
           /\ blame' \in [Messages -> Nat]
           /\ CollateralInv' /\ InnocentInv' /\ NothingLost'
<1> DEFINE held == Held(c, con[c].batch)
<1> USE DEF DeliveryInv
<1>1. /\ queue' = [m \in Messages |-> IF m \notin held THEN queue[m]
                                      ELSE IF m \in gone THEN "deleted" ELSE Back(m)]
      /\ holder' = [m \in Messages |-> IF m \in held THEN Nobody ELSE holder[m]]
  BY DEF Settle
<1>2. blame' = [m \in Messages |-> IF m \in Held(c, guilty) THEN blame[m] + 1 ELSE blame[m]]
  BY DEF Blamed
<1>3. \A m : m \in Held(c, guilty) <=> m \in held /\ m \in guilty
  BY DEF Held
<1>4. \A m \in held : m \in con[c].batch /\ queue[m] = "flight"
  BY DEF Held
<1>5. \A m \in Messages : Back(m) \in {"visible", "dead"}
  BY DEF Back
<1> HIDE DEF held
<1>6. queue' \in [Messages -> {"visible", "flight", "deleted", "dead"}]
  BY <1>1, <1>5 DEF DeliveryTypeOK
<1>7. holder' \in [Messages -> Containers \cup {Nobody}]
  BY <1>1 DEF DeliveryTypeOK
<1>8. blame' \in [Messages -> Nat]
  BY <1>2 DEF DeliveryTypeOK
<1>9. ASSUME NEW m \in Messages, queue'[m] # "deleted"
      PROVE  /\ Accounted(m)' < receives'[m] => Refs[m] \subseteq stored'
             /\ cfg'.transport = "sqs" /\ cfg'.partial /\ cfg'.report
                  => Accounted(m)' = receives'[m]
  <2>0. blame[m] \in Nat /\ receives[m] \in Nat
    BY DEF DeliveryTypeOK
  <2>1. CASE m \notin held
    <3>1. queue'[m] = queue[m] /\ blame'[m] = blame[m]
      BY <1>1, <1>2, <1>3, <2>1
    <3>2. Accounted(m)' = Accounted(m)
      BY <3>1 DEF Accounted
    <3> QED
      BY <1>9, <3>1, <3>2 DEF CollateralInv, InnocentInv
  <2>2. CASE m \in held
    <3>1. m \notin gone /\ queue'[m] = Back(m) /\ queue'[m] # "flight" /\ queue[m] = "flight"
      BY <1>1, <1>4, <1>5, <1>9, <2>2
    <3>2. CASE m \in guilty
      <4>1. blame'[m] = blame[m] + 1
        BY <1>2, <1>3, <2>2, <3>2
      <4>2. Accounted(m)' = Accounted(m)
        BY <2>0, <3>1, <4>1 DEF Accounted
      <4> QED
        BY <3>1, <4>2 DEF CollateralInv, InnocentInv
    <3>3. CASE m \notin guilty
      BY <1>4, <2>2, <3>1, <3>3
    <3> QED
      BY <3>2, <3>3
  <2> QED
    BY <2>1, <2>2
<1>10. CollateralInv' /\ InnocentInv'
  BY <1>9 DEF CollateralInv, InnocentInv
<1>11. NothingLost'
  <2> SUFFICES ASSUME Safe', NEW m \in Messages, queue'[m] = "deleted"
               PROVE  m \notin Poison /\ Refs[m] \subseteq stored'
    BY DEF NothingLost
  <2>1. Safe
    BY DEF Safe
  <2>2. CASE m \notin held
    BY <1>1, <2>1, <2>2 DEF NothingLost
  <2>3. CASE m \in held
    <3>1. m \in gone /\ m \in con[c].batch
      BY <1>1, <1>4, <1>5, <2>3
    <3> QED
      BY <2>1, <3>1
  <2> QED
    BY <2>2, <2>3
<1> QED
  BY <1>6, <1>7, <1>8, <1>10, <1>11

(* A container that is killed, fails to start, or returns an error before  *)
(* any object: the whole batch comes back, blamed.                         *)
LEMMA OffKeeps ==
    ASSUME DeliveryInv, NEW c \in Containers, Settle(c, {}),
           Blamed(Held(c, con[c].batch)), con' = [con EXCEPT ![c] = Off],
           UNCHANGED <<cfg, receives, stored, last>>
    PROVE  DeliveryInv'
<1> USE DEF DeliveryInv
<1>1. /\ queue' \in [Messages -> {"visible", "flight", "deleted", "dead"}]
      /\ holder' \in [Messages -> Containers \cup {Nobody}]
      /\ blame' \in [Messages -> Nat]
      /\ CollateralInv' /\ InnocentInv' /\ NothingLost'
  BY SettleKeeps
<1>2. Off \in ContainerStates
  BY DEF Off, ContainerStates
<1>3. DeliveryTypeOK'
  BY <1>1, <1>2 DEF DeliveryTypeOK
<1>4. con'[c] = Off /\ \A d \in Containers \ {c} : con'[d] = con[d]
  BY DEF DeliveryTypeOK
<1>5. BatchInv(c)' /\ CounterInv(c)'
  BY <1>4 DEF Off, BatchInv, CounterInv
<1>6. \A d \in Containers : BatchInv(d)' /\ CounterInv(d)'
  BY <1>4, <1>5, OthersKeep
<1>7. SnapshotPerInvocation'
  BY DEF SnapshotPerInvocation
<1> QED
  BY <1>1, <1>3, <1>6, <1>7

(* A step of a container that leaves the queue and the answers alone.      *)
LEMMA QuietKeeps ==
    ASSUME DeliveryInv, NEW c \in Containers, con' \in [Containers -> ContainerStates],
           \A d \in Containers \ {c} : con'[d] = con[d], stored \subseteq stored',
           BatchInv(c)', CounterInv(c)',
           UNCHANGED <<cfg, queue, holder, receives, blame, last>>
    PROVE  DeliveryInv'
<1> USE DEF DeliveryInv
<1>1. DeliveryTypeOK'
  BY DEF DeliveryTypeOK
<1>2. \A d \in Containers : BatchInv(d)' /\ CounterInv(d)'
  BY OthersKeep
<1>3. CollateralInv' /\ InnocentInv'
  BY DEF CollateralInv, InnocentInv, Accounted
<1>4. NothingLost' /\ SnapshotPerInvocation'
  BY DEF NothingLost, Safe, SnapshotPerInvocation
<1> QED
  BY <1>1, <1>2, <1>3, <1>4

(* An idle container is reclaimed with nothing pending.                    *)
LEMMA ReclaimKeeps ==
    ASSUME DeliveryInv, NEW c \in Containers, Reclaim(c) PROVE DeliveryInv'
<1>1. Off \in ContainerStates
  BY DEF Off, ContainerStates
<1>2. /\ con' \in [Containers -> ContainerStates] /\ con'[c] = Off
      /\ \A d \in Containers \ {c} : con'[d] = con[d]
  BY <1>1 DEF Reclaim, DeliveryInv, DeliveryTypeOK
<1>3. BatchInv(c)' /\ CounterInv(c)'
  BY <1>2 DEF Off, BatchInv, CounterInv
<1> QED
  BY <1>2, <1>3, QuietKeeps DEF Reclaim

(* An invocation of a container that owes nothing: each of its messages    *)
(* has one more receive, in progress.                                      *)
LEMMA InvokeKeeps ==
    ASSUME DeliveryInv, NEW c \in Containers, Invoke(c) PROVE DeliveryInv'
<1> USE DEF DeliveryInv
<1>1. PICK S \in SUBSET {m \in Messages : queue[m] = "visible"} :
        /\ queue' = [m \in Messages |-> IF m \in S THEN "flight" ELSE queue[m]]
        /\ holder' = [m \in Messages |-> IF m \in S THEN c ELSE holder[m]]
        /\ receives' = [m \in Messages |-> IF m \in S THEN receives[m] + 1 ELSE receives[m]]
        /\ con' = [con EXCEPT ![c].pc = IF @ = "off" THEN "init" ELSE "config",
                              ![c].batch = S, ![c].left = {}, ![c].failed = {}]
  BY DEF Invoke
<1>2. con[c].pc \in {"off", "idle"} /\ UNCHANGED <<cfg, blame, stored, last>>
  BY DEF Invoke
<1>3. con[c] \in ContainerStates
  BY DEF DeliveryTypeOK
<1>4. /\ con'[c].pc \in {"init", "config"} /\ con'[c].pending = con[c].pending
      /\ con'[c].writing = con[c].writing /\ con'[c].cold = con[c].cold
      /\ con'[c].answered = con[c].answered
      /\ \A d \in Containers \ {c} : con'[d] = con[d]
  BY <1>1, <1>3 DEF DeliveryTypeOK, ContainerStates
<1>5. DeliveryTypeOK'
  <2>1. con' \in [Containers -> ContainerStates]
    <3>1. PICK r : r = [con[c] EXCEPT !.pc = IF @ = "off" THEN "init" ELSE "config",
                                      !.batch = S, !.left = {}, !.failed = {}]
      OBVIOUS
    <3>2. r \in ContainerStates
      BY <1>1, <1>3, <3>1 DEF ContainerStates
    <3>3. con' = [con EXCEPT ![c] = r]
      BY <1>1, <3>1
    <3> QED
      BY <3>2, <3>3 DEF DeliveryTypeOK
  <2>2. /\ queue' \in [Messages -> {"visible", "flight", "deleted", "dead"}]
        /\ holder' \in [Messages -> Containers \cup {Nobody}]
        /\ receives' \in [Messages -> Nat]
    BY <1>1 DEF DeliveryTypeOK
  <2> QED
    BY <1>2, <2>1, <2>2 DEF DeliveryTypeOK
<1>6. BatchInv(c)' /\ CounterInv(c)'
  BY <1>2, <1>4 DEF BatchInv, CounterInv
<1>7. \A d \in Containers : BatchInv(d)' /\ CounterInv(d)'
  BY <1>2, <1>4, <1>6, OthersKeep
<1>8. ASSUME NEW m \in Messages, queue'[m] # "deleted"
      PROVE  queue[m] # "deleted" /\ receives'[m] - Accounted(m)' = receives[m] - Accounted(m)
  BY <1>1, <1>2, <1>8 DEF Accounted, DeliveryTypeOK
<1>9. \A m \in Messages : /\ Accounted(m) \in Nat /\ Accounted(m)' \in Nat
                          /\ receives[m] \in Nat /\ receives'[m] \in Nat
  BY <1>5 DEF Accounted, DeliveryTypeOK
<1>10. CollateralInv' /\ InnocentInv'
  BY <1>2, <1>8, <1>9 DEF CollateralInv, InnocentInv
<1>11. NothingLost'
  BY <1>1, <1>2 DEF NothingLost, Safe
<1>12. SnapshotPerInvocation'
  BY <1>2 DEF SnapshotPerInvocation
<1> QED
  BY <1>5, <1>7, <1>10, <1>11, <1>12

(* A message that reappears is blamed for the receive it voids.            *)
LEMMA ReappearKeeps ==
    ASSUME DeliveryInv, NEW m \in Messages, Reappear(m) PROVE DeliveryInv'
<1> USE DEF DeliveryInv
<1>1. /\ queue[m] = "flight" /\ queue' = [queue EXCEPT ![m] = Back(m)]
      /\ holder' = [holder EXCEPT ![m] = Nobody]
      /\ blame' = [n \in Messages |-> IF n = m THEN blame[n] + 1 ELSE blame[n]]
      /\ UNCHANGED <<cfg, receives, con, stored, last>>
  BY DEF Reappear, Blamed
<1>2. Back(m) \in {"visible", "dead"}
  BY DEF Back
<1>3. DeliveryTypeOK'
  BY <1>1, <1>2 DEF DeliveryTypeOK
<1>4. \A c \in Containers : BatchInv(c)' /\ CounterInv(c)'
  BY <1>1 DEF BatchInv, CounterInv, ObjectsOf
<1>5. ASSUME NEW n \in Messages, queue'[n] # "deleted"
      PROVE  queue[n] # "deleted" /\ Accounted(n)' = Accounted(n)
  BY <1>1, <1>2, <1>5 DEF Accounted, DeliveryTypeOK
<1>6. CollateralInv' /\ InnocentInv'
  BY <1>1, <1>5 DEF CollateralInv, InnocentInv
<1>7. NothingLost' /\ SnapshotPerInvocation'
  BY <1>1, <1>2 DEF NothingLost, Safe, SnapshotPerInvocation, DeliveryTypeOK
<1> QED
  BY <1>3, <1>4, <1>6, <1>7

-----------------------------------------------------------------------------
(* The objects of a batch are finitely many, whatever of them is left.     *)
LEMMA BatchFinite ==
    ASSUME DeliveryTypeOK, NEW c \in Containers
    PROVE  ObjectsOf(c) \subseteq Objects /\ IsFiniteSet(ObjectsOf(c) \ con[c].left)
<1>1. con[c].batch \subseteq Messages
  BY DEF DeliveryTypeOK, ContainerStates
<1>2. ObjectsOf(c) \subseteq Objects
  BY <1>1 DEF ObjectsOf, Objects
<1> QED
  BY <1>2, ObjectsAssumption, FS_Subset

(* INIT ends and the invocation waits for its configuration.               *)
LEMMA StartKeeps ==
    ASSUME DeliveryInv, NEW c \in Containers, Start(c) PROVE DeliveryInv'
<1>1. con[c] \in ContainerStates
  BY DEF DeliveryInv, DeliveryTypeOK
<1>2. PICK primed \in BOOLEAN :
          con' = [con EXCEPT ![c].pc = "config", ![c].rules = primed]
  BY DEF Start
<1>3. /\ con' \in [Containers -> ContainerStates]
      /\ \A d \in Containers \ {c} : con'[d] = con[d]
      /\ con'[c].pc = "config" /\ con'[c].pending = con[c].pending
      /\ con'[c].writing = con[c].writing /\ con'[c].cold = con[c].cold
      /\ con'[c].answered = con[c].answered
  BY <1>1, <1>2 DEF DeliveryInv, DeliveryTypeOK, ContainerStates
<1>4. BatchInv(c)' /\ CounterInv(c)'
  BY <1>3 DEF Start, DeliveryInv, BatchInv, CounterInv
<1> QED
  BY <1>3, <1>4, QuietKeeps DEF Start

(* Taking up an object, writing it, failing to: it is no longer left, and  *)
(* counted once; a failure fails every message of the batch that names it. *)
LEMMA AttemptKeeps ==
    ASSUME DeliveryInv, NEW c \in Containers, Begin(c) \/ Write(c) \/ FailWrite(c)
    PROVE  DeliveryInv'
<1> USE DEF DeliveryInv
<1>0. con[c] \in ContainerStates /\ con[c].pc = "run"
  BY DEF DeliveryTypeOK, Begin, Write, FailWrite
<1>1. CASE Begin(c)
  <2>1. PICK o \in con[c].left : con' = [con EXCEPT ![c].writing = {o}]
    BY <1>1 DEF Begin
  <2>2. /\ con' \in [Containers -> ContainerStates]
        /\ \A d \in Containers \ {c} : con'[d] = con[d]
        /\ con'[c] = [con[c] EXCEPT !.writing = {o}]
    BY <1>0, <2>1 DEF DeliveryTypeOK, ContainerStates
  <2>3. ObjectsOf(c)' = ObjectsOf(c)
    BY <1>0, <2>2 DEF ObjectsOf, ContainerStates
  <2>4. UNCHANGED <<cfg, queue, holder, receives, blame, stored, last>>
    BY <1>1 DEF Begin
  <2>5. BatchInv(c)'
    BY <1>0, <2>2, <2>3, <2>4 DEF BatchInv, ContainerStates
  <2>6. CounterInv(c)'
    BY <1>0, <2>2, <2>3 DEF CounterInv, ContainerStates
  <2> QED
    BY <2>2, <2>4, <2>5, <2>6, QuietKeeps
<1>2. CASE Write(c) \/ FailWrite(c)
  <2>0. PICK o \in con[c].writing :
          \/ /\ con' = [con EXCEPT ![c].writing = {}, ![c].left = @ \ {o}, ![c].pending = @ + 1]
             /\ stored' = stored \cup {o}
          \/ /\ con' = [con EXCEPT ![c].writing = {}, ![c].left = @ \ {o}, ![c].pending = @ + 1,
                                   ![c].failed = @ \cup Naming(c, o)]
             /\ stored' = stored
    BY <1>2 DEF Write, FailWrite
  <2>1. Naming(c, o) \subseteq con[c].batch /\ Naming(c, o) \subseteq Messages
    BY <1>0 DEF Naming, ContainerStates
  <2>2. UNCHANGED <<cfg, queue, holder, receives, blame, last>>
    BY <1>2 DEF Write, FailWrite
  <2>3. /\ con'[c].pc = "run" /\ con'[c].batch = con[c].batch
        /\ con'[c].writing = {} /\ con'[c].left = con[c].left \ {o}
        /\ con'[c].pending = con[c].pending + 1
        /\ con'[c].cold = con[c].cold /\ con'[c].answered = con[c].answered
        /\ \A d \in Containers \ {c} : con'[d] = con[d]
    BY <1>0, <2>0 DEF DeliveryTypeOK, ContainerStates
  <2>4. \/ con'[c].failed = con[c].failed /\ o \in stored'
        \/ con'[c].failed = con[c].failed \cup Naming(c, o)
    BY <1>0, <2>0 DEF DeliveryTypeOK, ContainerStates
  <2>5. con' \in [Containers -> ContainerStates]
    BY <1>0, <2>0, <2>1 DEF DeliveryTypeOK, ContainerStates
  <2>6. ObjectsOf(c)' = ObjectsOf(c)
    BY <2>3 DEF ObjectsOf
  <2>7. o \in con[c].left /\ o \in ObjectsOf(c) /\ stored \subseteq stored'
    BY <1>0, <2>0 DEF BatchInv
  <2>8. BatchInv(c)'
    <3>1. ASSUME NEW m \in con[c].batch, m \notin con'[c].failed
          PROVE  Refs[m] \subseteq stored' \cup con'[c].left
      <4>1. Refs[m] \subseteq stored \cup con[c].left /\ m \notin Poison
        BY <1>0, <2>4, <3>1 DEF BatchInv
      <4>2. o \in Refs[m] => m \in Naming(c, o)
        BY <4>1 DEF Naming
      <4>3. o \in Refs[m] => o \in stored'
        BY <2>4, <3>1, <4>2
      <4> QED
        BY <2>3, <2>7, <4>1, <4>3
    <3> QED
      BY <1>0, <2>1, <2>3, <2>4, <2>6, <3>1 DEF BatchInv
  <2>9. CounterInv(c)'
    <3>1. ObjectsOf(c) \ con'[c].left = (ObjectsOf(c) \ con[c].left) \cup {o}
      BY <2>3, <2>7
    <3>2. Cardinality(ObjectsOf(c) \ con'[c].left) = Cardinality(ObjectsOf(c) \ con[c].left) + 1
      BY <2>7, <3>1, BatchFinite, FS_AddElement
    <3> QED
      BY <1>0, <2>3, <2>6, <3>2 DEF CounterInv
  <2> QED
    BY <2>2, <2>3, <2>5, <2>7, <2>8, <2>9, QuietKeeps
<1> QED
  BY <1>1, <1>2

(* An answer: one snapshot with it, of what this invocation attempted.     *)
LEMMA AnswerKeeps ==
    ASSUME DeliveryInv, NEW c \in Containers, NEW gone, NEW guilty, NEW ok \in BOOLEAN,
           Settle(c, gone), Blamed(Held(c, guilty)),
           Report(c, ok, con[c].pending), con' = [con EXCEPT ![c] = Idle(c, ok)],
           UNCHANGED <<cfg, receives, stored>>, guilty \subseteq con[c].batch,
           \A m \in con[c].batch :
               /\ m \notin gone /\ m \notin guilty => Refs[m] \subseteq stored
               /\ Safe /\ m \in gone => m \notin Poison /\ Refs[m] \subseteq stored
               /\ cfg.transport = "sqs" /\ cfg.partial /\ cfg.report
                     => m \in gone \/ m \in guilty
    PROVE  DeliveryInv'
<1> USE DEF DeliveryInv
<1>0. con[c] \in ContainerStates
  BY DEF DeliveryTypeOK
<1>1. /\ queue' \in [Messages -> {"visible", "flight", "deleted", "dead"}]
      /\ holder' \in [Messages -> Containers \cup {Nobody}]
      /\ blame' \in [Messages -> Nat]
      /\ CollateralInv' /\ InnocentInv' /\ NothingLost'
  BY SettleKeeps
<1>2. Idle(c, ok) = [pc |-> "idle", batch |-> {}, left |-> {}, failed |-> {}, writing |-> {},
                     rules |-> con[c].rules, cold |-> FALSE, answered |-> TRUE, pending |-> 0]
  <2>1. (con[c].cold /\ ~ Emits(ok)) = FALSE /\ (IF Emits(ok) THEN 0 ELSE con[c].pending) = 0
    BY DEF Emits
  <2>2. Idle(c, ok) = [Off EXCEPT !.pc = "idle", !.rules = con[c].rules, !.answered = TRUE,
                                  !.cold = FALSE, !.pending = 0]
    BY <2>1, Zenon DEF Idle
  <2> QED
    BY <2>2 DEF Off
<1>3. Idle(c, ok) \in ContainerStates
  BY <1>0, <1>2 DEF ContainerStates
<1>4. DeliveryTypeOK'
  BY <1>1, <1>3 DEF DeliveryTypeOK
<1>5. con'[c] = Idle(c, ok) /\ \A d \in Containers \ {c} : con'[d] = con[d]
  BY DEF DeliveryTypeOK
<1>6. BatchInv(c)' /\ CounterInv(c)'
  BY <1>2, <1>5 DEF BatchInv, CounterInv
<1>7. \A d \in Containers : BatchInv(d)' /\ CounterInv(d)'
  BY <1>5, <1>6, OthersKeep
<1>8. SnapshotPerInvocation'
  <2>1. con[c].cold <=> ~ con[c].answered
    BY DEF CounterInv
  <2> QED
    BY <2>1 DEF Report, Emits, SnapshotPerInvocation
<1> QED
  BY <1>1, <1>4, <1>7, <1>8

(* GetConfig starts the attempts, or fails the invocation before any.      *)
LEMMA GetConfigKeeps ==
    ASSUME DeliveryInv, NEW c \in Containers, GetConfig(c) PROVE DeliveryInv'
<1> USE DEF DeliveryInv
<1>0. con[c] \in ContainerStates /\ con[c].pc = "config" /\ UNCHANGED <<cfg, receives, stored>>
  BY DEF DeliveryTypeOK, GetConfig
<1>1. ASSUME NEW found \in BOOLEAN,
             con' = [con EXCEPT ![c].pc = "run", ![c].rules = found,
                                ![c].left = ObjectsOf(c),
                                ![c].failed = con[c].batch \cap Poison],
             UNCHANGED <<queue, holder, blame, last>>
      PROVE  DeliveryInv'
  <2>1. ObjectsOf(c) \in SUBSET Objects /\ con[c].batch \cap Poison \in SUBSET Messages
    BY BatchFinite
  <2>2. con' \in [Containers -> ContainerStates]
    BY <1>0, <1>1, <2>1 DEF DeliveryTypeOK, ContainerStates
  <2>3. /\ con'[c].pc = "run" /\ con'[c].batch = con[c].batch /\ con'[c].left = ObjectsOf(c)
        /\ con'[c].writing = con[c].writing /\ con'[c].failed = con[c].batch \cap Poison
        /\ con'[c].pending = con[c].pending /\ con'[c].cold = con[c].cold
        /\ con'[c].answered = con[c].answered
        /\ \A d \in Containers \ {c} : con'[d] = con[d]
    BY <1>0, <1>1 DEF DeliveryTypeOK, ContainerStates
  <2>4. ObjectsOf(c)' = ObjectsOf(c) /\ con[c].writing = {} /\ con[c].pending = 0
    BY <1>0, <2>3 DEF ObjectsOf, CounterInv
  <2>5. BatchInv(c)'
    <3>1. \A m \in con[c].batch \ Poison : Refs[m] \subseteq ObjectsOf(c)
      BY DEF ObjectsOf
    <3> QED
      BY <2>3, <2>4, <3>1 DEF BatchInv
  <2>6. CounterInv(c)'
    <3>1. ObjectsOf(c)' \ con'[c].left = {} /\ Cardinality({}) = 0
      BY <2>3, <2>4, FS_EmptySet
    <3> QED
      BY <2>3, <2>4, <3>1 DEF CounterInv
  <2> QED
    BY <1>0, <1>1, <2>2, <2>3, <2>5, <2>6, QuietKeeps
<1>2. CASE AnswerErr(c, con[c].batch, 0)
  <2>1. con[c].pending = 0
    BY <1>0 DEF CounterInv
  <2> QED
    BY <1>0, <1>2, <2>1, AnswerKeeps DEF AnswerErr
<1> QED
  BY <1>1, <1>2 DEF GetConfig

(* The answer waits for every object of the batch: what has not failed is  *)
(* stored, and all of it has been counted.                                 *)
LEMMA RespondKeeps ==
    ASSUME DeliveryInv, NEW c \in Containers, RespondErr(c) \/ RespondOk(c)
    PROVE  DeliveryInv'
<1> USE DEF DeliveryInv
<1>1. con[c].pc = "run" /\ con[c].left = {} /\ UNCHANGED <<cfg, receives, stored>>
  BY DEF RespondErr, RespondOk, Attempted
<1>2. /\ con[c].failed \subseteq con[c].batch
      /\ \A m \in con[c].batch : m \notin con[c].failed
            => m \notin Poison /\ Refs[m] \subseteq stored
      /\ con[c].pending = Cardinality(ObjectsOf(c) \ con[c].left)
  BY <1>1 DEF BatchInv, CounterInv
<1>3. CASE RespondErr(c)
  <2>1. AnswerErr(c, con[c].failed, con[c].pending) /\ ~ (cfg.partial /\ cfg.transport = "sqs")
    BY <1>2, <1>3 DEF RespondErr, IsHard
  <2> QED
    BY <1>1, <1>2, <2>1, AnswerKeeps DEF AnswerErr
<1>4. CASE RespondOk(c)
  <2> DEFINE gone == IF cfg.transport = "sqs" /\ cfg.report
                     THEN con[c].batch \ con[c].failed ELSE con[c].batch
  <2>1. /\ Settle(c, gone) /\ Blamed(Held(c, con[c].failed))
        /\ Report(c, TRUE, con[c].pending) /\ con' = [con EXCEPT ![c] = Idle(c, TRUE)]
    BY <1>2, <1>4 DEF RespondOk, BatchResponse
  <2>2. ~ IsHard(c) /\ cfg.transport \in {"sqs", "async"}
    BY <1>4 DEF RespondOk, DeliveryTypeOK
  <2>3. ASSUME NEW m \in con[c].batch
        PROVE  /\ m \notin gone /\ m \notin con[c].failed => Refs[m] \subseteq stored
               /\ Safe /\ m \in gone => m \notin Poison /\ Refs[m] \subseteq stored
               /\ cfg.transport = "sqs" /\ cfg.partial /\ cfg.report
                     => m \in gone \/ m \in con[c].failed
    BY <1>2, <2>2 DEF Safe, IsHard
  <2> HIDE DEF gone
  <2> QED
    BY <1>1, <1>2, <2>1, <2>3, AnswerKeeps
<1> QED
  BY <1>3, <1>4

(* DeliveryInv is inductive.                                               *)
THEOREM DeliveryInvariant == Spec => []DeliveryInv
<1>1. DeliveryInv /\ [Next]_vars => DeliveryInv'
  <2> SUFFICES ASSUME DeliveryInv, [Next]_vars PROVE DeliveryInv'
    OBVIOUS
  <2>1. CASE UNCHANGED vars
    BY <2>1 DEF vars, DeliveryInv, DeliveryTypeOK, BatchInv, CounterInv, ObjectsOf,
       CollateralInv, InnocentInv, Accounted, NothingLost, Safe, SnapshotPerInvocation
  <2>2. ASSUME NEW c \in Containers, Step(c) PROVE DeliveryInv'
    BY <2>2, StartKeeps, GetConfigKeeps, AttemptKeeps, RespondKeeps DEF Step
  <2>3. ASSUME NEW c \in Containers, StartFails(c) \/ Kill(c) PROVE DeliveryInv'
    BY <2>3, OffKeeps DEF StartFails, Kill
  <2> QED
    BY <2>1, <2>2, <2>3, InvokeKeeps, ReclaimKeeps, ReappearKeeps DEF Next
<1> QED
  BY DeliveryInit, <1>1, PTL DEF Spec

(* batch_response and the async handlers, in the setups that are safe: a   *)
(* message deleted from the queue has every one of its objects stored,     *)
(* whatever was killed, failed or delivered twice before.                  *)
THEOREM NothingIsLost == Spec => []NothingLost
<1>1. DeliveryInv => NothingLost
  BY DEF DeliveryInv
<1> QED
  BY <1>1, DeliveryInvariant, PTL

(* partial_batch_failures: a message is dead-lettered for failures of its  *)
(* own or of the platform only; and where a whole batch fails, what had    *)
(* not failed by itself has been written all the same.                     *)
THEOREM BatchmatesAreSpared == Spec => []BatchmatesSpared
<1>1. DeliveryInv => BatchmatesSpared
  <2> SUFFICES ASSUME DeliveryInv PROVE BatchmatesSpared
    OBVIOUS
  <2>1. \A m \in Messages : queue[m] = "dead" => Accounted(m) = blame[m]
    BY DEF DeliveryInv, DeliveryTypeOK, Accounted
  <2>2. InnocentSpared
    BY <2>1 DEF DeliveryInv, InnocentInv, InnocentSpared
  <2>3. CollateralStored
    BY <2>1 DEF DeliveryInv, CollateralInv, CollateralStored
  <2> QED
    BY <2>2, <2>3 DEF BatchmatesSpared
<1> QED
  BY <1>1, DeliveryInvariant, PTL

(* Pipeline::handle: the snapshot emitted with an answer counts exactly    *)
(* the objects this invocation attempted, and says ColdStart on the first  *)
(* one its container answered and on no other.                             *)
THEOREM SnapshotIsPerInvocation == Spec => []SnapshotPerInvocation
<1>1. DeliveryInv => SnapshotPerInvocation
  BY DEF DeliveryInv
<1> QED
  BY <1>1, DeliveryInvariant, PTL
=============================================================================
