--------------------------- MODULE SidecarProofs ---------------------------
(* Proofs about the pool, for every finite set of workers and any set of     *)
(* clients.  The argument is one inductive invariant, IInv: the places of a  *)
(* worker (in the queue, with a request, in recovery, in the startup task)   *)
(* are disjoint, and each stage of _close finds ended what it waited for.    *)
EXTENDS Sidecar, FiniteSetTheorems, SequenceTheorems, TLAPS

Working == {"inferring", "aborting"}
Reloading == {"loading", "aborting"}
Quiet == {"workers", "done", "failed"}

\* Nothing is asked of a worker before the socket is bound, and a caller that
\* got its answer has no task left.
Beginnings ==
  /\ owner = "new" => startup = "none" /\ ~closed
  /\ startup = "none" => queue = <<>>
  /\ startup # "done" => server = "none"
  /\ server = "none" => /\ \A r \in Requests : op[r] \notin Pending
                        /\ \A w \in Workers : rewarm[w] = "none"
  /\ \A r \in Requests : call[r] # "running" => op[r] \notin Pending

\* The four places of a worker are disjoint.
Apart ==
  /\ IsInjective(queue)
  /\ booting # None <=> startup \in Reloading
  /\ booting \notin Range(queue)
  /\ \A w \in Workers : rewarm[w] # "none" => booting # w /\ w \notin Range(queue)
  /\ \A r \in Requests : held[r] # None <=> op[r] \in Working
  /\ \A r \in Requests : held[r] # None =>
       held[r] # booting /\ rewarm[held[r]] = "none" /\ held[r] \notin Range(queue)
  /\ \A r, s \in Requests : held[r] = held[s] /\ held[r] # None => r = s

\* Once all are loaded, every worker of an open pool is in one of them.
Placed ==
  startup \in {"opening", "done"} /\ ~closed =>
    \A w \in Workers : \/ w \in Range(queue) \/ rewarm[w] # "none"
                       \/ \E r \in Requests : held[r] = w

\* A worker loads for the startup task or under the recovery lock.
Loads ==
  /\ \A w \in Workers : slot[w] = "loading" <=> booting = w \/ lock = w
  /\ \A w \in Workers : lock = w <=> rewarm[w] \in Reloading
  /\ \A w \in Workers : rewarm[w] = "aborting" => closed

\* What is offered or in use is warm.
Warmth ==
  /\ ~closed => \A w \in Range(queue) : slot[w] = "warm"
  /\ \A r \in Requests : held[r] # None => slot[held[r]] = "warm"
  /\ \A w \in Workers : slot[w] = "stuck" => closed /\ startup \notin {"none", "loading"}
  /\ \A w \in Workers : slot[w] \in {"shut", "lost"} => closing \in Quiet

\* What has ended at each stage of _close.
Stages ==
  /\ closed <=> closing # "none"
  /\ closing \notin {"none", "begun"} => startup \notin {"loading", "opening"}
  /\ closing \notin {"none", "begun", "startup"} => startup # "aborting"
  /\ closing \in {"recoveries"} \cup Quiet => \A r \in Requests : op[r] \notin Pending
  /\ closing \in Quiet => \A w \in Workers : rewarm[w] = "none"
  /\ closing = "done" => \A w \in Workers : slot[w] = "shut"
  /\ owner = "returned" => closing = "done"

IInv == TypeOK /\ Beginnings /\ Apart /\ Placed /\ Loads /\ Warmth /\ Stages

USE PoolNotEmpty

-----------------------------------------------------------------------------
(* The queue *)

\* put_nowait of a worker that is not in the queue keeps its members distinct.
LEMMA QueueGrows ==
  ASSUME NEW s \in Seq(Workers), NEW w \in Workers
  PROVE  /\ Append(s, w) \in Seq(Workers)
         /\ Range(Append(s, w)) = Range(s) \cup {w}
         /\ IsInjective(s) /\ w \notin Range(s) => IsInjective(Append(s, w))
<1> DEFINE t == Append(s, w)
<1>1. /\ t \in Seq(Workers) /\ DOMAIN s = 1..Len(s) /\ DOMAIN t = 1..(Len(s) + 1)
      /\ Len(s) \in Nat
      /\ \A i \in 1..Len(s) : t[i] = s[i]
      /\ t[Len(s) + 1] = w
      OBVIOUS
<1> HIDE DEF t
<1>2. Range(t) = Range(s) \cup {w}
      BY <1>1 DEF Range
<1>3. IsInjective(s) /\ w \notin Range(s) => IsInjective(t)
      BY <1>1 DEF Range, IsInjective
<1>. QED  BY <1>1, <1>2, <1>3 DEF t

\* get() takes the head out.
LEMMA QueueShrinks ==
  ASSUME NEW s \in Seq(Workers), s # <<>>, IsInjective(s)
  PROVE  /\ Tail(s) \in Seq(Workers) /\ IsInjective(Tail(s))
         /\ Head(s) \in Workers /\ Head(s) \in Range(s)
         /\ Range(Tail(s)) = Range(s) \ {Head(s)}
<1> DEFINE t == Tail(s)
<1>1. /\ t \in Seq(Workers) /\ DOMAIN s = 1..Len(s) /\ DOMAIN t = 1..(Len(s) - 1)
      /\ Len(s) \in Nat /\ Len(s) > 0
      /\ \A i \in 1..(Len(s) - 1) : t[i] = s[i + 1]
      /\ Head(s) = s[1] /\ s[1] \in Workers
      OBVIOUS
<1> HIDE DEF t
<1>2. ASSUME NEW i \in DOMAIN t, NEW j \in DOMAIN t, t[i] = t[j] PROVE i = j
  <2>1. i + 1 \in DOMAIN s /\ j + 1 \in DOMAIN s /\ s[i + 1] = s[j + 1]
        BY <1>1, <1>2
  <2>. QED  BY <1>1, <1>2, <2>1 DEF IsInjective
<1>3. Head(s) \in Range(s)
      BY <1>1 DEF Range
<1>4. Range(t) \subseteq Range(s) \ {Head(s)}
      BY <1>1 DEF Range, IsInjective
<1>5. ASSUME NEW x \in Range(s) \ {Head(s)} PROVE x \in Range(t)
  <2>1. PICK i \in 1..Len(s) : s[i] = x
        BY <1>1 DEF Range
  <2>2. i - 1 \in 1..(Len(s) - 1) /\ t[i - 1] = x
        BY <1>1, <2>1
  <2>. QED  BY <1>1, <2>2 DEF Range
<1>. QED  BY <1>1, <1>2, <1>3, <1>4, <1>5 DEF t, IsInjective

LEMMA QueueIsShort ==
  ASSUME NEW s \in Seq(Workers), IsInjective(s)
  PROVE  Len(s) \in Nat /\ Len(s) <= Cardinality(Workers)
<1>1. s \in Injection(1..Len(s), Workers)
      BY DEF Injection
<1>2. Cardinality(1..Len(s)) <= Cardinality(Workers)
      BY <1>1, PoolIsFinite, FS_Injection
<1>3. Len(s) \in Nat
      OBVIOUS
<1>4. Cardinality(1..Len(s)) = IF 1 > Len(s) THEN 0 ELSE Len(s) - 1 + 1
      BY <1>3, 1 \in Int, Len(s) \in Int, FS_Interval, Zenon
<1>. QED  BY <1>2, <1>3, <1>4

-----------------------------------------------------------------------------
(* The invariant *)

LEMMA InitInvariant == Init => IInv
<1>1. Range(<<>>) = {} /\ IsInjective(<<>>)
      BY DEF Range, IsInjective
<1>3. <<>> \in Seq(Workers) /\ Len(<<>>) = 0
      OBVIOUS
<1>2. Len(<<>>) <= Cardinality(Workers)
      BY <1>3, PoolIsFinite, FS_CardinalityType
<1> SUFFICES ASSUME Init PROVE IInv
    OBVIOUS
<1>4. TypeOK
      BY <1>2, <1>3 DEF Init, TypeOK, Pending
<1>5. Apart
      BY <1>1 DEF Init, Apart, Working, Reloading
<1>. QED  BY <1>1, <1>4, <1>5 DEF Init, IInv, Beginnings, Placed, Loads, Warmth, Stages,
                            Pending, Working, Reloading, Quiet

\* The invariant without the queue's length, which its members bound.
Types == /\ stop \in BOOLEAN /\ closed \in BOOLEAN /\ failed \in BOOLEAN
  /\ owner \in {"new", "starting", "serving", "stopping", "failing", "returned", "raised"}
  /\ startup \in {"none", "loading", "aborting", "opening", "done", "failed"}
  /\ booting \in Workers \cup {None} /\ lock \in Workers \cup {None}
  /\ server \in {"none", "open", "closed"}
  /\ closing \in {"none", "begun", "startup", "server", "operations", "recoveries",
                  "workers", "done", "failed"}
  /\ queue \in Seq(Workers)
  /\ call \in [Requests -> {"none", "running", "returned", "raised"}]
  /\ op \in [Requests -> {"none", "done", "failed"} \cup Pending]
  /\ held \in [Requests -> Workers \cup {None}]
  /\ rewarm \in [Workers -> {"none", "queued", "loading", "aborting"}]
  /\ slot \in [Workers -> {"cold", "loading", "warm", "stuck", "shut", "lost"}]
Core == Types /\ Beginnings /\ Apart /\ Placed /\ Loads /\ Warmth /\ Stages

LEMMA StepTypes == ASSUME TypeOK, Apart, [Next]_vars PROVE Types'
<1> USE DEF TypeOK, Types, Pending, Working, HasChild, ownerVars, startVars, closeVars,
            requestVars, rewarmVars, Put, Becomes, BeginClose, Cancelled, BootFirst
<1>q. \A w \in Workers : Append(queue, w) \in Seq(Workers)
      OBVIOUS
<1>t. queue # <<>> => Tail(queue) \in Seq(Workers) /\ Head(queue) \in Workers
      OBVIOUS
<1>1. ASSUME NEW w \in Workers, BootSucceeds(w) PROVE Types'
      BY <1>1, <1>q DEF BootSucceeds
<1>2. ASSUME NEW w \in Workers, BootFails(w) PROVE Types'
      BY <1>2 DEF BootFails
<1>3. CASE OpenServer
  <2>1. CASE startup' = "done" /\ server' = "open" /\ UNCHANGED closeVars
        BY <1>3, <2>1 DEF OpenServer
  <2>2. CASE startup' = "failed" /\ BeginClose /\ UNCHANGED server
        BY <1>3, <2>2 DEF OpenServer
  <2>. QED  BY <1>3, <2>1, <2>2 DEF OpenServer
<1>4. ASSUME NEW r \in Requests, Translate(r) PROVE Types'
      BY <1>4 DEF Translate
<1>5. ASSUME NEW r \in Requests, TakeWorker(r) PROVE Types'
      BY <1>5, <1>t DEF TakeWorker
<1>6. ASSUME NEW r \in Requests, Answer(r) PROVE Types'
      BY <1>6, <1>q DEF Answer, Apart
<1>7. ASSUME NEW r \in Requests, InferenceFails(r) PROVE Types'
  <2>1. slot' \in [Workers -> {"cold", "loading", "warm", "stuck", "shut", "lost"}]
        BY <1>7 DEF InferenceFails
  <2>4. rewarm' = rewarm \/ rewarm' = [rewarm EXCEPT ![held[r]] = "queued"]
        BY <1>7 DEF InferenceFails
  <2>2. CASE BeginClose
        BY <1>7, <2>1, <2>4, <2>2 DEF InferenceFails
  <2>3. CASE UNCHANGED closeVars
        BY <1>7, <2>1, <2>4, <2>3 DEF InferenceFails
  <2>. QED  BY <1>7, <2>2, <2>3 DEF InferenceFails
<1>8. ASSUME NEW r \in Requests, Interrupt(r) PROVE Types'
      BY <1>8 DEF Interrupt
<1>9. ASSUME NEW r \in Requests, Return(r) PROVE Types'
      BY <1>9 DEF Return
<1>10. ASSUME NEW w \in Workers, RewarmBegins(w) PROVE Types'
      BY <1>10 DEF RewarmBegins
<1>11. ASSUME NEW w \in Workers, RewarmSucceeds(w) PROVE Types'
      BY <1>11, <1>q DEF RewarmSucceeds
<1>12. ASSUME NEW w \in Workers, RewarmFails(w) PROVE Types'
  <2>1. /\ slot' \in [Workers -> {"cold", "loading", "warm", "stuck", "shut", "lost"}]
        /\ rewarm' \in [Workers -> {"none", "queued", "loading", "aborting"}]
        BY <1>12 DEF RewarmFails
  <2>2. CASE BeginClose
        BY <1>12, <2>1, <2>2 DEF RewarmFails
  <2>3. CASE UNCHANGED closeVars
        BY <1>12, <2>1, <2>3 DEF RewarmFails
  <2>. QED  BY <1>12, <2>2, <2>3 DEF RewarmFails
<1>13. CASE CloseStartup
      BY <1>13 DEF CloseStartup
<1>14. CASE CloseServer
      BY <1>14 DEF CloseServer
<1>15. CASE CloseOperations
      BY <1>15 DEF CloseOperations
<1>16. CASE CloseRecoveries
      BY <1>16 DEF CloseRecoveries
<1>17. CASE CloseWorkers
      BY <1>17 DEF CloseWorkers
<1>18. ASSUME NEW w \in Workers, CloseWorker(w) PROVE Types'
      BY <1>18 DEF CloseWorker
<1>19. CASE CloseEnds
      BY <1>19 DEF CloseEnds
<1>20. CASE OwnerBegins
      BY <1>20 DEF OwnerBegins
<1>21. CASE OwnerStarted
      BY <1>21 DEF OwnerStarted
<1>22. CASE OwnerServed
      BY <1>22 DEF OwnerServed
<1>23. CASE OwnerCloses
  <2>1. CASE BeginClose /\ startup' \in {"failed", startup}
        BY <1>23, <2>1 DEF OwnerCloses
  <2>2. CASE startup' = "aborting" /\ UNCHANGED closeVars
        BY <1>23, <2>2 DEF OwnerCloses
  <2>. QED  BY <1>23, <2>1, <2>2 DEF OwnerCloses
<1>24. CASE OwnerEnds
      BY <1>24 DEF OwnerEnds
<1>25. CASE Stop
      BY <1>25 DEF Stop
<1>26. CASE UNCHANGED vars
      BY <1>26 DEF vars
<1>. QED
  BY <1>1, <1>2, <1>3, <1>4, <1>5, <1>6, <1>7, <1>8, <1>9, <1>10, <1>11, <1>12,
     <1>13, <1>14, <1>15, <1>16, <1>17, <1>18, <1>19, <1>20, <1>21, <1>22, <1>23,
     <1>24, <1>25, <1>26
     DEF Next, Boot, Infer, Reload, RequestStep, CloseStep, OwnerStep

\* A load that ended leaves its worker warm, and the next load begins with a
\* worker that is not in the queue.
LEMMA BootLoads ==
  ASSUME TypeOK, NEW w \in Workers, BootSucceeds(w)
  PROVE  /\ startup = "loading" /\ booting = w /\ UNCHANGED <<held, closed, closing>>
         /\ Range(queue') = Range(queue) \cup {w}
         /\ \A x \in Workers :
              \/ slot'[x] = IF x = w THEN "warm" ELSE slot[x]
              \/ slot'[x] = "loading" /\ x \notin Range(queue) \cup {w}
<1> USE DEF TypeOK, BootSucceeds, Put, Becomes, closeVars, requestVars
<1>1. Range(queue') = Range(queue) \cup {w}
      BY QueueGrows
<1>2. CASE \E v \in Workers \ (Range(queue) \cup {w}) :
             slot' = [slot EXCEPT ![w] = "warm", ![v] = "loading"]
  <2>1. PICK v \in Workers \ (Range(queue) \cup {w}) :
             slot' = [slot EXCEPT ![w] = "warm", ![v] = "loading"]
        BY <1>2
  <2>2. \A x \in Workers :
          slot'[x] = IF x = v THEN "loading" ELSE IF x = w THEN "warm" ELSE slot[x]
        BY <2>1
  <2>. QED  BY <1>1, <2>1, <2>2
<1>3. CASE slot' = [slot EXCEPT ![w] = "warm"]
      BY <1>1, <1>3
<1>. QED  BY <1>2, <1>3

LEMMA StepCore == ASSUME IInv, [Next]_vars PROVE Core'
<1> USE DEF IInv, Core, Types, TypeOK, Beginnings, Apart, Placed, Loads, Warmth, Stages,
            Pending, Working, Reloading, Quiet, HasChild, ownerVars, startVars, closeVars,
            requestVars, rewarmVars, Put, Becomes, BeginClose, Cancelled, BootFirst
<1>q. \A w \in Workers :
        /\ Append(queue, w) \in Seq(Workers)
        /\ Range(Append(queue, w)) = Range(queue) \cup {w}
        /\ w \notin Range(queue) => IsInjective(Append(queue, w))
      BY QueueGrows
<1>t. queue # <<>> => /\ Tail(queue) \in Seq(Workers) /\ IsInjective(Tail(queue))
                      /\ Head(queue) \in Workers /\ Head(queue) \in Range(queue)
                      /\ Range(Tail(queue)) = Range(queue) \ {Head(queue)}
      BY QueueShrinks
<1>r. Range(queue) \subseteq Workers
      BY DEF Range
<1>e. Range(<<>>) = {}
      BY DEF Range
<1>y. Types'
      BY StepTypes DEF IInv
<1>1. ASSUME NEW w \in Workers, BootSucceeds(w) PROVE Core'
  <2>1. Types'
        BY <1>y
  <2>2. Beginnings'
        BY <1>1, <1>r, <1>q DEF BootSucceeds
  <2>3. Apart'
        BY <1>1, <1>r, <1>q DEF BootSucceeds
  <2>4. Placed'
        BY <1>1, <1>r, <1>q DEF BootSucceeds
  <2>5. Loads'
        BY <1>1, <1>r, <1>q DEF BootSucceeds
  <2>6. Warmth'
    <3>1. \A r \in Requests : held[r] = None
          BY <1>1 DEF BootSucceeds
    <3>2. \A x \in Workers : slot'[x] = "stuck" => slot[x] = "stuck"
          BY <1>1, BootLoads
    <3>3. \A x \in Workers : slot'[x] \in {"shut", "lost"} => slot[x] = slot'[x]
          BY <1>1, BootLoads
    <3>4. ASSUME ~closed, NEW x \in Range(queue') PROVE slot'[x] = "warm"
      <4>1. x \in Range(queue) \cup {w} /\ x \in Workers
            BY <1>r, <1>1, BootLoads
      <4>2. slot'[x] = IF x = w THEN "warm" ELSE slot[x]
            BY <1>1, <4>1, BootLoads
      <4>. QED  BY <3>4, <4>1, <4>2
    <3>5. startup = "loading" /\ UNCHANGED <<held, closed, closing>>
          BY <1>1, BootLoads
    <3>. QED  BY <3>1, <3>2, <3>3, <3>4, <3>5
  <2>7. Stages'
        BY <1>1, <1>r, <1>q DEF BootSucceeds
  <2>. QED  BY <2>1, <2>2, <2>3, <2>4, <2>5, <2>6, <2>7 DEF Core
<1>2. ASSUME NEW w \in Workers, BootFails(w) PROVE Core'
  <2>1. Types'
        BY <1>y
  <2>2. Beginnings'
        BY <1>2, <1>r DEF BootFails
  <2>3. Apart'
        BY <1>2, <1>r DEF BootFails
  <2>4. Placed'
        BY <1>2, <1>r DEF BootFails
  <2>5. Loads'
        BY <1>2, <1>r DEF BootFails
  <2>6. Warmth'
        BY <1>2, <1>r DEF BootFails
  <2>7. Stages'
        BY <1>2, <1>r DEF BootFails
  <2>. QED  BY <2>1, <2>2, <2>3, <2>4, <2>5, <2>6, <2>7 DEF Core
<1>3. CASE OpenServer
  <2>1. Types'
        BY <1>y
  <2>2. Beginnings'
        BY <1>3, <1>r DEF OpenServer
  <2>3. Apart'
        BY <1>3, <1>r DEF OpenServer
  <2>4. Placed'
        BY <1>3, <1>r DEF OpenServer
  <2>5. Loads'
        BY <1>3, <1>r DEF OpenServer
  <2>6. Warmth'
        BY <1>3, <1>r DEF OpenServer
  <2>7. Stages'
        BY <1>3, <1>r DEF OpenServer
  <2>. QED  BY <2>1, <2>2, <2>3, <2>4, <2>5, <2>6, <2>7 DEF Core
<1>4. ASSUME NEW r \in Requests, Translate(r) PROVE Core'
  <2>1. Beginnings' /\ Apart'
        BY <1>4, <1>r DEF Translate
  <2>2. Placed' /\ Loads' /\ Warmth' /\ Stages'
        BY <1>4, <1>r DEF Translate
  <2>. QED  BY <1>y, <2>1, <2>2 DEF Core
<1>5. ASSUME NEW r \in Requests, TakeWorker(r) PROVE Core'
  <2>1. CASE closed
    <3>1. /\ Range(queue') = Range(queue) \ {Head(queue)} /\ IsInjective(queue')
          /\ op[r] = "waiting" /\ op' = [op EXCEPT ![r] = "failed"]
          /\ UNCHANGED <<ownerVars, startVars, server, closeVars, call, held>>
          /\ UNCHANGED <<rewarmVars, slot>>
          BY <1>5, <1>t, <2>1 DEF TakeWorker
    <3>2. queue # <<>>
          BY <1>5 DEF TakeWorker
    <3>3. Beginnings'
          BY <3>1, <3>2
    <3>4. Apart'
          BY <3>1
    <3>5. Placed' /\ Loads' /\ Warmth' /\ Stages'
          BY <2>1, <3>1
    <3>. QED  BY <1>y, <3>3, <3>4, <3>5 DEF Core
  <2>2. CASE ~closed
    <3>1. /\ Range(queue') = Range(queue) \ {Head(queue)} /\ IsInjective(queue')
          /\ Head(queue) \in Range(queue) /\ Head(queue) \in Workers
          /\ op[r] = "waiting" /\ op' = [op EXCEPT ![r] = "inferring"]
          /\ held' = [held EXCEPT ![r] = Head(queue)]
          /\ UNCHANGED <<ownerVars, startVars, server, closeVars, call, rewarmVars, slot>>
          BY <1>5, <1>t, <2>2 DEF TakeWorker
    <3>2. Beginnings'
          BY <3>1
    <3>3. Apart'
          BY <3>1
    <3>4. Placed'
          BY <3>1
    <3>5. Loads' /\ Warmth' /\ Stages'
          BY <2>2, <3>1
    <3>. QED  BY <1>y, <3>2, <3>3, <3>4, <3>5 DEF Core
  <2>. QED  BY <2>1, <2>2
<1>6. ASSUME NEW r \in Requests, Answer(r) PROVE Core'
      BY <1>6, <1>r, <1>q DEF Answer
<1>7. ASSUME NEW r \in Requests, InferenceFails(r) PROVE Core'
  <2>1. Types'
        BY <1>y
  <2>2. Beginnings'
        BY <1>7, <1>r DEF InferenceFails
  <2>3. Apart'
        BY <1>7, <1>r DEF InferenceFails
  <2>4. Placed'
        BY <1>7, <1>r DEF InferenceFails
  <2>5. Loads'
        BY <1>7, <1>r DEF InferenceFails
  <2>6. Warmth'
        BY <1>7, <1>r DEF InferenceFails
  <2>7. Stages'
        BY <1>7, <1>r DEF InferenceFails
  <2>. QED  BY <2>1, <2>2, <2>3, <2>4, <2>5, <2>6, <2>7 DEF Core
<1>8. ASSUME NEW r \in Requests, Interrupt(r) PROVE Core'
      BY <1>8, <1>r DEF Interrupt
<1>9. ASSUME NEW r \in Requests, Return(r) PROVE Core'
      BY <1>9, <1>r DEF Return
<1>10. ASSUME NEW w \in Workers, RewarmBegins(w) PROVE Core'
  <2>1. CASE closed
        BY <1>10, <1>r, <2>1 DEF RewarmBegins
  <2>2. CASE ~closed
        BY <1>10, <1>r, <2>2 DEF RewarmBegins
  <2>. QED  BY <2>1, <2>2
<1>11. ASSUME NEW w \in Workers, RewarmSucceeds(w) PROVE Core'
  <2>1. CASE closed
        BY <1>11, <1>r, <2>1 DEF RewarmSucceeds
  <2>2. CASE ~closed
    <3>1. queue' = Append(queue, w) /\ w \notin Range(queue)
          BY <1>11, <2>2 DEF RewarmSucceeds
    <3>8. Range(queue') = Range(queue) \cup {w} /\ IsInjective(queue')
          BY <3>1, <1>q
    <3> HIDE DEF Put
    <3>2. Beginnings'
          BY <1>11, <1>r, <2>2, <3>1, <3>8 DEF RewarmSucceeds
    <3>3. Apart'
          BY <1>11, <1>r, <2>2, <3>1, <3>8 DEF RewarmSucceeds
    <3>4. Placed'
          BY <1>11, <1>r, <2>2, <3>1, <3>8 DEF RewarmSucceeds
    <3>5. Loads'
          BY <1>11, <1>r, <2>2, <3>1, <3>8 DEF RewarmSucceeds
    <3>6. Warmth'
          BY <1>11, <1>r, <2>2, <3>1, <3>8 DEF RewarmSucceeds
    <3>7. Stages'
          BY <1>11, <1>r, <2>2, <3>1, <3>8 DEF RewarmSucceeds
    <3>. QED  BY <1>y, <3>2, <3>3, <3>4, <3>5, <3>6, <3>7 DEF Core
  <2>. QED  BY <2>1, <2>2
<1>12. ASSUME NEW w \in Workers, RewarmFails(w) PROVE Core'
  <2>1. Types'
        BY <1>y
  <2>2. Beginnings'
        BY <1>12, <1>r DEF RewarmFails
  <2>3. Apart'
        BY <1>12, <1>r DEF RewarmFails
  <2>4. Placed'
        BY <1>12, <1>r DEF RewarmFails
  <2>5. Loads'
        BY <1>12, <1>r DEF RewarmFails
  <2>6. Warmth'
        BY <1>12, <1>r DEF RewarmFails
  <2>7. Stages'
        BY <1>12, <1>r DEF RewarmFails
  <2>. QED  BY <2>1, <2>2, <2>3, <2>4, <2>5, <2>6, <2>7 DEF Core
<1>13. CASE CloseStartup
      BY <1>13, <1>r DEF CloseStartup
<1>14. CASE CloseServer
      BY <1>14, <1>r DEF CloseServer
<1>15. CASE CloseOperations
      BY <1>15, <1>r DEF CloseOperations
<1>16. CASE CloseRecoveries
      BY <1>16, <1>r DEF CloseRecoveries
<1>17. CASE CloseWorkers
      BY <1>17, <1>r DEF CloseWorkers
<1>18. ASSUME NEW w \in Workers, CloseWorker(w) PROVE Core'
      BY <1>18, <1>r DEF CloseWorker
<1>19. CASE CloseEnds
      BY <1>19, <1>r DEF CloseEnds
<1>20. CASE OwnerBegins
      BY <1>20, <1>r, <1>e DEF OwnerBegins
<1>21. CASE OwnerStarted
      BY <1>21, <1>r DEF OwnerStarted, StartEnded
<1>22. CASE OwnerServed
      BY <1>22, <1>r DEF OwnerServed
<1>23. CASE OwnerCloses
  <2>1. CASE startup = "loading"
        BY <1>23, <1>r, <2>1 DEF OwnerCloses
  <2>2. CASE startup = "opening"
        BY <1>23, <1>r, <2>2 DEF OwnerCloses
  <2>3. CASE startup \in {"none", "done"}
    <3>1. /\ ~closed /\ owner \in {"stopping", "failing"} /\ closed' = TRUE /\ UNCHANGED failed
          /\ closing' = IF closing = "none" THEN "begun" ELSE closing
          /\ UNCHANGED <<ownerVars, startVars, server, queue, requestVars, rewarmVars, slot>>
          BY <1>23, <2>3 DEF OwnerCloses
    <3>. QED  BY <1>r, <2>3, <3>1
  <2>. QED  BY <1>23, <2>1, <2>2, <2>3 DEF OwnerCloses
<1>24. CASE OwnerEnds
      BY <1>24, <1>r DEF OwnerEnds
<1>25. CASE Stop
      BY <1>25, <1>r DEF Stop
<1>26. CASE UNCHANGED vars
      BY <1>26, <1>r DEF vars
<1>. QED
  BY <1>1, <1>r, <1>2, <1>3, <1>4, <1>5, <1>6, <1>7, <1>8, <1>9, <1>10, <1>11,
     <1>12, <1>13, <1>14, <1>15, <1>16, <1>17, <1>18, <1>19, <1>20, <1>21, <1>22,
     <1>23, <1>24, <1>25, <1>26
     DEF Next, Boot, Infer, Reload, RequestStep, CloseStep, OwnerStep

LEMMA StepInvariant == IInv /\ [Next]_vars => IInv'
<1> SUFFICES ASSUME IInv, [Next]_vars PROVE IInv'
    OBVIOUS
<1>1. Core'
      BY StepCore
<1>2. Len(queue') <= Cardinality(Workers)
      BY <1>1, QueueIsShort DEF Core, Types, Apart
<1>. QED  BY <1>1, <1>2 DEF Core, Types, IInv, TypeOK

(* Every reachable state satisfies the invariant (sidecar.py:96-232).        *)
THEOREM Inductive == Spec => []IInv
BY InitInvariant, StepInvariant, PTL DEF Spec

(* The variables have their types.                                           *)
THEOREM TypeCorrect == Spec => []TypeOK
BY Inductive, PTL DEF IInv

-----------------------------------------------------------------------------
(* What the pool promises *)

\* A worker's claims are counted from three sets of at most one member each.
LEMMA FewClaims ==
  ASSUME NEW S, NEW x, S \subseteq {x}
  PROVE  /\ IsFiniteSet(S)
         /\ Cardinality(S) = IF S = {} THEN 0 ELSE 1
<1>1. CASE S = {}
      BY <1>1, FS_EmptySet
<1>2. CASE S = {x}
      BY <1>2, FS_Singleton
<1>. QED  BY <1>1, <1>2

LEMMA OneClaim ==
  ASSUME IInv, NEW w \in Workers
  PROVE  /\ Claims(w) <= 1
         /\ (w \in Range(queue) \/ rewarm[w] # "none" \/ \E r \in Requests : held[r] = w)
              => Claims(w) = 1
<1> DEFINE Q == {i \in DOMAIN queue : queue[i] = w}
           H == {r \in Requests : held[r] = w}
<1>1. Q # {} <=> w \in Range(queue)
      BY DEF Range
<1>2. \E x : Q \subseteq {x}
      BY DEF IInv, Apart, IsInjective
<1>3. H # {} <=> \E r \in Requests : held[r] = w
      OBVIOUS
<1>4. \E x : H \subseteq {x}
      BY DEF IInv, Apart
<1>5. Cardinality(Q) = IF Q = {} THEN 0 ELSE 1
      BY <1>2, FewClaims
<1>6. Cardinality(H) = IF H = {} THEN 0 ELSE 1
      BY <1>4, FewClaims
<1>7. Claims(w) = Cardinality(Q) + Cardinality(H) + (IF rewarm[w] # "none" THEN 1 ELSE 0)
                    + (IF booting = w THEN 1 ELSE 0)
      BY DEF Claims
<1> HIDE DEF Q, H
<1>. QED  BY <1>1, <1>3, <1>5, <1>6, <1>7 DEF IInv, Apart

(* The places of the workers agree with one another: no worker is shared,    *)
(* none is lost while the socket is open for work, and what is queued is     *)
(* warm (sidecar.py:96-148, 181-232), for any number of workers and clients. *)
THEOREM PoolConsistentHolds == Spec => []PoolConsistent
<1>1. IInv => NeverShared
      BY OneClaim DEF NeverShared
<1>2. IInv => NeverLost
      BY OneClaim DEF NeverLost, IInv, TypeOK, Placed, Beginnings
<1>3. IInv => QueuedIsWarm
      BY DEF QueuedIsWarm, IInv, Warmth
<1>4. IInv => PoolConsistent
      BY <1>1, <1>2, <1>3 DEF PoolConsistent, IInv
<1>. QED  BY <1>4, Inductive, PTL

(* Initial loads and reloads together load one model at a time.              *)
THEOREM OneLoadHolds == Spec => []OneLoad
<1>1. ASSUME IInv PROVE OneLoad
  <2> DEFINE L == {w \in Workers : slot[w] = "loading"}
  <2>1. ASSUME NEW v \in L, NEW w \in L PROVE v = w
    <3>1. (booting = v \/ lock = v) /\ (booting = w \/ lock = w)
          BY <1>1 DEF IInv, Loads
    <3>2. booting # None => \A u \in Workers : rewarm[u] = "none"
          BY <1>1 DEF IInv, TypeOK, Apart, Beginnings, Reloading
    <3>3. booting = None \/ lock \notin Workers
          BY <1>1, <3>2 DEF IInv, Loads, Reloading
    <3>. QED  BY <3>1, <3>3
  <2>3. \E x : L \subseteq {x}
        BY <2>1
  <2>2. Cardinality(L) = IF L = {} THEN 0 ELSE 1
        BY <2>3, FewClaims
  <2>. QED  BY <2>2 DEF OneLoad
<1>. QED  BY <1>1, Inductive, PTL

(* Workers are closed only when no request, recovery or startup is inside    *)
(* one (_close).                                                             *)
THEOREM QuietBeforeCloseHolds == Spec => []QuietBeforeClose
<1>1. IInv => QuietBeforeClose
      BY DEF IInv, TypeOK, QuietBeforeClose, Stages, Apart,
             Quiet, Working, Reloading, Pending
<1>. QED  BY <1>1, Inductive, PTL

(* The service returns normally only after every child is reaped             *)
(* (serve_until_stopped).                                                    *)
THEOREM ReturnMeansReapedHolds == Spec => []ReturnMeansReaped
<1>1. IInv => ReturnMeansReaped
      BY DEF IInv, ReturnMeansReaped, Stages, HasChild
<1>. QED  BY <1>1, Inductive, PTL

-----------------------------------------------------------------------------
(* The contract of a slot *)

\* What a step may do to one worker, seen from outside.
LEMMA SlotStep ==
  ASSUME IInv, IInv', [Next]_vars, NEW u \in Workers
  PROVE  SlotOf(u)!Move \/ UNCHANGED <<SlotState(u), SlotClosed(u)>>
<1> DEFINE Kept == SlotOf(u)!Move \/ UNCHANGED <<SlotState(u), SlotClosed(u)>>
<1> USE DEF IInv, TypeOK, Beginnings, Apart, Loads, Warmth, Stages, Pending, Working,
            Reloading, Quiet, HasChild, ownerVars, startVars, closeVars, requestVars,
            rewarmVars, Becomes, BeginClose, Cancelled, BootFirst, SlotState, SlotClosed,
            SlotOf!Move, SlotOf!Begins, SlotOf!Warms, SlotOf!Fails, SlotOf!Closes,
            SlotOf!Reaps
<1>0. ASSUME slot'[u] = slot[u], UNCHANGED held, closing' \in Quiet <=> closing \in Quiet
      PROVE  Kept
      BY <1>0
<1>1. ASSUME NEW w \in Workers, BootSucceeds(w) PROVE Kept
  <2>1. /\ startup = "loading" /\ booting = w /\ UNCHANGED <<held, closing>>
        /\ \/ slot'[u] = IF u = w THEN "warm" ELSE slot[u]
           \/ u \notin Range(queue) \cup {w} /\ slot'[u] = "loading"
        BY <1>1, BootLoads
  <2>2. closing \notin Quiet /\ \A r \in Requests : held[r] = None
        BY <2>1
  <2>3. CASE u = w
        BY <2>1, <2>2, <2>3
  <2>4. CASE u # w /\ slot'[u] = "loading"
        BY <2>1, <2>2, <2>4
  <2>5. CASE u # w /\ slot'[u] = slot[u]
        BY <1>0, <2>1, <2>5
  <2>. QED  BY <2>1, <2>3, <2>4, <2>5
<1>2. ASSUME NEW w \in Workers, BootFails(w) PROVE Kept
  <2>1. /\ slot[w] = "loading" /\ UNCHANGED held
        /\ closing \notin Quiet /\ closing' \notin Quiet
        /\ \E s \in {"warm", "cold", "stuck"} : slot' = [slot EXCEPT ![w] = s]
        BY <1>2 DEF BootFails
  <2>2. CASE u = w
        BY <2>1, <2>2
  <2>3. CASE u # w
        BY <1>0, <2>1, <2>3
  <2>. QED  BY <2>2, <2>3
<1>3. ASSUME NEW r \in Requests, TakeWorker(r) PROVE Kept
      BY <1>3 DEF TakeWorker
<1>4. ASSUME NEW r \in Requests, Answer(r) PROVE Kept
      BY <1>4 DEF Answer
<1>5. ASSUME NEW r \in Requests, InferenceFails(r) PROVE Kept
  <2>1. PICK w \in Workers : held[r] = w
        BY <1>5 DEF InferenceFails
  <2>2. /\ slot[w] = "warm" /\ closing \notin Quiet /\ closing' \notin Quiet
        /\ \E s \in {"warm", "cold", "stuck"} : slot' = [slot EXCEPT ![w] = s]
        /\ held' = [held EXCEPT ![r] = None]
        BY <1>5, <2>1 DEF InferenceFails
  <2>3. \A q \in Requests : held'[q] # w
        BY <2>1, <2>2
  <2>4. CASE u = w
        BY <2>1, <2>2, <2>3, <2>4
  <2>5. CASE u # w
    <3>1. slot'[u] = slot[u] /\ \A q \in Requests : held'[q] = u <=> held[q] = u
          BY <2>1, <2>2, <2>5
    <3>. QED  BY <2>2, <3>1
  <2>. QED  BY <2>4, <2>5
<1>6. ASSUME NEW w \in Workers, RewarmBegins(w) PROVE Kept
  <2>1. CASE UNCHANGED slot
        BY <1>0, <1>6, <2>1 DEF RewarmBegins
  <2>2. CASE ~closed /\ slot' = [slot EXCEPT ![w] = "loading"]
    <3>1. /\ closing \notin Quiet /\ UNCHANGED <<held, closing>>
          /\ slot[w] \in {"cold", "warm"} /\ \A r \in Requests : held[r] # w
          BY <1>6, <2>2 DEF RewarmBegins
    <3>2. CASE u = w
          BY <2>2, <3>1, <3>2
    <3>3. CASE u # w
          BY <1>0, <2>2, <3>1, <3>3
    <3>. QED  BY <3>2, <3>3
  <2>. QED  BY <1>6, <2>1, <2>2 DEF RewarmBegins
<1>7. ASSUME NEW w \in Workers, RewarmSucceeds(w) PROVE Kept
  <2>1. /\ slot[w] = "loading" /\ closing \notin Quiet /\ UNCHANGED <<held, closing>>
        /\ slot' = [slot EXCEPT ![w] = "warm"] /\ \A r \in Requests : held[r] # w
        BY <1>7 DEF RewarmSucceeds
  <2>2. CASE u = w
        BY <2>1, <2>2
  <2>3. CASE u # w
        BY <1>0, <2>1, <2>3
  <2>. QED  BY <2>2, <2>3
<1>8. ASSUME NEW w \in Workers, RewarmFails(w) PROVE Kept
  <2>1. /\ slot[w] = "loading" /\ UNCHANGED held
        /\ closing \notin Quiet /\ closing' \notin Quiet
        /\ \E s \in {"warm", "cold", "stuck"} : slot' = [slot EXCEPT ![w] = s]
        BY <1>8 DEF RewarmFails
  <2>2. CASE u = w
        BY <2>1, <2>2
  <2>3. CASE u # w
        BY <1>0, <2>1, <2>3
  <2>. QED  BY <2>2, <2>3
<1>9. ASSUME CloseWorkers PROVE Kept
      BY <1>9 DEF CloseWorkers
<1>10. ASSUME NEW w \in Workers, CloseWorker(w) PROVE Kept
      BY <1>10 DEF CloseWorker
<1>11. ASSUME OwnerBegins PROVE Kept
  <2>1. CASE UNCHANGED slot
        BY <1>0, <1>11, <2>1 DEF OwnerBegins
  <2>2. CASE BootFirst
    <3>1. PICK w \in Workers : slot' = [slot EXCEPT ![w] = "loading"]
          BY <2>2
    <3>2. /\ closing \notin Quiet /\ UNCHANGED <<held, closing>>
          /\ \A r \in Requests : held[r] = None
          /\ slot[w] \in {"cold", "warm"}
          BY <1>11 DEF OwnerBegins
    <3>3. CASE u = w
          BY <3>1, <3>2, <3>3
    <3>4. CASE u # w
          BY <1>0, <3>1, <3>2, <3>4
    <3>. QED  BY <3>3, <3>4
  <2>. QED  BY <1>11, <2>1, <2>2 DEF OwnerBegins
<1>12. ASSUME OpenServer PROVE Kept
      BY <1>12, <1>0 DEF OpenServer
<1>13. ASSUME NEW r \in Requests, Translate(r) PROVE Kept
      BY <1>13, <1>0 DEF Translate
<1>14. ASSUME NEW r \in Requests, Interrupt(r) PROVE Kept
      BY <1>14, <1>0 DEF Interrupt
<1>15. ASSUME NEW r \in Requests, Return(r) PROVE Kept
      BY <1>15, <1>0 DEF Return
<1>16. ASSUME CloseStartup PROVE Kept
      BY <1>16, <1>0 DEF CloseStartup
<1>17. ASSUME CloseServer PROVE Kept
      BY <1>17, <1>0 DEF CloseServer
<1>18. ASSUME CloseOperations PROVE Kept
      BY <1>18, <1>0 DEF CloseOperations
<1>19. ASSUME CloseRecoveries PROVE Kept
      BY <1>19, <1>0 DEF CloseRecoveries
<1>20. ASSUME CloseEnds PROVE Kept
      BY <1>20, <1>0 DEF CloseEnds
<1>21. ASSUME OwnerStarted PROVE Kept
      BY <1>21, <1>0 DEF OwnerStarted
<1>22. ASSUME OwnerServed PROVE Kept
      BY <1>22, <1>0 DEF OwnerServed
<1>23. ASSUME OwnerCloses PROVE Kept
      BY <1>23, <1>0 DEF OwnerCloses
<1>24. ASSUME OwnerEnds PROVE Kept
      BY <1>24, <1>0 DEF OwnerEnds
<1>25. ASSUME Stop PROVE Kept
      BY <1>25, <1>0 DEF Stop
<1>26. ASSUME UNCHANGED vars PROVE Kept
      BY <1>26, <1>0 DEF vars
<1> HIDE DEF Kept
<1>. QED
  BY <1>1, <1>2, <1>3, <1>4, <1>5, <1>6, <1>7, <1>8, <1>9, <1>10, <1>11, <1>12,
     <1>13, <1>14, <1>15, <1>16, <1>17, <1>18, <1>19, <1>20, <1>21, <1>22, <1>23,
     <1>24, <1>25, <1>26
     DEF Kept, Next, Boot, Infer, Reload, RequestStep, CloseStep, OwnerStep

(* The pool takes each worker only through moves of the contract that the    *)
(* worker keeps (ModelSlot): a worker that is closed and reaped is never     *)
(* loaded or asked again.                                                    *)
THEOREM SlotsKeptHolds == Spec => SlotsKept
<1>1. ASSUME IInv, IInv', [Next]_vars
      PROVE  \A w \in Workers : SlotOf(w)!Move \/ UNCHANGED <<SlotState(w), SlotClosed(w)>>
      BY <1>1, SlotStep
<1>. QED  BY <1>1, Inductive, PTL DEF Spec, SlotsKept
=============================================================================
