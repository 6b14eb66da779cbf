------------------------ MODULE StreamSessionProofs ------------------------
(***************************************************************************)
(* What StreamSession guarantees for any number of requests and enders.    *)
(***************************************************************************)
EXTENDS StreamSession, SequenceTheorems, TLAPS

Plain == {None, Idle}

\* t is s, or s and one more stop() of by, and what comes last is a stop().
Extended(s, t, by) ==
  /\ t \in Seq(Op) /\ t # <<>> /\ t[Len(t)].op = "stop"
  /\ Len(t) \in {Len(s), Len(s) + 1}
  /\ \A n \in 1..Len(s) : t[n] = s[n]
  /\ Len(t) = Len(s) + 1 => t[Len(t)] = Stop(by)

\* Every entry of a queue is a start() of a request or a stop().
LEMMA OpFields ==
  ASSUME StreamAssumption, NEW o \in Op
  PROVE  /\ o.op \in {"start", "stop"}
         /\ o.op = "start" => o.by \in Request
         /\ o.op = "stop" => o.by \in Ender \cup Plain
  BY DEF Op, Start, Stop, Plain

\* Stopped adds at most one stop() and leaves a stop() at the end.
LEMMA StoppedExtends ==
  ASSUME NEW s \in Seq(Op), NEW by \in Ender \cup Plain
  PROVE  Extended(s, Stopped(s, by), by)
<1>1. Stop(by) \in Op /\ Stop(by).op = "stop"
  BY DEF Op, Stop, Plain
<1>2. CASE by = None /\ s # <<>> /\ s[Len(s)] = Stop(None)
  <2>1. Stopped(s, by) = s
    BY <1>2 DEF Stopped
  <2> QED
    BY <1>1, <1>2, <2>1 DEF Extended
<1>3. CASE ~(by = None /\ s # <<>> /\ s[Len(s)] = Stop(None))
  <2>1. Stopped(s, by) = Append(s, Stop(by))
    BY <1>3 DEF Stopped
  <2>2. Append(s, Stop(by)) \in Seq(Op) /\ Len(Append(s, Stop(by))) = Len(s) + 1
    BY <1>1
  <2>3. \A n \in 1..Len(s) : Append(s, Stop(by))[n] = s[n]
    BY <1>1
  <2>4. Append(s, Stop(by))[Len(s) + 1] = Stop(by)
    BY <1>1
  <2> QED
    BY <1>1, <2>1, <2>2, <2>3, <2>4 DEF Extended
<1> QED
  BY <1>2, <1>3

\* A stop() from outside grows the queue at its end.
LEMMA CallStopGrows ==
  ASSUME TypeOK, NEW i \in Request, NEW by \in Ender \cup Plain,
         phase[i] # "queued" => ops[i] # <<>>, CallStop(i, by)
  PROVE  /\ ops' \in [Request -> Seq(Op)]
         /\ Extended(ops[i], ops'[i], by)
         /\ \A j \in Request : j # i => ops'[j] = ops[j]
         /\ timer' = [timer EXCEPT ![i] = FALSE]
<1> DEFINE s == ops[i]
<1>1. s \in Seq(Op)
  BY DEF TypeOK
<1>2. timer' = [timer EXCEPT ![i] = FALSE]
  BY DEF CallStop, NoTimer
<1>3. CASE phase[i] = "queued"
  <2>1. ops' = [ops EXCEPT ![i] = Stopped(s, by)]
    BY <1>3 DEF CallStop
  <2>2. Extended(s, Stopped(s, by), by)
    BY <1>1, StoppedExtends
  <2>3. Stopped(s, by) \in Seq(Op)
    BY <2>2 DEF Extended
  <2> QED
    BY <1>2, <2>1, <2>2, <2>3 DEF TypeOK
<1>4. CASE phase[i] # "queued"
  <2> DEFINE r == Stopped(Tail(s), by)
  <2> DEFINE t == <<Head(s)>> \o r
  <2>1. ops' = [ops EXCEPT ![i] = t]
    BY <1>4 DEF CallStop
  <2>2. s # <<>> /\ Head(s) \in Op /\ Tail(s) \in Seq(Op) /\ Len(Tail(s)) = Len(s) - 1
    BY <1>1, <1>4
  <2>3. Extended(Tail(s), r, by)
    BY <2>2, StoppedExtends
  <2>4. r \in Seq(Op) /\ r # <<>> /\ Len(r) \in {Len(s) - 1, Len(s)}
    BY <2>2, <2>3 DEF Extended
  <2> HIDE DEF r
  <2>5. t \in Seq(Op) /\ Len(t) = 1 + Len(r)
    BY <2>2, <2>4
  <2>6. t[1] = Head(s) /\ \A n \in 1..Len(r) : t[n + 1] = r[n]
    BY <2>2, <2>4
  <2>7. t[Len(t)] = r[Len(r)]
    BY <2>4, <2>5, <2>6
  <2>8. \A n \in 1..Len(s) : t[n] = s[n]
    <3> TAKE n \in 1..Len(s)
    <3>1. CASE n = 1
      BY <1>1, <2>2, <2>6, <3>1
    <3>2. CASE n # 1
      <4>1. n - 1 \in 1..Len(Tail(s)) /\ n - 1 \in 1..Len(r)
        BY <1>1, <2>2, <2>4, <3>2
      <4>2. t[n] = r[n - 1]
        BY <2>6, <4>1
      <4>3. r[n - 1] = Tail(s)[n - 1]
        BY <2>3, <4>1 DEF Extended
      <4> QED
        BY <1>1, <2>2, <4>1, <4>2, <4>3
    <3> QED
      BY <3>1, <3>2
  <2>9. Len(t) \in {Len(s), Len(s) + 1} /\ t # <<>>
    BY <1>1, <2>4, <2>5
  <2>10. t[Len(t)].op = "stop" /\ (Len(t) = Len(s) + 1 => t[Len(t)] = Stop(by))
    BY <1>1, <2>2, <2>3, <2>4, <2>5, <2>7 DEF Extended
  <2>11. Extended(s, t, by)
    BY <2>5, <2>8, <2>9, <2>10 DEF Extended
  <2> QED
    BY <1>2, <2>1, <2>5, <2>11 DEF TypeOK
<1> QED
  BY <1>3, <1>4
----------------------------------------------------------------------------
(* The inductive invariant *)

\* The channel lock has one holder, and nobody queues for it twice.
ChanInv ==
  /\ \A n \in 1..Len(chan) :
       \/ pc[chan[n]] = "waiting"
       \/ n = 1 /\ pc[chan[n]] \in {"starting", "ending"}
  /\ \A n, m \in 1..Len(chan) : chan[n] = chan[m] => n = m

\* Nothing has touched a session before it is created.
FreshInv ==
  /\ \A i \in Request : state[i] = "init" =>
       /\ ops[i] = <<>> /\ phase[i] = "queued" /\ mapped # i /\ ~timer[i]
       /\ \A q \in Request : at[q] # i
  /\ \A q \in Request : pc[q] \in {"idle", "waiting"} => state[q] = "init"

\* A loop belongs to a session.
LoopInv == \A q \in Request : loop[q] # "none" \/ screen[q] => at[q] \in Request

\* What the head of a session's queue awaits fits what it is.
PhaseInv == \A i \in Request :
  /\ phase[i] # "queued" => ops[i] # <<>>
  /\ phase[i] \in {"init", "ready"} => ops[i][1].op = "start"
  /\ phase[i] = "clean" => ops[i][1].op = "stop"

\* A start() or an endSession's stop() in a queue is that of the holder of the
\* channel lock; while an endSession waits no other session is in the map.
CallerInv == \A i \in Request : \A n \in 1..Len(ops[i]) :
  /\ ops[i][n].by \notin Plain =>
       chan # <<>> /\ ops[i][n].by = chan[1]
  /\ ops[i][n].op = "start" =>
       pc[ops[i][n].by] = "starting" /\ at[ops[i][n].by] = i
  /\ ops[i][n].by \in Ender =>
       pc[ops[i][n].by] = "ending" /\ mapped \in {i, None}

\* The holder of the channel lock waits in one place.
UniqueInv == \A i, j \in Request : \A n \in 1..Len(ops[i]), m \in 1..Len(ops[j]) :
  ops[i][n].by \notin Plain /\ ops[j][m].by \notin Plain => i = j /\ n = m

\* What waits for a session that is not in the map ends with a stop().
EndsInv == \A i \in Request :
  mapped # i /\ ops[i] # <<>> => ops[i][Len(ops[i])].op = "stop"

QueueInv == PhaseInv /\ CallerInv /\ UniqueInv /\ EndsInv
SafeInv == NoOrphan /\ ErrorIsShutDown
IInv == TypeOK /\ ChanInv /\ FreshInv /\ LoopInv /\ QueueInv /\ SafeInv

\* No session, no queue: the initial state satisfies the invariant.
THEOREM InitIInv == StreamAssumption /\ Init => IInv
  BY DEF StreamAssumption, Init, IInv, TypeOK, ChanInv, FreshInv, LoopInv, QueueInv, PhaseInv,
    CallerInv, UniqueInv, EndsInv, SafeInv, NoOrphan, ErrorIsShutDown, Live, Plain
----------------------------------------------------------------------------
(* Effects: what a step may do to the queues, and that IInv survives it *)

\* Queues, states and the map stay.
LEMMA QuietStep ==
  ASSUME IInv,
         UNCHANGED <<state, ops, phase, mapped, chan, at>>,
         \A c \in Request \cup Ender :
           pc'[c] = pc[c] \/ {pc[c], pc'[c]} \subseteq {"watching", "away"},
         \A i \in Request : timer'[i] => timer[i] \/ state[i] # "init"
  PROVE  ChanInv' /\ FreshInv' /\ QueueInv' /\ SafeInv'
<1> USE DEF IInv
<1>1. ChanInv'
  <2>1. \A n \in 1..Len(chan) : chan[n] \in Request \cup Ender
    BY DEF TypeOK
  <2> QED
    BY <2>1 DEF ChanInv
<1>2. FreshInv'
  BY DEF FreshInv, TypeOK
<1>3. CallerInv'
  <2> SUFFICES ASSUME NEW i \in Request, NEW n \in 1..Len(ops[i]) PROVE
       /\ ops[i][n].by \notin Plain => chan # <<>> /\ ops[i][n].by = chan[1]
       /\ ops[i][n].op = "start" => pc'[ops[i][n].by] = "starting" /\ at[ops[i][n].by] = i
       /\ ops[i][n].by \in Ender => pc'[ops[i][n].by] = "ending" /\ mapped \in {i, None}
    BY DEF CallerInv
  <2>1. ops[i][n] \in Op
    BY DEF TypeOK
  <2> QED
    BY <2>1 DEF QueueInv, CallerInv, Op, Start, Stop
<1>4. PhaseInv' /\ UniqueInv' /\ EndsInv'
  BY DEF QueueInv, PhaseInv, UniqueInv, EndsInv
<1>5. SafeInv'
  BY DEF SafeInv, NoOrphan, ErrorIsShutDown, HasStop
<1> QED
  BY <1>1, <1>2, <1>3, <1>4, <1>5 DEF QueueInv

\* The head of a queue starts to wait for something else.
LEMMA PhaseStep ==
  ASSUME IInv, NEW i \in Request, NEW p \in {"init", "ready", "clean"},
         ops[i] # <<>>, ops[i][1].op = IF p = "clean" THEN "stop" ELSE "start",
         phase' = [phase EXCEPT ![i] = p],
         \/ state' = state
         \/ \E s \in {"starting", "started"} : state' = [state EXCEPT ![i] = s] /\ p # "clean",
         UNCHANGED <<ops, timer, lockVars>>
  PROVE  ChanInv' /\ FreshInv' /\ QueueInv' /\ SafeInv'
<1> USE DEF IInv, lockVars
<1>1. state[i] # "init"
  BY DEF FreshInv
<1>2. \A j \in Request : j # i => state'[j] = state[j] /\ phase'[j] = phase[j]
  BY DEF TypeOK
<1>3. phase'[i] = p /\ state'[i] # "init" /\ (state'[i] = state[i] \/ state'[i] \in {"starting", "started"})
  BY <1>1 DEF TypeOK
<1>4. ChanInv'
  BY DEF ChanInv
<1>5. FreshInv'
  BY <1>1, <1>2, <1>3 DEF FreshInv
<1>6. QueueInv'
  BY <1>2, <1>3 DEF QueueInv, PhaseInv, CallerInv, UniqueInv, EndsInv
<1>7. mapped # i => HasStop(i)
  BY DEF QueueInv, EndsInv, HasStop, TypeOK
<1>8. NoOrphan'
  BY <1>2, <1>7 DEF SafeInv, NoOrphan, HasStop
<1>9. ErrorIsShutDown'
  BY <1>2, <1>3 DEF SafeInv, ErrorIsShutDown, HasStop
<1> QED
  BY <1>4, <1>5, <1>6, <1>8, <1>9 DEF SafeInv

\* A stop() that nobody in the channel lock awaits.
LEMMA GrowStep ==
  ASSUME StreamAssumption, IInv, NEW i \in Request, NEW by \in Plain, state[i] # "init",
         ops' \in [Request -> Seq(Op)], Extended(ops[i], ops'[i], by),
         \A j \in Request : j # i => ops'[j] = ops[j] /\ timer'[j] = timer[j],
         state' \in {state, [state EXCEPT ![i] = "error"]},
         UNCHANGED <<phase, lockVars>>
  PROVE  ChanInv' /\ FreshInv' /\ QueueInv' /\ SafeInv'
<1> USE DEF IInv, lockVars
<1>1. \A j \in Request : j # i => state'[j] = state[j]
  BY DEF TypeOK
<1>2. state'[i] # "init"
  BY DEF TypeOK
<1>3. ops'[i] # <<>> /\ ops'[i][Len(ops'[i])].op = "stop" /\ ops'[i] \in Seq(Op) /\ ops[i] \in Seq(Op)
  BY DEF Extended, TypeOK
<1>4. \A n \in 1..Len(ops'[i]) : ops'[i][n].by \notin Plain \/ ops'[i][n].op = "start" =>
        n \in 1..Len(ops[i]) /\ ops'[i][n] = ops[i][n]
  BY <1>3 DEF Extended, Stop
<1>5. ChanInv'
  BY DEF ChanInv
<1>6. FreshInv'
  BY <1>1, <1>2 DEF FreshInv
<1>7. PhaseInv'
  BY <1>3 DEF QueueInv, PhaseInv, Extended
<1>8. CallerInv'
  BY <1>3, <1>4 DEF QueueInv, CallerInv, StreamAssumption, Plain
<1>9. UniqueInv'
  <2>1. \A j \in Request : \A n \in 1..Len(ops'[j]) : ops'[j][n].by \notin Plain =>
          n \in 1..Len(ops[j]) /\ ops'[j][n] = ops[j][n]
    BY <1>4
  <2>2. SUFFICES ASSUME NEW j \in Request, NEW k \in Request,
                        NEW n \in 1..Len(ops'[j]), NEW m \in 1..Len(ops'[k]),
                        ops'[j][n].by \notin Plain, ops'[k][m].by \notin Plain
                 PROVE  j = k /\ n = m
    BY DEF UniqueInv
  <2>3. /\ n \in 1..Len(ops[j]) /\ ops[j][n].by \notin Plain
        /\ m \in 1..Len(ops[k]) /\ ops[k][m].by \notin Plain
    BY <2>1, <2>2
  <2> QED
    BY <2>3 DEF QueueInv, UniqueInv
<1>10. EndsInv'
  BY <1>3 DEF QueueInv, EndsInv
<1>11. HasStop(i)'
  BY <1>3 DEF HasStop
<1>12. \A j \in Request : j # i => (HasStop(j)' <=> HasStop(j))
  BY DEF HasStop
<1>13. NoOrphan'
  <2>1. ASSUME NEW j \in Request, state'[j] \in Live PROVE mapped = j \/ HasStop(j)'
    BY <1>1, <1>11, <1>12, <2>1 DEF SafeInv, NoOrphan
  <2> QED
    BY <2>1 DEF NoOrphan
<1>14. ErrorIsShutDown'
  <2>1. ASSUME NEW j \in Request, state'[j] = "error" PROVE HasStop(j)'
    BY <1>1, <1>11, <1>12, <2>1 DEF SafeInv, ErrorIsShutDown
  <2> QED
    BY <2>1 DEF ErrorIsShutDown
<1> QED
  BY <1>5, <1>6, <1>7, <1>8, <1>9, <1>10, <1>13, <1>14 DEF QueueInv, SafeInv

\* The holder of the channel lock leaves it.
LEMMA LeaveChannel ==
  ASSUME IInv, chan # <<>>, NEW r \in {"watching", "failed", "done"},
         chan' = Tail(chan), pc' = [pc EXCEPT ![chan[1]] = r]
  PROVE  ChanInv'
<1> DEFINE T == Tail(chan)
<1>1. /\ chan \in Seq(Request \cup Ender) /\ T \in Seq(Request \cup Ender)
      /\ Len(T) = Len(chan) - 1
      /\ \A n \in 1..Len(T) : T[n] = chan[n + 1] /\ n + 1 \in 1..Len(chan)
  BY DEF IInv, TypeOK
<1>2. \A n \in 1..Len(T) : T[n] # chan[1] /\ pc[T[n]] = "waiting" /\ T[n] \in Request \cup Ender
  BY <1>1 DEF IInv, ChanInv
<1>3. \A n \in 1..Len(T) : pc'[T[n]] = "waiting"
  BY <1>1, <1>2 DEF IInv, TypeOK
<1>4. \A n, m \in 1..Len(T) : T[n] = T[m] => n = m
  BY <1>1 DEF IInv, ChanInv
<1> QED
  BY <1>3, <1>4 DEF ChanInv

\* When the holder of the channel lock has not called a session, only calls
\* that nobody awaits are in the queues.
LEMMA NoCaller ==
  ASSUME StreamAssumption, IInv, chan # <<>>, pc[chan[1]] = "waiting"
  PROVE  \A j \in Request : \A n \in 1..Len(ops[j]) :
           ops[j][n].by \in Plain /\ ops[j][n].op = "stop"
<1> SUFFICES ASSUME NEW j \in Request, NEW n \in 1..Len(ops[j])
             PROVE  ops[j][n].by \in Plain /\ ops[j][n].op = "stop"
  OBVIOUS
<1>1. ops[j][n] \in Op
  BY DEF IInv, TypeOK
<1>2. /\ ops[j][n].op \in {"start", "stop"}
      /\ ops[j][n].op = "start" => ops[j][n].by \in Request
      /\ ops[j][n].op = "stop" => ops[j][n].by \in Ender \cup Plain
  BY <1>1, OpFields
<1>3. ops[j][n].by \notin Plain => pc[ops[j][n].by] = "waiting"
  BY DEF IInv, QueueInv, CallerInv
<1>4. ops[j][n].op = "start" => pc[ops[j][n].by] = "starting"
  BY DEF IInv, QueueInv, CallerInv
<1>5. ops[j][n].by \in Ender => pc[ops[j][n].by] = "ending"
  BY DEF IInv, QueueInv, CallerInv
<1> QED
  BY <1>2, <1>3, <1>4, <1>5 DEF StreamAssumption, Plain

\* What is left of a queue when its head has gone.
LEMMA TailFacts ==
  ASSUME TypeOK, NEW i \in Request, ops[i] # <<>>
  PROVE  /\ Tail(ops[i]) \in Seq(Op) /\ Len(Tail(ops[i])) = Len(ops[i]) - 1
         /\ \A n \in 1..Len(Tail(ops[i])) :
              n + 1 \in 1..Len(ops[i]) /\ Tail(ops[i])[n] = ops[i][n + 1]
         /\ Head(ops[i]) = ops[i][1] /\ 1 \in 1..Len(ops[i]) /\ ops[i][1] \in Op
  BY DEF TypeOK

\* The last index of a queue that is not empty.
LEMMA LastIndex ==
  ASSUME NEW k \in Nat, k # 0
  PROVE  k \in 1..k
  OBVIOUS

\* An entry behind the head is in the tail.
LEMMA LongTail ==
  ASSUME NEW s \in Seq(Op), NEW n \in 1..Len(s), n # 1
  PROVE  Tail(s) # <<>>
<1>1. Len(s) \in Nat /\ s # <<>>
  BY LenProperties, EmptySeq
<1>2. Len(s) > 1
  BY <1>1
<1>3. Tail(s) \in Seq(Op) /\ Len(Tail(s)) = Len(s) - 1
  BY <1>1, HeadTailProperties
<1> DEFINE k == Len(s) m == Len(Tail(s))
<1> HIDE DEF k, m
<1>4. m # 0
  BY <1>1, <1>2, <1>3 DEF k, m
<1> QED
  BY <1>4, EmptySeq DEF m

\* The holder of the channel lock was the only one in the queues.
LEMMA CallerGone ==
  ASSUME StreamAssumption, IInv, NEW i \in Request, ops[i] # <<>>, ops[i][1].by \notin Plain,
         ops' \in [Request -> Seq(Op)],
         ops'[i] = Tail(ops[i]) \/ Extended(Tail(ops[i]), ops'[i], None),
         \A j \in Request : j # i => ops'[j] = ops[j]
  PROVE  \A j \in Request : \A n \in 1..Len(ops'[j]) :
           ops'[j][n].by \in Plain /\ ops'[j][n].op = "stop"
<1> USE DEF IInv
<1>1. \A j \in Request : \A n \in 1..Len(ops[j]) : ops[j][n].by \notin Plain => j = i /\ n = 1
  BY TailFacts DEF QueueInv, UniqueInv
<1>2. \A o \in Op : o.by \in Plain => o.op = "stop"
  BY OpFields DEF StreamAssumption, Plain
<1> TAKE j \in Request
<1> TAKE n \in 1..Len(ops'[j])
<1>3. ops'[j][n] \in Op
  OBVIOUS
<1>4. CASE j # i
  BY <1>1, <1>2, <1>3, <1>4
<1>5. CASE j = i
  <2>1. CASE n \in 1..Len(Tail(ops[i]))
    <3>1. Tail(ops[i])[n] = ops[i][n + 1] /\ n + 1 \in 1..Len(ops[i]) /\ n + 1 # 1
      BY <2>1, TailFacts
    <3>2. ops'[i][n] = Tail(ops[i])[n]
      BY <2>1 DEF Extended
    <3> QED
      BY <1>1, <1>2, <1>3, <1>5, <3>1, <3>2
  <2>2. CASE n \notin 1..Len(Tail(ops[i]))
    <3>1. Extended(Tail(ops[i]), ops'[i], None) /\ n = Len(ops'[i]) /\ n = Len(Tail(ops[i])) + 1
      BY <1>5, <2>2, TailFacts DEF Extended
    <3>2. ops'[i][n] = Stop(None)
      BY <3>1 DEF Extended
    <3> QED
      BY <1>5, <3>2 DEF Stop, Plain
  <2> QED
    BY <2>1, <2>2
<1> QED
  BY <1>4, <1>5

\* A start() has returned to its request.
LEMMA StartFinishes ==
  ASSUME StreamAssumption, IInv, NEW i \in Request, ops[i] # <<>>, ops[i][1].op = "start",
         NEW r \in {"watching", "failed"}, NEW s \in Live,
         chan' = Tail(chan), pc' = [pc EXCEPT ![ops[i][1].by] = r],
         state' = [state EXCEPT ![i] = s], phase' = [phase EXCEPT ![i] = "queued"],
         \A j \in Request : j # i => ops'[j] = ops[j] /\ timer'[j] = timer[j],
         ops' \in [Request -> Seq(Op)],
         \/ ops'[i] = Tail(ops[i]) /\ (s = "error" => state[i] = "error")
         \/ Extended(Tail(ops[i]), ops'[i], None),
         UNCHANGED <<mapped, at>>
  PROVE  ChanInv' /\ FreshInv' /\ QueueInv' /\ SafeInv'
<1> USE DEF IInv
<1> DEFINE c == ops[i][1].by
<1>1. ops[i][1] \in Op /\ c \in Request /\ c \notin Plain
  BY TailFacts, OpFields DEF StreamAssumption, Plain
<1>2. chan # <<>> /\ c = chan[1] /\ pc[c] = "starting"
  BY <1>1, TailFacts DEF QueueInv, CallerInv
<1>3. ChanInv'
  BY <1>2, LeaveChannel
<1>4. /\ \A j \in Request : j # i => state'[j] = state[j] /\ phase'[j] = phase[j]
      /\ state'[i] = s /\ phase'[i] = "queued" /\ state[i] # "init"
  BY DEF TypeOK, FreshInv
<1>5. FreshInv'
  <2>1. \A q \in Request : pc'[q] \in {"idle", "waiting"} => pc[q] \in {"idle", "waiting"}
    BY DEF TypeOK
  <2> QED
    BY <1>4, <2>1 DEF FreshInv, Live
<1>6. \A j \in Request : \A n \in 1..Len(ops'[j]) :
        ops'[j][n].by \in Plain /\ ops'[j][n].op = "stop"
  BY <1>1, CallerGone
<1>7. CallerInv' /\ UniqueInv'
  BY <1>6 DEF CallerInv, UniqueInv, StreamAssumption, Plain
<1>8. PhaseInv'
  BY <1>4 DEF QueueInv, PhaseInv
<1>9. EndsInv'
  <2> SUFFICES ASSUME NEW j \in Request, ops'[j] # <<>>
               PROVE  Len(ops'[j]) \in 1..Len(ops'[j])
    BY <1>6 DEF EndsInv
  <2> QED
    OBVIOUS
<1>10. mapped # i \/ state'[i] = "error" => HasStop(i)'
  <2> SUFFICES ASSUME mapped # i \/ state'[i] = "error" PROVE ops'[i] # <<>>
    <3>1. ops'[i] # <<>> => 1 \in 1..Len(ops'[i])
      OBVIOUS
    <3> QED
      BY <1>6, <3>1 DEF HasStop
  <2>1. CASE Extended(Tail(ops[i]), ops'[i], None)
    BY <2>1 DEF Extended
  <2>2. CASE ops'[i] = Tail(ops[i]) /\ (s = "error" => state[i] = "error")
    <3>1. HasStop(i)
      <4>1. CASE mapped # i
        BY <4>1, TailFacts DEF QueueInv, EndsInv, HasStop
      <4>2. CASE mapped = i
        BY <1>4, <2>2, <4>2 DEF SafeInv, ErrorIsShutDown
      <4> QED
        BY <4>1, <4>2
    <3>2. PICK n \in 1..Len(ops[i]) : ops[i][n].op = "stop"
      BY <3>1 DEF HasStop
    <3>3. n # 1 /\ ops[i] \in Seq(Op)
      BY <3>2 DEF TypeOK
    <3>4. Tail(ops[i]) # <<>>
      BY <3>3, LongTail
    <3> QED
      BY <2>2, <3>4
  <2> QED
    BY <2>1, <2>2
<1>11. SafeInv'
  <2>1. \A j \in Request : j # i => HasStop(j)' = HasStop(j)
    BY DEF HasStop
  <2>2. NoOrphan'
    BY <1>4, <1>10, <2>1 DEF SafeInv, NoOrphan
  <2>3. ErrorIsShutDown'
    BY <1>4, <1>10, <2>1 DEF SafeInv, ErrorIsShutDown
  <2> QED
    BY <2>2, <2>3 DEF SafeInv
<1> QED
  BY <1>3, <1>5, <1>7, <1>8, <1>9, <1>11 DEF QueueInv

\* A stop() that nobody in the channel lock awaits has returned.
LEMMA PlainStopFinishes ==
  ASSUME StreamAssumption, IInv, NEW i \in Request, ops[i] # <<>>,
         state' = [state EXCEPT ![i] = "stopped"], phase' = [phase EXCEPT ![i] = "queued"],
         \A j \in Request : j # i => ops'[j] = ops[j] /\ timer'[j] = timer[j],
         ops' \in [Request -> Seq(Op)],
         \/ ops'[i] = Tail(ops[i]) /\ mapped' = mapped
         \/ Extended(Tail(ops[i]), ops'[i], None) /\ mapped = i /\ mapped' = None,
         UNCHANGED <<chan, pc, at>>
  PROVE  ChanInv' /\ FreshInv' /\ QueueInv' /\ SafeInv'
<1> USE DEF IInv
<1>1. /\ \A j \in Request : j # i => state'[j] = state[j] /\ phase'[j] = phase[j]
      /\ state'[i] = "stopped" /\ phase'[i] = "queued" /\ state[i] # "init"
      /\ mapped' = mapped \/ (mapped = i /\ mapped' = None)
  BY DEF TypeOK, FreshInv
<1>2. ChanInv'
  BY DEF ChanInv
<1>3. FreshInv'
  BY <1>1 DEF FreshInv, StreamAssumption
<1>4. PhaseInv'
  BY <1>1 DEF QueueInv, PhaseInv
<1>5. \A n \in 1..Len(ops'[i]) : ops'[i][n].by \notin Plain \/ ops'[i][n].op = "start" =>
        n + 1 \in 1..Len(ops[i]) /\ ops'[i][n] = ops[i][n + 1]
  <2> SUFFICES ASSUME NEW n \in 1..Len(ops'[i]),
                      ops'[i][n].by \notin Plain \/ ops'[i][n].op = "start"
               PROVE  n + 1 \in 1..Len(ops[i]) /\ ops'[i][n] = ops[i][n + 1]
    OBVIOUS
  <2>1. n \in 1..Len(Tail(ops[i])) /\ ops'[i][n] = Tail(ops[i])[n]
    <3>1. CASE ops'[i] = Tail(ops[i])
      BY <3>1
    <3>2. CASE Extended(Tail(ops[i]), ops'[i], None)
      <4>1. Len(Tail(ops[i])) \in Nat /\ Len(ops'[i]) \in Nat
        BY TailFacts, LenProperties DEF Extended
      <4>2. CASE n \notin 1..Len(Tail(ops[i]))
        <5>1. n = Len(ops'[i]) /\ n = Len(Tail(ops[i])) + 1
          BY <3>2, <4>1, <4>2 DEF Extended
        <5>2. ops'[i][n] = Stop(None)
          BY <3>2, <5>1 DEF Extended
        <5> QED
          BY <5>2 DEF Stop, Plain
      <4> QED
        BY <3>2, <4>2 DEF Extended
    <3> QED
      BY <3>1, <3>2
  <2> QED
    BY <2>1, TailFacts
<1>6. CallerInv'
  <2> SUFFICES ASSUME NEW j \in Request, NEW n \in 1..Len(ops'[j]),
                      ops'[j][n].by \notin Plain \/ ops'[j][n].op = "start"
               PROVE  /\ chan # <<>> /\ ops'[j][n].by = chan[1]
                      /\ ops'[j][n].op = "start" =>
                           pc[ops'[j][n].by] = "starting" /\ at[ops'[j][n].by] = j
                      /\ ops'[j][n].by \in Ender =>
                           pc[ops'[j][n].by] = "ending" /\ mapped' \in {j, None}
    <3>1. \A by \in Ender : by \notin Plain
      BY DEF StreamAssumption, Plain
    <3> QED
      BY <3>1 DEF CallerInv
  <2>1. ops'[j][n] \in Op
    OBVIOUS
  <2>2. ops'[j][n].by \notin Plain
    BY <2>1, OpFields DEF StreamAssumption, Plain
  <2>3. PICK m \in 1..Len(ops[j]) : ops'[j][n] = ops[j][m]
    BY <1>5, <2>2
  <2> QED
    BY <1>1, <2>2, <2>3 DEF QueueInv, CallerInv
<1>7. UniqueInv'
  <2>1. SUFFICES ASSUME NEW j \in Request, NEW k \in Request,
                        NEW n \in 1..Len(ops'[j]), NEW m \in 1..Len(ops'[k]),
                        ops'[j][n].by \notin Plain, ops'[k][m].by \notin Plain
                 PROVE  j = k /\ n = m
    BY DEF UniqueInv
  <2> DEFINE a == IF j = i THEN n + 1 ELSE n
             b == IF k = i THEN m + 1 ELSE m
  <2>2. /\ a \in 1..Len(ops[j]) /\ ops[j][a].by \notin Plain
        /\ b \in 1..Len(ops[k]) /\ ops[k][b].by \notin Plain
    BY <1>5, <2>1
  <2>3. j = k /\ a = b
    BY <2>2 DEF QueueInv, UniqueInv
  <2> QED
    BY <2>3
<1>8. EndsInv'
  <2> SUFFICES ASSUME NEW j \in Request, mapped' # j, ops'[j] # <<>>
               PROVE  ops'[j][Len(ops'[j])].op = "stop"
    BY DEF EndsInv
  <2>1. CASE j # i
    BY <1>1, <2>1 DEF QueueInv, EndsInv
  <2>2. CASE j = i /\ Extended(Tail(ops[i]), ops'[i], None)
    BY <2>2 DEF Extended
  <2>3. CASE j = i /\ ops'[i] = Tail(ops[i]) /\ mapped' = mapped
    <3> DEFINE k == Len(Tail(ops[i]))
    <3>1. k \in 1..k /\ Tail(ops[i])[k] = ops[i][k + 1] /\ k + 1 = Len(ops[i])
      <4>1. k \in Nat /\ k # 0
        BY <2>3, TailFacts, LenProperties, EmptySeq
      <4>2. Len(ops[i]) \in Nat /\ k = Len(ops[i]) - 1
        BY TailFacts, LenProperties DEF TypeOK
      <4>3. k \in 1..k
        BY <4>1, LastIndex
      <4>4. Tail(ops[i])[k] = ops[i][k + 1]
        BY <4>3, TailFacts
      <4> HIDE DEF k
      <4> QED
        BY <4>1, <4>2, <4>3, <4>4
    <3> QED
      BY <2>3, <3>1 DEF QueueInv, EndsInv
  <2> QED
    BY <2>1, <2>2, <2>3
<1>9. \A j \in Request : j # i => HasStop(j)' = HasStop(j)
  BY DEF HasStop
<1>10. NoOrphan'
  BY <1>1, <1>9 DEF SafeInv, NoOrphan, Live
<1>11. ErrorIsShutDown'
  BY <1>1, <1>9 DEF SafeInv, ErrorIsShutDown
<1> QED
  BY <1>2, <1>3, <1>4, <1>6, <1>7, <1>8, <1>10, <1>11 DEF QueueInv, SafeInv

\* The stop() of an endSession has returned, and the key is free.
LEMMA EndFinishes ==
  ASSUME StreamAssumption, IInv, NEW i \in Request, ops[i] # <<>>, ops[i][1].by \in Ender,
         state' = [state EXCEPT ![i] = "stopped"], phase' = [phase EXCEPT ![i] = "queued"],
         ops' = [ops EXCEPT ![i] = Tail(ops[i])], mapped' = None,
         chan' = Tail(chan), pc' = [pc EXCEPT ![ops[i][1].by] = "done"],
         UNCHANGED <<timer, at>>
  PROVE  ChanInv' /\ FreshInv' /\ QueueInv' /\ SafeInv'
<1> USE DEF IInv
<1>1. ops[i][1].by \notin Plain /\ 1 \in 1..Len(ops[i])
  BY TailFacts DEF StreamAssumption, Plain
<1>2. /\ chan # <<>> /\ ops[i][1].by = chan[1] /\ pc[chan[1]] = "ending"
      /\ mapped \in {i, None}
  BY <1>1 DEF QueueInv, CallerInv
<1>3. ChanInv'
  BY <1>2, LeaveChannel
<1>4. /\ \A j \in Request : j # i => state'[j] = state[j] /\ phase'[j] = phase[j]
      /\ state'[i] = "stopped" /\ phase'[i] = "queued" /\ state[i] # "init"
      /\ \A j \in Request : j # i => ops'[j] = ops[j]
      /\ ops'[i] = Tail(ops[i])
  BY DEF TypeOK, FreshInv
<1>5. ops' \in [Request -> Seq(Op)]
  BY TailFacts DEF TypeOK
<1>6. \A j \in Request : \A n \in 1..Len(ops'[j]) :
        ops'[j][n].by \in Plain /\ ops'[j][n].op = "stop"
  BY <1>1, <1>4, <1>5, CallerGone
<1>7. FreshInv'
  <2>1. \A q \in Request : pc'[q] \in {"idle", "waiting"} => pc[q] \in {"idle", "waiting"}
    BY DEF TypeOK
  <2> QED
    BY <1>4, <2>1 DEF FreshInv, StreamAssumption
<1>8. CallerInv' /\ UniqueInv'
  BY <1>6 DEF CallerInv, UniqueInv, StreamAssumption, Plain
<1>9. PhaseInv'
  BY <1>4 DEF QueueInv, PhaseInv
<1>10. EndsInv'
  <2>1. \A j \in Request : ops'[j] # <<>> => Len(ops'[j]) \in 1..Len(ops'[j])
    BY <1>5
  <2> QED
    BY <1>6, <2>1 DEF EndsInv
<1>11. \A j \in Request : j # i => HasStop(j)' = HasStop(j)
  BY <1>4 DEF HasStop
<1>12. NoOrphan'
  BY <1>2, <1>4, <1>11 DEF SafeInv, NoOrphan, Live, StreamAssumption
<1>13. ErrorIsShutDown'
  BY <1>4, <1>11 DEF SafeInv, ErrorIsShutDown
<1> QED
  BY <1>3, <1>7, <1>8, <1>9, <1>10, <1>12, <1>13 DEF QueueInv, SafeInv

\* A call queues for the channel lock.
LEMMA AskStep ==
  ASSUME StreamAssumption, IInv, NEW c \in Request \cup Ender, Ask(c)
  PROVE  ChanInv' /\ FreshInv' /\ QueueInv' /\ SafeInv'
<1> USE DEF IInv, Ask, sessionVars
<1>1. /\ chan' = Append(chan, c) /\ chan \in Seq(Request \cup Ender)
      /\ Len(chan') = Len(chan) + 1 /\ chan'[Len(chan) + 1] = c
      /\ \A n \in 1..Len(chan) : chan'[n] = chan[n] /\ chan[n] \in Request \cup Ender
  BY DEF TypeOK
<1>2. \A n \in 1..Len(chan) : chan[n] # c
  BY DEF ChanInv
<1>3. pc' = [pc EXCEPT ![c] = "waiting"] /\ pc[c] = "idle"
  OBVIOUS
<1>4. ChanInv'
  <2>1. \A n \in 1..Len(chan) : pc'[chan[n]] = pc[chan[n]]
    BY <1>2, <1>3
  <2>2. pc'[c] = "waiting"
    BY DEF TypeOK
  <2> QED
    BY <1>1, <1>2, <2>1, <2>2 DEF ChanInv
<1>5. FreshInv'
  BY <1>3 DEF FreshInv, TypeOK
<1>6. CallerInv'
  <2> SUFFICES ASSUME NEW i \in Request, NEW n \in 1..Len(ops[i])
               PROVE  /\ ops[i][n].by \notin Plain => chan' # <<>> /\ ops[i][n].by = chan'[1]
                      /\ ops[i][n].op = "start" =>
                           pc'[ops[i][n].by] = "starting" /\ at[ops[i][n].by] = i
                      /\ ops[i][n].by \in Ender =>
                           pc'[ops[i][n].by] = "ending" /\ mapped \in {i, None}
    BY DEF CallerInv
  <2>1. ops[i][n].by # c => pc'[ops[i][n].by] = pc[ops[i][n].by]
    BY <1>3
  <2>2. chan # <<>> => chan' # <<>> /\ chan'[1] = chan[1]
    BY <1>1
  <2> QED
    BY <1>3, <2>1, <2>2 DEF QueueInv, CallerInv
<1>7. PhaseInv' /\ UniqueInv' /\ EndsInv'
  BY DEF QueueInv, PhaseInv, UniqueInv, EndsInv
<1>8. SafeInv'
  BY DEF SafeInv, NoOrphan, ErrorIsShutDown, HasStop
<1> QED
  BY <1>4, <1>5, <1>6, <1>7, <1>8 DEF QueueInv

\* A call has the channel lock, and leaves it without waiting for a session.
LEMMA PassStep ==
  ASSUME StreamAssumption, IInv, chan # <<>>, pc[chan[1]] = "waiting",
         NEW r \in {"watching", "failed", "done"},
         chan' = Tail(chan), pc' = [pc EXCEPT ![chan[1]] = r],
         \A i \in Request : timer'[i] => timer[i],
         UNCHANGED <<state, ops, phase, mapped, at>>
  PROVE  ChanInv' /\ FreshInv' /\ QueueInv' /\ SafeInv'
<1> USE DEF IInv
<1>1. ChanInv'
  BY LeaveChannel
<1>2. FreshInv'
  BY DEF FreshInv, TypeOK
<1>3. CallerInv' /\ UniqueInv'
  BY NoCaller DEF CallerInv, UniqueInv, StreamAssumption, Plain
<1>4. PhaseInv' /\ EndsInv'
  BY DEF QueueInv, PhaseInv, EndsInv
<1>5. SafeInv'
  BY DEF SafeInv, NoOrphan, ErrorIsShutDown, HasStop
<1> QED
  BY <1>1, <1>2, <1>3, <1>4, <1>5 DEF QueueInv

\* A call that keeps the channel lock while it waits for a session.
LEMMA HoldChannel ==
  ASSUME IInv, chan # <<>>, pc[chan[1]] = "waiting", NEW r \in {"starting", "ending"},
         pc' = [pc EXCEPT ![chan[1]] = r], chan' = chan
  PROVE  ChanInv' /\ pc'[chan[1]] = r
<1>1. \A n \in 1..Len(chan) : chan[n] \in Request \cup Ender
  BY DEF IInv, TypeOK
<1>2. 1 \in 1..Len(chan)
  BY DEF IInv, TypeOK
<1>3. \A n \in 1..Len(chan) : n # 1 => chan[n] # chan[1]
  BY <1>2 DEF IInv, ChanInv
<1>4. pc'[chan[1]] = r
  BY <1>1, <1>2 DEF IInv, TypeOK
<1>5. \A n \in 1..Len(chan) : n # 1 => pc'[chan[n]] = pc[chan[n]]
  BY <1>3
<1> QED
  BY <1>4, <1>5 DEF IInv, ChanInv

\* The call at the head of the channel's queue joins the queue of a session: it
\* is the only caller in it, and a session that is not in the map gets no start.
LEMMA EnterQueue ==
  ASSUME StreamAssumption, IInv, chan # <<>>, pc[chan[1]] = "waiting", chan' = chan,
         NEW i \in Request, NEW r \in {"starting", "ending"},
         pc' = [pc EXCEPT ![chan[1]] = r],
         ops' \in [Request -> Seq(Op)], \A j \in Request : j # i => ops'[j] = ops[j],
         ops'[i] # <<>>, Len(ops'[i]) \in {Len(ops[i]), Len(ops[i]) + 1},
         \A n \in 1..Len(ops[i]) : ops'[i][n] = ops[i][n],
         mapped' = i,
         Len(ops'[i]) = Len(ops[i]) + 1 =>
           \/ ops'[i][Len(ops'[i])] = Start(chan[1]) /\ r = "starting" /\ at'[chan[1]] = i
           \/ ops'[i][Len(ops'[i])] = Stop(chan[1]) /\ r = "ending" /\ chan[1] \in Ender
  PROVE  CallerInv' /\ UniqueInv'
<1> USE DEF IInv
<1>1. \A j \in Request : \A n \in 1..Len(ops[j]) : ops[j][n].by \in Plain /\ ops[j][n].op = "stop"
  BY NoCaller
<1>2. \A j \in Request : \A n \in 1..Len(ops'[j]) :
        ops'[j][n].by \notin Plain \/ ops'[j][n].op = "start" =>
          /\ j = i /\ n = Len(ops[i]) + 1
          /\ \/ ops'[j][n] = Start(chan[1]) /\ r = "starting" /\ at'[chan[1]] = i
             \/ ops'[j][n] = Stop(chan[1]) /\ r = "ending" /\ chan[1] \in Ender
  <2> TAKE j \in Request
  <2> TAKE n \in 1..Len(ops'[j])
  <2>1. CASE j # i
    BY <1>1, <2>1
  <2>2. CASE j = i /\ n \in 1..Len(ops[i])
    BY <1>1, <2>2
  <2>3. CASE j = i /\ n \notin 1..Len(ops[i])
    <3>1. Len(ops[i]) \in Nat /\ Len(ops'[i]) \in Nat
      BY LenProperties DEF TypeOK
    <3>2. n = Len(ops[i]) + 1 /\ Len(ops'[i]) = Len(ops[i]) + 1
      BY <2>3, <3>1
    <3> QED
      BY <2>3, <3>2
  <2> QED
    BY <2>1, <2>2, <2>3
<1>3. pc'[chan[1]] = r
  BY HoldChannel
<1>4. CallerInv'
  <2> SUFFICES ASSUME NEW j \in Request, NEW n \in 1..Len(ops'[j]),
                      ops'[j][n].by \notin Plain \/ ops'[j][n].op = "start"
               PROVE  /\ ops'[j][n].by = chan[1]
                      /\ ops'[j][n].op = "start" =>
                           pc'[ops'[j][n].by] = "starting" /\ at'[ops'[j][n].by] = j
                      /\ ops'[j][n].by \in Ender =>
                           pc'[ops'[j][n].by] = "ending" /\ mapped' \in {j, None}
    BY DEF CallerInv, StreamAssumption, Plain
  <2>1. ops'[j][n].op = "start" => r = "starting" /\ at'[chan[1]] = i /\ j = i
    BY <1>2 DEF Stop
  <2>2. ops'[j][n].by = chan[1] /\ j = i
    BY <1>2 DEF Start, Stop
  <2>3. ops'[j][n].by \in Ender => r = "ending"
    <3>1. ops'[j][n] \in Op
      OBVIOUS
    <3>2. ops'[j][n].op = "start" => ops'[j][n].by \in Request
      BY <3>1, OpFields
    <3> QED
      BY <1>2, <3>2 DEF Start, StreamAssumption
  <2> QED
    BY <1>3, <2>1, <2>2, <2>3
<1>5. UniqueInv'
  BY <1>2 DEF UniqueInv
<1> QED
  BY <1>4, <1>5

\* getOrCreateSession makes a session and starts it.
LEMMA CreateStep ==
  ASSUME StreamAssumption, IInv, NEW q \in Request, chan # <<>>, q = chan[1], Create(q)
  PROVE  ChanInv' /\ FreshInv' /\ QueueInv' /\ SafeInv'
<1> USE DEF IInv, Create, SetState, Queue, SetPhase
<1>1. state[q] = "init" /\ ops[q] = <<>> /\ phase[q] = "queued" /\ ~timer[q]
  BY DEF FreshInv
<1>2. Start(q) \in Op /\ Start(q).op = "start"
  BY DEF Op, Start
<1>3. /\ ops' \in [Request -> Seq(Op)] /\ ops'[q] = Append(ops[q], Start(q))
      /\ \A j \in Request : j # q => ops'[j] = ops[j]
  BY <1>2 DEF TypeOK
<1>4. ops'[q] # <<>> /\ Len(ops'[q]) = 1 /\ Len(ops[q]) = 0 /\ ops'[q][1] = Start(q)
  BY <1>1, <1>2, <1>3
<1>5. /\ \A j \in Request : j # q => state'[j] = state[j] /\ phase'[j] = phase[j] /\ at'[j] = at[j]
      /\ state'[q] = "starting" /\ phase'[q] = "init" /\ at'[q] = q
  BY DEF TypeOK
<1>6. pc'[q] = "starting" /\ ChanInv'
  BY HoldChannel
<1>7. FreshInv'
  <2>1. \A c \in Request : c # q => pc'[c] = pc[c]
    BY DEF TypeOK
  <2> QED
    BY <1>3, <1>5, <1>6, <2>1 DEF FreshInv
<1>8. CallerInv' /\ UniqueInv'
  <2>1. pc[chan[1]] = "waiting" /\ chan' = chan /\ mapped' = q
    OBVIOUS
  <2>2. pc' = [pc EXCEPT ![chan[1]] = "starting"]
    OBVIOUS
  <2>3. Len(ops'[q]) = Len(ops[q]) + 1 /\ \A n \in 1..Len(ops[q]) : ops'[q][n] = ops[q][n]
    BY <1>4
  <2>4. ops'[q][Len(ops'[q])] = Start(chan[1]) /\ at'[chan[1]] = q
    BY <1>4, <1>5
  <2> HIDE DEF IInv, Create, SetState, Queue, SetPhase
  <2> QED
    BY <1>3, <1>4, <2>1, <2>2, <2>3, <2>4, EnterQueue
<1>9. PhaseInv'
  BY <1>2, <1>3, <1>4, <1>5 DEF QueueInv, PhaseInv
<1>10. EndsInv'
  BY <1>3 DEF QueueInv, EndsInv, StreamAssumption
<1>11. \A j \in Request : j # q => HasStop(j)' = HasStop(j)
  BY <1>3 DEF HasStop
<1>12. NoOrphan'
  BY <1>5, <1>11 DEF SafeInv, NoOrphan, StreamAssumption
<1>13. ErrorIsShutDown'
  BY <1>5, <1>11 DEF SafeInv, ErrorIsShutDown
<1> QED
  BY <1>6, <1>7, <1>8, <1>9, <1>10, <1>12, <1>13 DEF QueueInv, SafeInv

\* getOrCreateSession starts the session it found.
LEMMA AskStartStep ==
  ASSUME StreamAssumption, IInv, NEW q \in Request, chan # <<>>, q = chan[1], AskStart(q)
  PROVE  ChanInv' /\ FreshInv' /\ QueueInv' /\ SafeInv'
<1> USE DEF IInv, AskStart, Queue
<1> DEFINE i == mapped
<1>1. i \in Request /\ i # None /\ state[i] # "init" /\ ops[i] \in Seq(Op)
  BY DEF TypeOK, FreshInv
<1> HIDE DEF i
<1>2. Start(q) \in Op /\ Start(q).op = "start"
  BY DEF Op, Start
<1>3. /\ ops' \in [Request -> Seq(Op)] /\ ops'[i] = Append(ops[i], Start(q))
      /\ \A j \in Request : j # i => ops'[j] = ops[j]
  BY <1>1, <1>2 DEF TypeOK, i
<1>4. /\ ops'[i] # <<>> /\ Len(ops'[i]) = Len(ops[i]) + 1 /\ ops'[i][Len(ops'[i])] = Start(q)
      /\ \A n \in 1..Len(ops[i]) : ops'[i][n] = ops[i][n]
  BY <1>1, <1>2, <1>3
<1>5. at' = [at EXCEPT ![q] = i] /\ mapped' = i /\ mapped = i
  BY DEF i
<1>6. pc'[q] = "starting" /\ ChanInv'
  BY HoldChannel
<1>7. FreshInv'
  <2>1. \A c \in Request : c # q => pc'[c] = pc[c]
    BY DEF TypeOK
  <2>2. \A c \in Request : at'[c] = at[c] \/ at'[c] = i
    BY <1>5 DEF TypeOK
  <2>3. \A j \in Request : state[j] = "init" => j # i /\ ops'[j] = ops[j]
    BY <1>1, <1>3
  <2> QED
    BY <1>5, <1>6, <2>1, <2>2, <2>3 DEF FreshInv
<1>8. CallerInv' /\ UniqueInv'
  <2>1. at'[q] = i
    BY <1>5 DEF TypeOK
  <2> QED
    BY <1>1, <1>3, <1>4, <1>5, <2>1, EnterQueue
<1>9. PhaseInv'
  <2> SUFFICES ASSUME NEW j \in Request
               PROVE  /\ phase[j] # "queued" => ops'[j] # <<>>
                      /\ phase[j] \in {"init", "ready"} => ops'[j][1].op = "start"
                      /\ phase[j] = "clean" => ops'[j][1].op = "stop"
    BY DEF PhaseInv
  <2>1. CASE j # i
    BY <1>3, <2>1 DEF QueueInv, PhaseInv
  <2>2. CASE j = i
    <3>1. ops[i] # <<>> => ops'[i][1] = ops[i][1]
      BY <1>1, <1>4
    <3> QED
      BY <1>4, <2>2, <3>1 DEF QueueInv, PhaseInv, TypeOK
  <2> QED
    BY <2>1, <2>2
<1>10. EndsInv'
  BY <1>3, <1>5 DEF QueueInv, EndsInv
<1>11. \A j \in Request : HasStop(j) => HasStop(j)'
  <2> SUFFICES ASSUME NEW j \in Request, HasStop(j) PROVE HasStop(j)'
    OBVIOUS
  <2>1. PICK n \in 1..Len(ops[j]) : ops[j][n].op = "stop"
    BY DEF HasStop
  <2>2. n \in 1..Len(ops'[j]) /\ ops'[j][n] = ops[j][n]
    BY <1>1, <1>3, <1>4, <2>1
  <2> QED
    BY <2>1, <2>2 DEF HasStop
<1>12. SafeInv'
  BY <1>5, <1>11 DEF SafeInv, NoOrphan, ErrorIsShutDown
<1> QED
  BY <1>6, <1>7, <1>8, <1>9, <1>10, <1>12 DEF QueueInv

\* endSession stops the session it found.
LEMMA EndStep ==
  ASSUME StreamAssumption, IInv, NEW e \in Ender, chan # <<>>, e = chan[1], End(e)
  PROVE  ChanInv' /\ FreshInv' /\ QueueInv' /\ SafeInv'
<1> USE DEF IInv, End
<1>0. PICK i \in Request : i = mapped
  BY DEF TypeOK
<1>1. i \in Request /\ i # None /\ state[i] # "init" /\ ops[i] \in Seq(Op)
  BY <1>0 DEF TypeOK, FreshInv
<1>2. mapped = i /\ mapped' = i /\ CallStop(i, e)
  BY <1>0
<1>3. /\ ops' \in [Request -> Seq(Op)]
      /\ Extended(ops[i], ops'[i], e)
      /\ \A j \in Request : j # i => ops'[j] = ops[j]
      /\ timer' = [timer EXCEPT ![i] = FALSE]
  BY <1>1, <1>2, CallStopGrows DEF QueueInv, PhaseInv
<1>4. /\ ops'[i] # <<>> /\ ops'[i][Len(ops'[i])].op = "stop"
      /\ Len(ops'[i]) \in {Len(ops[i]), Len(ops[i]) + 1}
      /\ \A n \in 1..Len(ops[i]) : ops'[i][n] = ops[i][n]
      /\ Len(ops'[i]) = Len(ops[i]) + 1 => ops'[i][Len(ops'[i])] = Stop(e)
  BY <1>3 DEF Extended
<1>5. pc'[e] = "ending" /\ ChanInv'
  BY HoldChannel
<1>6. FreshInv'
  <2>1. \A c \in Request : pc'[c] = pc[c]
    BY DEF TypeOK, StreamAssumption
  <2>2. \A j \in Request : timer'[j] => timer[j]
    BY <1>3 DEF TypeOK
  <2> QED
    BY <1>1, <1>2, <1>3, <2>1, <2>2 DEF FreshInv
<1>7. CallerInv' /\ UniqueInv'
  BY <1>1, <1>2, <1>3, <1>4, EnterQueue
<1>8. PhaseInv'
  <2>1. ops[i] # <<>> => ops'[i][1] = ops[i][1]
    BY <1>1, <1>4
  <2> QED
    BY <1>3, <1>4, <2>1 DEF QueueInv, PhaseInv
<1>9. EndsInv'
  BY <1>2, <1>3 DEF QueueInv, EndsInv
<1>10. HasStop(i)'
  <2>1. Len(ops'[i]) \in 1..Len(ops'[i])
    BY <1>1, <1>3, <1>4
  <2> QED
    BY <1>4, <2>1 DEF HasStop
<1>11. \A j \in Request : j # i => HasStop(j)' = HasStop(j)
  BY <1>3 DEF HasStop
<1>12. SafeInv'
  BY <1>2, <1>10, <1>11 DEF SafeInv, NoOrphan, ErrorIsShutDown
<1> QED
  BY <1>5, <1>6, <1>7, <1>8, <1>9, <1>12 DEF QueueInv
----------------------------------------------------------------------------
(* Every step of the system preserves the invariant *)

\* The head of a session's queue, and who called it.
LEMMA HeadCall ==
  ASSUME StreamAssumption, IInv, NEW i \in Request, NEW op \in {"start", "stop"}, NEW p,
         AtHead(i, op, p)
  PROVE  /\ ops[i] # <<>> /\ ops[i][1].op = op /\ Caller(i) = ops[i][1].by
         /\ phase[i] = p /\ state[i] # "init"
         /\ op = "start" => Caller(i) \in Request /\ chan # <<>> /\ at[Caller(i)] = i
         /\ op = "stop" => Caller(i) \in Ender \cup Plain
         /\ Caller(i) \in Ender => chan # <<>>
<1>1. ops[i] # <<>> /\ Head(ops[i]) = ops[i][1] /\ 1 \in 1..Len(ops[i]) /\ ops[i][1] \in Op
  BY TailFacts DEF AtHead, IInv
<1>2. ops[i][1].op = op /\ Caller(i) = ops[i][1].by /\ phase[i] = p
  BY <1>1 DEF AtHead, Caller
<1>3. state[i] # "init"
  BY <1>1 DEF IInv, FreshInv
<1>4. op = "start" => ops[i][1].by \in Request
  BY <1>1, <1>2, OpFields
<1>5. op = "stop" => ops[i][1].by \in Ender \cup Plain
  BY <1>1, <1>2, OpFields
<1>6. ops[i][1].by \notin Plain => chan # <<>>
  BY <1>1 DEF IInv, QueueInv, CallerInv
<1>7. op = "start" => at[ops[i][1].by] = i
  BY <1>1, <1>2 DEF IInv, QueueInv, CallerInv
<1> QED
  BY <1>1, <1>2, <1>3, <1>4, <1>5, <1>6, <1>7 DEF StreamAssumption, Plain

\* The types of the channel lock when its holder leaves it.
LEMMA LeaveTypes ==
  ASSUME TypeOK, chan # <<>>, NEW c \in Request \cup Ender,
         NEW r \in {"watching", "failed", "done"}, Leave(c, r)
  PROVE  /\ chan' \in Seq(Request \cup Ender)
         /\ pc' \in [Request \cup Ender ->
              {"idle", "waiting", "starting", "watching", "away", "failed", "ending", "done"}]
  BY DEF TypeOK, Leave

\* The types of a session whose viewers grow.
LEMMA ConnectTypes ==
  ASSUME TypeOK, NEW i \in Request, NEW q \in Request, Connect(i, q)
  PROVE  /\ viewers' \in [Request -> SUBSET Request] /\ timer' \in [Request -> BOOLEAN]
         /\ \A j \in Request : timer'[j] => timer[j]
         /\ \A j \in Request : j # i => timer'[j] = timer[j]
  BY DEF TypeOK, Connect, NoTimer

\* A call queues for the channel lock, or acts as its holder.
LEMMA AskKeeps ==
  ASSUME StreamAssumption, IInv, NEW c \in Request \cup Ender, Ask(c)
  PROVE  IInv'
<1>1. TypeOK' /\ LoopInv'
  BY DEF IInv, Ask, TypeOK, LoopInv, sessionVars, loopVars
<1> QED
  BY <1>1, AskStep DEF IInv

\* The call at the head of the channel's queue takes its turn.
LEMMA ChannelKeeps ==
  ASSUME StreamAssumption, IInv, ChannelStep
  PROVE  IInv'
<1> DEFINE c == chan[1]
<1>1. chan # <<>> /\ Head(chan) = c /\ c \in Request \cup Ender
  BY DEF ChannelStep, IInv, TypeOK
<1>2. CASE c \in Request /\ Refuse(c)
  <2>1. TypeOK' /\ LoopInv'
    BY <1>1, <1>2, LeaveTypes DEF IInv, Refuse, TypeOK, LoopInv, sessionVars, loopVars
  <2>2. ChanInv' /\ FreshInv' /\ QueueInv' /\ SafeInv'
    BY <1>1, <1>2, PassStep DEF Refuse, Leave, sessionVars
  <2> QED
    BY <2>1, <2>2 DEF IInv
<1>3. CASE c \in Request /\ Create(c)
  <2>1. Start(c) \in Op
    BY <1>3 DEF Op
  <2>2. TypeOK'
    BY <1>3, <2>1 DEF IInv, Create, TypeOK, Live, SetState, SetPhase, Queue, loopVars
  <2>3. LoopInv'
    BY <1>3 DEF IInv, Create, TypeOK, LoopInv, loopVars
  <2> QED
    BY <1>1, <1>3, <2>2, <2>3, CreateStep DEF IInv
<1>4. CASE c \in Request /\ Join(c)
  <2>1. mapped \in Request
    BY <1>4 DEF IInv, TypeOK, Join
  <2>2. TypeOK' /\ LoopInv'
    BY <1>1, <1>4, <2>1, LeaveTypes, ConnectTypes DEF IInv, Join, TypeOK, LoopInv, loopVars
  <2>3. \A i \in Request : timer'[i] => timer[i]
    BY <1>4, <2>1, ConnectTypes DEF IInv, Join
  <2>4. ChanInv' /\ FreshInv' /\ QueueInv' /\ SafeInv'
    BY <1>1, <1>4, <2>3, PassStep DEF Join, Leave
  <2> QED
    BY <2>2, <2>4 DEF IInv
<1>5. CASE c \in Request /\ AskStart(c)
  <2>1. Start(c) \in Op /\ mapped \in Request
    BY <1>5 DEF Op, IInv, TypeOK, AskStart
  <2>2. TypeOK'
    BY <1>5, <2>1 DEF IInv, AskStart, TypeOK, Queue, loopVars
  <2>3. LoopInv'
    BY <1>5, <2>1 DEF IInv, AskStart, TypeOK, LoopInv, loopVars
  <2> QED
    BY <1>1, <1>5, <2>2, <2>3, AskStartStep DEF IInv
<1>6. CASE c \in Ender /\ EndNothing(c)
  <2>1. TypeOK' /\ LoopInv'
    BY <1>1, <1>6, LeaveTypes DEF IInv, EndNothing, TypeOK, LoopInv, sessionVars, loopVars
  <2>2. ChanInv' /\ FreshInv' /\ QueueInv' /\ SafeInv'
    BY <1>1, <1>6, PassStep DEF EndNothing, Leave, sessionVars
  <2> QED
    BY <2>1, <2>2 DEF IInv
<1>7. CASE c \in Ender /\ End(c)
  <2>1. mapped \in Request /\ c \in Ender \cup Plain
    BY <1>7 DEF IInv, TypeOK, End
  <2>2. ops' \in [Request -> Seq(Op)] /\ timer' = [timer EXCEPT ![mapped] = FALSE]
    BY <1>7, <2>1, CallStopGrows DEF IInv, End, QueueInv, PhaseInv
  <2>3. TypeOK' /\ LoopInv'
    BY <1>7, <2>2 DEF IInv, End, TypeOK, LoopInv, loopVars
  <2> QED
    BY <1>1, <1>7, <2>3, EndStep DEF IInv
<1> QED
  BY <1>1, <1>2, <1>3, <1>4, <1>5, <1>6, <1>7 DEF ChannelStep

\* A queue whose head has returned, with or without the stop() of an error.
LEMMA DropsHead ==
  ASSUME TypeOK, NEW i \in Request, ops[i] # <<>>
  PROVE  /\ Dequeue(i) => /\ ops' \in [Request -> Seq(Op)] /\ ops'[i] = Tail(ops[i])
                          /\ \A j \in Request : j # i => ops'[j] = ops[j]
         /\ ops' = [ops EXCEPT ![i] = Stopped(Tail(@), None)] =>
              /\ ops' \in [Request -> Seq(Op)] /\ Extended(Tail(ops[i]), ops'[i], None)
              /\ \A j \in Request : j # i => ops'[j] = ops[j]
<1>1. Tail(ops[i]) \in Seq(Op)
  BY TailFacts
<1>2. Extended(Tail(ops[i]), Stopped(Tail(ops[i]), None), None)
  BY <1>1, StoppedExtends DEF Plain
<1>3. Stopped(Tail(ops[i]), None) \in Seq(Op)
  BY <1>2 DEF Extended
<1> QED
  BY <1>1, <1>2, <1>3 DEF TypeOK, Dequeue

\* Session.start()
LEMMA StartKeeps ==
  ASSUME StreamAssumption, IInv, NEW i \in Request, StartStep(i)
  PROVE  IInv'
<1>1. TypeOK /\ LoopInv
  BY DEF IInv
<1>2. CASE StartWaits(i)
  <2>1. ops[i] # <<>> /\ ops[i][1].op = "start"
    BY <1>2, HeadCall DEF StartWaits
  <2>2. TypeOK' /\ LoopInv'
    BY <1>1, <1>2 DEF StartWaits, TypeOK, LoopInv, SetState, SetPhase, Live, lockVars, loopVars
  <2>3. ChanInv' /\ FreshInv' /\ QueueInv' /\ SafeInv'
    BY <1>2, <2>1, PhaseStep DEF StartWaits, SetState, SetPhase
  <2> QED
    BY <2>2, <2>3 DEF IInv
<1>3. CASE StartReturns(i)
  <2>1. /\ ops[i] # <<>> /\ ops[i][1].op = "start" /\ Caller(i) = ops[i][1].by
        /\ phase[i] = "queued" /\ Caller(i) \in Request /\ chan # <<>>
    BY <1>3, HeadCall DEF StartReturns
  <2>2. /\ ops' \in [Request -> Seq(Op)] /\ ops'[i] = Tail(ops[i])
        /\ \A j \in Request : j # i => ops'[j] = ops[j]
    BY <1>1, <1>3, <2>1, DropsHead DEF StartReturns
  <2>3. PICK r \in {"watching", "failed"} : Leave(Caller(i), r)
    BY <1>3 DEF StartReturns
  <2>4. /\ viewers' \in [Request -> SUBSET Request] /\ timer' \in [Request -> BOOLEAN]
        /\ \A j \in Request : j # i => timer'[j] = timer[j]
    <3>1. CASE Connect(i, Caller(i))
      BY <1>1, <2>1, <3>1, ConnectTypes
    <3>2. CASE UNCHANGED <<timer, viewers>>
      BY <1>1, <3>2 DEF TypeOK
    <3> QED
      BY <1>3, <3>1, <3>2 DEF StartReturns
  <2>5. TypeOK' /\ LoopInv'
    BY <1>1, <1>3, <2>1, <2>2, <2>3, <2>4, LeaveTypes DEF StartReturns, TypeOK, LoopInv, loopVars
  <2>6. state[i] \in Live /\ state' = [state EXCEPT ![i] = state[i]]
        /\ phase' = [phase EXCEPT ![i] = "queued"]
    BY <1>1, <1>3, <2>1 DEF StartReturns, TypeOK, Live
  <2>7. chan' = Tail(chan) /\ pc' = [pc EXCEPT ![ops[i][1].by] = r] /\ UNCHANGED <<mapped, at>>
    BY <1>3, <2>1, <2>3 DEF StartReturns, Leave
  <2>8. ChanInv' /\ FreshInv' /\ QueueInv' /\ SafeInv'
    BY <2>1, <2>2, <2>4, <2>6, <2>7, StartFinishes
  <2> QED
    BY <2>5, <2>8 DEF IInv
<1>4. CASE InitDone(i)
  <2>1. ops[i] # <<>> /\ ops[i][1].op = "start" /\ Caller(i) \in Request /\ at[Caller(i)] = i
    BY <1>4, HeadCall DEF InitDone
  <2>2. TypeOK'
    BY <1>1, <1>4 DEF InitDone, TypeOK, SetState, SetPhase, Live, lockVars
  <2>3. LoopInv'
    BY <1>1, <1>4, <2>1 DEF InitDone, TypeOK, LoopInv, lockVars
  <2>4. ChanInv' /\ FreshInv' /\ QueueInv' /\ SafeInv'
    BY <1>4, <2>1, PhaseStep DEF InitDone, SetState, SetPhase
  <2> QED
    BY <2>2, <2>3, <2>4 DEF IInv
<1>5. CASE InitFails(i)
  <2>1. /\ ops[i] # <<>> /\ ops[i][1].op = "start" /\ Caller(i) = ops[i][1].by
        /\ Caller(i) \in Request /\ chan # <<>>
    BY <1>5, HeadCall DEF InitFails
  <2>2. /\ ops' \in [Request -> Seq(Op)] /\ Extended(Tail(ops[i]), ops'[i], None)
        /\ \A j \in Request : j # i => ops'[j] = ops[j]
    BY <1>1, <1>5, <2>1, DropsHead DEF InitFails
  <2>3. TypeOK' /\ LoopInv'
    BY <1>1, <1>5, <2>1, <2>2, LeaveTypes
    DEF InitFails, TypeOK, LoopInv, SetState, SetPhase, NoTimer, Live, loopVars
  <2>4. \A j \in Request : j # i => timer'[j] = timer[j]
    BY <1>1, <1>5 DEF InitFails, NoTimer, TypeOK
  <2>5. ChanInv' /\ FreshInv' /\ QueueInv' /\ SafeInv'
    BY <1>5, <2>1, <2>2, <2>4, StartFinishes DEF InitFails, Leave, SetState, SetPhase, Live
  <2> QED
    BY <2>3, <2>5 DEF IInv
<1>6. CASE Ready(i)
  <2>1. /\ ops[i] # <<>> /\ ops[i][1].op = "start" /\ Caller(i) = ops[i][1].by
        /\ Caller(i) \in Request /\ chan # <<>>
    BY <1>6, HeadCall DEF Ready
  <2>2. /\ ops' \in [Request -> Seq(Op)] /\ ops'[i] = Tail(ops[i])
        /\ \A j \in Request : j # i => ops'[j] = ops[j]
    BY <1>1, <1>6, <2>1, DropsHead DEF Ready
  <2>3. TypeOK' /\ LoopInv'
    BY <1>1, <1>6, <2>1, <2>2, LeaveTypes, ConnectTypes
    DEF Ready, TypeOK, LoopInv, SetState, SetPhase, Live, loopVars
  <2>4. \A j \in Request : j # i => timer'[j] = timer[j]
    BY <1>1, <1>6, <2>1, ConnectTypes DEF Ready
  <2>5. ChanInv' /\ FreshInv' /\ QueueInv' /\ SafeInv'
    BY <1>6, <2>1, <2>2, <2>4, StartFinishes DEF Ready, Leave, SetState, SetPhase, Live
  <2> QED
    BY <2>3, <2>5 DEF IInv
<1>7. CASE NotReady(i)
  <2>1. /\ ops[i] # <<>> /\ ops[i][1].op = "start" /\ Caller(i) = ops[i][1].by
        /\ Caller(i) \in Request /\ chan # <<>>
    BY <1>7, HeadCall DEF NotReady
  <2>2. /\ ops' \in [Request -> Seq(Op)] /\ Extended(Tail(ops[i]), ops'[i], None)
        /\ \A j \in Request : j # i => ops'[j] = ops[j]
    BY <1>1, <1>7, <2>1, DropsHead DEF NotReady
  <2>3. TypeOK' /\ LoopInv'
    BY <1>1, <1>7, <2>1, <2>2, LeaveTypes, ConnectTypes
    DEF NotReady, TypeOK, LoopInv, SetState, SetPhase, Live, loopVars
  <2>4. \A j \in Request : j # i => timer'[j] = timer[j]
    BY <1>1, <1>7, <2>1, ConnectTypes DEF NotReady
  <2>5. ChanInv' /\ FreshInv' /\ QueueInv' /\ SafeInv'
    BY <1>7, <2>1, <2>2, <2>4, StartFinishes DEF NotReady, Leave, SetState, SetPhase, Live
  <2> QED
    BY <2>3, <2>5 DEF IInv
<1> QED
  BY <1>2, <1>3, <1>4, <1>5, <1>6, <1>7 DEF StartStep

\* What follows a stop(), once the session is "stopped" and its lock free.
LEMMA ReturnKeeps ==
  ASSUME StreamAssumption, IInv, NEW i \in Request, NEW p, AtHead(i, "stop", p), AfterStop(i),
         state' = [state EXCEPT ![i] = "stopped"], phase' = [phase EXCEPT ![i] = "queued"],
         UNCHANGED <<viewers, loopVars>>
  PROVE  IInv'
<1>1. TypeOK /\ LoopInv
  BY DEF IInv
<1>2. ops[i] # <<>> /\ Caller(i) = ops[i][1].by /\ (Caller(i) \in Ender => chan # <<>>)
  BY HeadCall
<1>3. CASE Caller(i) \in Plain /\ Dequeue(i) /\ UNCHANGED <<timer, lockVars>>
  <2>1. /\ ops' \in [Request -> Seq(Op)] /\ ops'[i] = Tail(ops[i])
        /\ \A j \in Request : j # i => ops'[j] = ops[j]
    BY <1>1, <1>2, <1>3, DropsHead
  <2>2. TypeOK' /\ LoopInv'
    BY <1>1, <1>3, <2>1 DEF TypeOK, LoopInv, lockVars, loopVars
  <2>3. ChanInv' /\ FreshInv' /\ QueueInv' /\ SafeInv'
    BY <1>2, <1>3, <2>1, PlainStopFinishes DEF lockVars
  <2> QED
    BY <2>2, <2>3 DEF IInv
<1>4. CASE /\ Caller(i) = Idle /\ mapped = i
           /\ ops' = [ops EXCEPT ![i] = Stopped(Tail(@), None)]
           /\ NoTimer(i) /\ mapped' = None /\ UNCHANGED <<chan, pc, at>>
  <2>1. /\ ops' \in [Request -> Seq(Op)] /\ Extended(Tail(ops[i]), ops'[i], None)
        /\ \A j \in Request : j # i => ops'[j] = ops[j]
    BY <1>1, <1>2, <1>4, DropsHead
  <2>2. TypeOK' /\ LoopInv'
    BY <1>1, <1>4, <2>1 DEF TypeOK, LoopInv, NoTimer, loopVars
  <2>3. \A j \in Request : j # i => timer'[j] = timer[j]
    BY <1>1, <1>4 DEF NoTimer, TypeOK
  <2>4. ChanInv' /\ FreshInv' /\ QueueInv' /\ SafeInv'
    BY <1>2, <1>4, <2>1, <2>3, PlainStopFinishes
  <2> QED
    BY <2>2, <2>4 DEF IInv
<1>5. CASE /\ Caller(i) \in Ender /\ Dequeue(i) /\ mapped' = None
           /\ Leave(Caller(i), "done") /\ UNCHANGED <<timer, at>>
  <2>1. ops' \in [Request -> Seq(Op)] /\ ops' = [ops EXCEPT ![i] = Tail(ops[i])]
    BY <1>1, <1>2, <1>5, DropsHead DEF Dequeue
  <2>2. TypeOK' /\ LoopInv'
    BY <1>1, <1>2, <1>5, <2>1, LeaveTypes DEF TypeOK, LoopInv, loopVars
  <2>3. ChanInv' /\ FreshInv' /\ QueueInv' /\ SafeInv'
    BY <1>2, <1>5, <2>1, EndFinishes DEF Leave
  <2> QED
    BY <2>2, <2>3 DEF IInv
<1> QED
  BY <1>3, <1>4, <1>5 DEF AfterStop, Plain

\* Session.stop()
LEMMA StopKeeps ==
  ASSUME StreamAssumption, IInv, NEW i \in Request, StopStep(i)
  PROVE  IInv'
<1>1. TypeOK /\ LoopInv
  BY DEF IInv
<1>2. CASE StopWaits(i)
  <2>1. ops[i] # <<>> /\ ops[i][1].op = "stop"
    BY <1>2, HeadCall DEF StopWaits
  <2>2. TypeOK' /\ LoopInv'
    BY <1>1, <1>2 DEF StopWaits, TypeOK, LoopInv, SetPhase, Current, lockVars
  <2>3. ChanInv' /\ FreshInv' /\ QueueInv' /\ SafeInv'
    BY <1>2, <2>1, PhaseStep DEF StopWaits, SetPhase
  <2> QED
    BY <2>2, <2>3 DEF IInv
<1>3. CASE StopReturns(i)
  <2>1. AtHead(i, "stop", "queued") /\ state[i] # "init" /\ phase[i] = "queued"
    BY <1>3, HeadCall DEF StopReturns
  <2>2. state[i] = "stopped"
    BY <1>1, <1>3, <2>1 DEF StopReturns, TypeOK, Live
  <2>3. state' = [state EXCEPT ![i] = "stopped"] /\ phase' = [phase EXCEPT ![i] = "queued"]
    BY <1>1, <1>3, <2>1, <2>2 DEF StopReturns, TypeOK
  <2> QED
    BY <1>3, <2>1, <2>3, ReturnKeeps DEF StopReturns
<1>4. CASE CleanDone(i)
  BY <1>4, ReturnKeeps DEF CleanDone, SetState, SetPhase
<1> QED
  BY <1>2, <1>3, <1>4 DEF StopStep

\* A stop() that nobody in the channel lock awaits keeps the invariant.
LEMMA CallStopKeeps ==
  ASSUME StreamAssumption, IInv, NEW i \in Request, NEW by \in Plain, state[i] # "init",
         CallStop(i, by), state' \in {state, [state EXCEPT ![i] = "error"]},
         viewers' \in [Request -> SUBSET Request],
         loop' \in [Request -> {"none", "idle", "play", "stray", "ended"}],
         screen' \in [Request -> BOOLEAN],
         \A q \in Request : loop'[q] # "none" \/ screen'[q] => loop[q] # "none" \/ screen[q],
         UNCHANGED <<phase, lockVars>>
  PROVE  IInv'
<1>1. TypeOK /\ LoopInv
  BY DEF IInv
<1>2. /\ ops' \in [Request -> Seq(Op)] /\ Extended(ops[i], ops'[i], by)
      /\ \A j \in Request : j # i => ops'[j] = ops[j]
      /\ timer' = [timer EXCEPT ![i] = FALSE]
  BY <1>1, CallStopGrows DEF IInv, QueueInv, PhaseInv
<1>3. TypeOK'
  BY <1>1, <1>2 DEF TypeOK, lockVars, Live
<1>4. LoopInv'
  BY <1>1 DEF LoopInv, lockVars
<1>5. \A j \in Request : j # i => timer'[j] = timer[j]
  BY <1>1, <1>2 DEF TypeOK
<1>6. ChanInv' /\ FreshInv' /\ QueueInv' /\ SafeInv'
  BY <1>2, <1>5, GrowStep
<1> QED
  BY <1>3, <1>4, <1>6 DEF IInv

\* Neither a queue nor a state nor the map changes.
LEMMA QuietKeeps ==
  ASSUME StreamAssumption, IInv,
         UNCHANGED <<state, ops, phase, mapped, chan, at>>,
         viewers' \in [Request -> SUBSET Request], timer' \in [Request -> BOOLEAN],
         pc' = pc \/ (\E q \in Request : /\ {pc[q], pc'[q]} \subseteq {"watching", "away"}
                                         /\ pc' = [pc EXCEPT ![q] = pc'[q]]),
         loop' \in [Request -> {"none", "idle", "play", "stray", "ended"}],
         screen' \in [Request -> BOOLEAN],
         \A q \in Request : loop'[q] # "none" \/ screen'[q] => loop[q] # "none" \/ screen[q],
         \A i \in Request : timer'[i] => timer[i] \/ state[i] # "init"
  PROVE  IInv'
<1>1. TypeOK /\ LoopInv
  BY DEF IInv
<1>2. TypeOK' /\ LoopInv'
  <2>1. pc' \in [Request \cup Ender ->
          {"idle", "waiting", "starting", "watching", "away", "failed", "ending", "done"}]
    <3>1. CASE pc' = pc
      BY <1>1, <3>1 DEF TypeOK
    <3>2. CASE \E q \in Request : /\ {pc[q], pc'[q]} \subseteq {"watching", "away"}
                                  /\ pc' = [pc EXCEPT ![q] = pc'[q]]
      <4>1. PICK q \in Request : /\ {pc[q], pc'[q]} \subseteq {"watching", "away"}
                                 /\ pc' = [pc EXCEPT ![q] = pc'[q]]
        BY <3>2
      <4>2. PICK v \in {"watching", "away"} : v = pc'[q]
        BY <4>1
      <4>3. pc' = [pc EXCEPT ![q] = v]
        BY <4>1, <4>2
      <4> QED
        BY <1>1, <4>3 DEF TypeOK
    <3> QED
      BY <3>1, <3>2
  <2>2. TypeOK'
    BY <1>1, <2>1 DEF TypeOK
  <2>3. LoopInv'
    BY <1>1 DEF LoopInv
  <2> QED
    BY <2>2, <2>3
<1>3. \A c \in Request \cup Ender :
        pc'[c] = pc[c] \/ {pc[c], pc'[c]} \subseteq {"watching", "away"}
  BY <1>1 DEF TypeOK
<1> QED
  BY <1>2, <1>3, QuietStep DEF IInv

\* A loop belongs to a session that exists.
LEMMA LoopSession ==
  ASSUME IInv, NEW q \in Request, loop[q] # "none" \/ screen[q]
  PROVE  at[q] \in Request /\ state[at[q]] # "init"
BY DEF IInv, LoopInv, FreshInv

\* HlsSession.run() and its transcodes.
LEMMA LoopKeeps ==
  ASSUME StreamAssumption, IInv, NEW q \in Request, LoopStep(q)
  PROVE  IInv'
<1>1. TypeOK /\ LoopInv
  BY DEF IInv
<1>2. CASE LoopTurns(q)
  <2> DEFINE i == at[q]
  <2>1. loop[q] # "none" /\ i \in Request /\ state[i] # "init"
    BY <1>2, LoopSession DEF LoopTurns
  <2>2. PICK l \in {"none", "idle"} : loop' = [loop EXCEPT ![q] = l]
    BY <1>2 DEF LoopTurns, Goto
  <2>3. /\ loop' \in [Request -> {"none", "idle", "play", "stray", "ended"}]
        /\ \A r \in Request : loop'[r] # "none" => loop[r] # "none"
    BY <1>1, <2>1, <2>2 DEF TypeOK
  <2>4. UNCHANGED <<state, viewers, phase, lockVars, screen>>
    BY <1>2 DEF LoopTurns
  <2>5. CASE CallStop(i, None)
    BY <1>1, <2>1, <2>3, <2>4, <2>5, CallStopKeeps DEF TypeOK, Plain
  <2>6. CASE timer' \in {timer, [timer EXCEPT ![i] = TRUE]} /\ UNCHANGED ops
    BY <1>1, <2>1, <2>3, <2>4, <2>6, QuietKeeps DEF TypeOK, lockVars
  <2> QED
    BY <1>2, <2>5, <2>6 DEF LoopTurns, ScheduleCleanup
<1>3. CASE LoopDies(q)
  BY <1>1, <1>3, QuietKeeps DEF LoopDies, Goto, TypeOK, sessionVars, lockVars
<1>4. CASE SessionError(q)
  <2>1. at[q] \in Request /\ state[at[q]] # "init"
    BY <1>4, LoopSession DEF SessionError, LoseTranscode
  <2>2. /\ loop' \in [Request -> {"none", "idle", "play", "stray", "ended"}]
        /\ screen' \in [Request -> BOOLEAN]
        /\ \A r \in Request : loop'[r] # "none" \/ screen'[r] => loop[r] # "none" \/ screen[r]
    <3>1. CASE loop[q] = "idle" /\ Goto(q, "none") /\ UNCHANGED screen
      BY <1>1, <3>1 DEF Goto, TypeOK
    <3>2. CASE screen[q] /\ NoScreen(q) /\ UNCHANGED loop
      BY <1>1, <3>2 DEF NoScreen, TypeOK
    <3> QED
      BY <1>4, <3>1, <3>2 DEF SessionError, LoseTranscode
  <2> QED
    BY <1>1, <1>4, <2>1, <2>2, CallStopKeeps DEF SessionError, SetState, TypeOK, Plain
<1>5. CASE TranscodeStarts(q)
  BY <1>1, <1>5, QuietKeeps DEF TranscodeStarts, Current, TypeOK, sessionVars, lockVars
<1>6. CASE TranscodeBreaks(q)
  BY <1>1, <1>6, QuietKeeps DEF TranscodeBreaks, Goto, TypeOK, sessionVars, lockVars
<1>7. CASE ScreenEnds(q)
  BY <1>1, <1>7, QuietKeeps DEF ScreenEnds, NoScreen, TypeOK, sessionVars, lockVars
<1> QED
  BY <1>2, <1>3, <1>4, <1>5, <1>6, <1>7 DEF LoopStep

\* Viewers come and go.
LEMMA ViewerKeeps ==
  ASSUME StreamAssumption, IInv, NEW q \in Request, ViewerStep(q)
  PROVE  IInv'
<1>1. TypeOK
  BY DEF IInv
<1>2. CASE GoAway(q)
  <2>1. pc'[q] = "away" /\ pc[q] = "watching" /\ pc' = [pc EXCEPT ![q] = pc'[q]]
    BY <1>1, <1>2 DEF GoAway, TypeOK
  <2> QED
    BY <1>1, <1>2, <2>1, QuietKeeps DEF GoAway, TypeOK, sessionVars, loopVars
<1>3. CASE RequestSegment(q)
  <2>1. /\ pc'[q] = "watching" /\ pc[q] \in {"watching", "away"}
        /\ pc' = [pc EXCEPT ![q] = pc'[q]] /\ mapped \in Request
    BY <1>1, <1>3 DEF RequestSegment, TypeOK
  <2>2. /\ viewers' \in [Request -> SUBSET Request] /\ timer' \in [Request -> BOOLEAN]
        /\ \A j \in Request : timer'[j] => timer[j]
    <3>1. CASE UNCHANGED <<timer, viewers>>
      BY <1>1, <3>1 DEF TypeOK
    <3>2. CASE Connect(mapped, q)
      BY <1>1, <2>1, <3>2, ConnectTypes
    <3> QED
      BY <1>3, <3>1, <3>2 DEF RequestSegment
  <2> QED
    BY <1>1, <1>3, <2>1, <2>2, QuietKeeps DEF RequestSegment, TypeOK, loopVars
<1> QED
  BY <1>2, <1>3 DEF ViewerStep

\* The task that looks for sessions without viewers, and the idle timer.
LEMMA CleanupKeeps ==
  ASSUME StreamAssumption, IInv, CleanupTask
  PROVE  IInv'
<1>1. TypeOK
  BY DEF IInv
<1>2. PICK i \in Request : i = mapped
  BY <1>1 DEF CleanupTask, TypeOK
<1>3. state[i] # "init"
  BY <1>2 DEF IInv, FreshInv
<1>4. viewers' \in [Request -> SUBSET Request]
  BY <1>1, <1>2 DEF CleanupTask, TypeOK, Present
<1>5. UNCHANGED <<state, phase, lockVars, loopVars>>
  BY DEF CleanupTask
<1>6. CASE CallStop(i, None)
  BY <1>1, <1>3, <1>4, <1>5, <1>6, CallStopKeeps DEF TypeOK, Plain, loopVars
<1>7. CASE timer' \in {timer, [timer EXCEPT ![i] = TRUE]} /\ UNCHANGED ops
  BY <1>1, <1>3, <1>4, <1>5, <1>7, QuietKeeps DEF TypeOK, lockVars, loopVars
<1> QED
  BY <1>2, <1>6, <1>7 DEF CleanupTask, ScheduleCleanup

\* The idle timer of a session fires.
LEMMA TimerKeeps ==
  ASSUME StreamAssumption, IInv, NEW i \in Request, TimerFires(i)
  PROVE  IInv'
<1>1. TypeOK
  BY DEF IInv
<1>2. state[i] # "init"
  BY DEF TimerFires, IInv, FreshInv
<1>3. UNCHANGED <<state, viewers, phase, lockVars, loopVars>>
  BY DEF TimerFires
<1>4. CASE CallStop(i, Idle)
  BY <1>1, <1>2, <1>3, <1>4, CallStopKeeps DEF TypeOK, Plain, loopVars
<1>5. CASE NoTimer(i) /\ UNCHANGED ops
  BY <1>1, <1>3, <1>5, QuietKeeps DEF TypeOK, NoTimer, lockVars, loopVars
<1> QED
  BY <1>4, <1>5 DEF TimerFires

\* IInv is inductive.
LEMMA NextIInv ==
  ASSUME StreamAssumption, IInv, [Next]_vars
  PROVE  IInv'
<1>1. CASE \E c \in Request \cup Ender : Ask(c)
  BY <1>1, AskKeeps
<1>2. CASE ChannelStep
  BY <1>2, ChannelKeeps
<1>3. CASE \E q \in Request : LoopStep(q) \/ ViewerStep(q)
  BY <1>3, LoopKeeps, ViewerKeeps
<1>4. CASE \E i \in Request : LockStep(i) \/ TimerFires(i)
  BY <1>4, StartKeeps, StopKeeps, TimerKeeps DEF LockStep
<1>5. CASE CleanupTask
  BY <1>5, CleanupKeeps
<1>6. CASE UNCHANGED vars
  BY <1>6, QuietKeeps DEF vars, sessionVars, lockVars, loopVars, IInv, TypeOK
<1> QED
  BY <1>1, <1>2, <1>3, <1>4, <1>5, <1>6 DEF Next
----------------------------------------------------------------------------
(* Theorems *)

\* The inductive invariant holds in every state of every behaviour of the
\* sessions of a channel, for any number of requests and enders.
THEOREM Invariance == Spec => []IInv
<1>1. Init => IInv
  BY StreamAssumption, InitIInv
<1>2. IInv /\ [Next]_vars => IInv'
  BY StreamAssumption, NextIInv
<1> QED
  BY <1>1, <1>2, PTL DEF Spec

\* Every variable keeps its type; in particular the queues of both locks hold
\* nothing but calls of start() and stop(), and of the channel's callers.
THEOREM TypeCorrect == Spec => []TypeOK
<1>1. IInv => TypeOK
  BY DEF IInv
<1> QED
  BY <1>1, Invariance, PTL

\* A session that starts, runs or is broken is in SessionManager's map, or its
\* stop() is queued: no interleaving of getOrCreateSession, endSession, the
\* cleanup event and the error handler leaves one that nobody ends.
THEOREM NoSessionIsOrphaned == Spec => []NoOrphan
<1>1. IInv => NoOrphan
  BY DEF IInv, SafeInv
<1> QED
  BY <1>1, Invariance, PTL

\* Whoever sets the state "error", the stop() of the error handler is queued.
THEOREM ErrorsAreShutDown == Spec => []ErrorIsShutDown
<1>1. IInv => ErrorIsShutDown
  BY DEF IInv, SafeInv
<1> QED
  BY <1>1, Invariance, PTL

\* A session is only taken off the map while its own lock is held by its cleanup
\* event or by an endSession that asked for this very session.
LEMMA LeavingStep ==
  ASSUME StreamAssumption, IInv, [Next]_vars,
         NEW i \in Request, mapped = i, mapped' # i
  PROVE  ops[i] # <<>> /\ Head(ops[i]).op = "stop" /\ Head(ops[i]).by # None
<1>1. i # None
  BY DEF StreamAssumption
<1>2. PICK j \in Request : StopStep(j)
  <2>1. CASE \E c \in Request \cup Ender : Ask(c)
    BY <2>1 DEF Ask
  <2>2. CASE ChannelStep
    BY <1>1, <2>2 DEF ChannelStep, Refuse, Create, Join, AskStart, EndNothing, End
  <2>3. CASE \E q \in Request : LoopStep(q) \/ ViewerStep(q)
    BY <2>3 DEF LoopStep, ViewerStep, LoopTurns, LoopDies, SessionError, TranscodeStarts,
      TranscodeBreaks, ScreenEnds, GoAway, RequestSegment, lockVars
  <2>4. CASE \E k \in Request : StartStep(k) \/ TimerFires(k)
    BY <2>4 DEF StartStep, TimerFires, StartWaits, StartReturns, InitDone, InitFails,
      Ready, NotReady, lockVars
  <2>5. CASE CleanupTask \/ UNCHANGED vars
    BY <2>5 DEF CleanupTask, vars, lockVars
  <2> QED
    BY <2>1, <2>2, <2>3, <2>4, <2>5 DEF Next, LockStep
<1>3. AtHead(j, "stop", phase[j]) /\ AfterStop(j)
  BY <1>2 DEF StopStep, StopWaits, StopReturns, CleanDone, AtHead, lockVars
<1>4. CASE Caller(j) = Idle /\ mapped = j
  BY <1>3, <1>4 DEF AtHead, Caller, StreamAssumption
<1>5. CASE Caller(j) \in Ender
  <2>1. ops[j] # <<>> /\ Caller(j) = ops[j][1].by /\ 1 \in 1..Len(ops[j])
    BY <1>3, HeadCall, TailFacts DEF IInv
  <2>2. mapped \in {j, None}
    BY <1>5, <2>1 DEF IInv, QueueInv, CallerInv
  <2> QED
    BY <1>1, <1>3, <1>5, <2>2 DEF AtHead, Caller, StreamAssumption
<1> QED
  BY <1>3, <1>4, <1>5 DEF AfterStop, lockVars

\* A late timer or a late endSession of a session never removes the session that
\* has replaced it in the map.
THEOREM SessionsLeaveByOwnStop == Spec => LeavesByOwnStop
<1> DEFINE Own == \A i \in Request : mapped = i /\ mapped' # i =>
             /\ ops[i] # <<>>
             /\ Head(ops[i]).op = "stop" /\ Head(ops[i]).by # None
<1>1. IInv /\ [Next]_vars => [Own]_vars
  BY StreamAssumption, LeavingStep
<1> QED
  BY <1>1, Invariance, PTL DEF Spec, LeavesByOwnStop
=============================================================================
