-------------------------- MODULE EventStreamProofs --------------------------
(***************************************************************************)
(* The streams of one API, proved for any number of tabs, of events, of    *)
(* ticks, of lost messages and broken links, and for any limits.  First    *)
(* the user's: no tab goes past an event its handlers were not given, and  *)
(* one stream never goes back.  Then that of one video: its ticks stay in  *)
(* their order, and the latest tick and the end of a broadcast are not     *)
(* lost to a slow reader.  The lemmas go from numbers and sequences, over  *)
(* what writing to a connection does, to what each step leaves true; the   *)
(* last theorems are about the streams as MCEventStreams puts them side by *)
(* side.                                                                   *)
(***************************************************************************)
EXTENDS MCEventStreams, SequenceTheorems, FiniteSetTheorems,
        WellFoundedInduction, TLAPS

-----------------------------------------------------------------------------
(* A set of numbers that is not empty has a least one.                     *)
LEMMA LeastNumber ==
  ASSUME NEW T, T \subseteq Nat, T # {}
  PROVE  \E n \in T : \A m \in T : n <= m
<1> DEFINE R == {ss \in Nat \X Nat : ss[1] < ss[2]}
<1>1. IsWellFoundedOn(R, Nat)
  BY NatLessThanWellFounded DEF OpToRel
<1>2. \A m, n \in Nat : m < n => <<m, n>> \in R
  OBVIOUS
<1> HIDE DEF R
<1>3. PICK n \in T : \A m \in T : ~ (<<m, n>> \in R)
  BY <1>1, WFMin
<1>4. ASSUME NEW m \in T PROVE n <= m
  <2>1. ~ (m < n)
    BY <1>2, <1>3
  <2> QED
    BY <2>1
<1> QED
  BY <1>4

(* A set of numbers that has 0 and, with each number up to n, the next one *)
(* has them all.                                                           *)
LEMMA UpTo ==
  ASSUME NEW n \in Nat, NEW S, 0 \in S, \A i \in 1..n : i - 1 \in S => i \in S
  PROVE  \A i \in 0..n : i \in S
<1> DEFINE T == {i \in 0..n : i \notin S}
<1>1. SUFFICES ASSUME T # {} PROVE FALSE
  OBVIOUS
<1>2. T \subseteq Nat
  OBVIOUS
<1>3. PICK m \in T : \A k \in T : m <= k
  <2> HIDE DEF T
  <2> QED
    BY <1>1, <1>2, LeastNumber
<1>4. m \in 0..n /\ m \notin S /\ m # 0
  BY <1>3
<1>5. m - 1 \in 0..n /\ m - 1 \notin T
  <2>1. m - 1 \in 0..n
    BY <1>4
  <2> HIDE DEF T
  <2>2. ~ (m <= m - 1)
    BY <1>4
  <2> QED
    BY <1>3, <2>1, <2>2
<1> QED
  BY <1>4, <1>5

(* h runs from base through n steps.                                       *)
IsTrace(h, D, base, n, step) ==
  h \in [0..n -> D] /\ h[0] = base /\ \A i \in 1..n : h[i] = step[h[i - 1]][i]

(* Such a run exists, whatever the steps.                                  *)
LEMMA Trace ==
  ASSUME NEW D, NEW base \in D, NEW n \in Nat, NEW step \in [D -> [1..n -> D]]
  PROVE  \E h : IsTrace(h, D, base, n, step)
<1> DEFINE Runs(m) == \E h \in [0..m -> D] : h[0] = base /\ \A i \in 1..m : h[i] = step[h[i - 1]][i]
           S == {m \in 0..n : Runs(m)}
<1>1. 0 \in S
  <2> DEFINE h == [i \in 0..0 |-> base]
  <2>1. h \in [0..0 -> D] /\ h[0] = base /\ \A i \in 1..0 : h[i] = step[h[i - 1]][i]
    OBVIOUS
  <2> HIDE DEF h
  <2>2. Runs(0)
    BY <2>1
  <2> QED
    BY <2>2
<1>2. ASSUME NEW m \in 1..n, m - 1 \in S PROVE m \in S
  <2>1. PICK g \in [0..m - 1 -> D] : g[0] = base /\ \A i \in 1..m - 1 : g[i] = step[g[i - 1]][i]
    BY <1>2
  <2> DEFINE h == [i \in 0..m |-> IF i = m THEN step[g[m - 1]][m] ELSE g[i]]
  <2>2. step[g[m - 1]][m] \in D
    BY <2>1
  <2>3. h \in [0..m -> D] /\ h[0] = base
    BY <2>1, <2>2
  <2>4. ASSUME NEW i \in 1..m PROVE h[i] = step[h[i - 1]][i]
    <3>1. CASE i = m
      BY <3>1
    <3>2. CASE i # m
      <4>1. i \in 1..m - 1 /\ h[i] = g[i] /\ h[i - 1] = g[i - 1]
        BY <3>2
      <4> QED
        BY <2>1, <4>1
    <3> QED
      BY <3>1, <3>2
  <2> HIDE DEF h
  <2>5. Runs(m)
    BY <2>3, <2>4
  <2> HIDE DEF Runs
  <2> QED
    BY <2>5
<1> HIDE DEF S
<1>3. \A m \in 1..n : m - 1 \in S => m \in S
  BY <1>2
<1>4. \A m \in 0..n : m \in S
  BY <1>1, <1>3, UpTo, Zenon
<1>5. n \in 0..n
  OBVIOUS
<1> QED
  BY <1>4, <1>5 DEF S, IsTrace

(* Two halves of a sequence.                                               *)
LEMMA Halves ==
  ASSUME NEW T, NEW q \in Seq(T), NEW n \in 0..Len(q)
  PROVE  q = SubSeq(q, 1, n) \o SubSeq(q, n + 1, Len(q))
<1> DEFINE s == SubSeq(q, 1, n)
           t == SubSeq(q, n + 1, Len(q))
<1>1. Len(q) \in Nat
  OBVIOUS
<1>2. s \in Seq(T) /\ Len(s) = n /\ \A k \in 1..n : s[k] = q[k]
  BY <1>1
<1>3. t \in Seq(T) /\ Len(t) = Len(q) - n /\ \A k \in 1..Len(q) - n : t[k] = q[n + k]
  BY <1>1
<1> HIDE DEF s, t
<1>4. s \o t \in Seq(T) /\ Len(s \o t) = Len(q)
  BY <1>1, <1>2, <1>3
<1>5. ASSUME NEW k \in 1..Len(q) PROVE (s \o t)[k] = q[k]
  <2>1. CASE k <= n
    <3>1. k \in 1..n
      BY <1>1, <2>1
    <3>2. (s \o t)[k] = s[k]
      BY <1>1, <1>2, <1>3, <3>1
    <3> QED
      BY <1>2, <3>1, <3>2
  <2>2. CASE ~(k <= n)
    <3>1. k - n \in 1..Len(q) - n /\ n + (k - n) = k
      BY <1>1, <2>2
    <3>2. (s \o t)[k] = t[k - n]
      BY <1>1, <1>2, <1>3, <2>2, <3>1
    <3> QED
      BY <1>3, <3>1, <3>2
  <2> QED
    BY <2>1, <2>2
<1> QED
  BY <1>4, <1>5, SeqEqual DEF s, t

-----------------------------------------------------------------------------
(* The connections of this stream.                                         *)
Conns == Link!Connections(Frames, Ids)

(* What writing frames changes of a connection, and what it leaves alone.  *)
Keeps(c, d) ==
  /\ d.phase = c.phase /\ d.buffer = c.buffer /\ d.lossy = c.lossy
  /\ d.cursor = c.cursor /\ d.page = c.page /\ d.more = c.more

(* The frames go on the wire, and a wire that is full makes it slow.       *)
Sends(c, d, frames) ==
  /\ Keeps(c, d)
  /\ d.wire = c.wire \o frames
  /\ d.queue = c.queue /\ d.reading = c.reading /\ d.due = c.due
  /\ c.slow \/ (frames # <<>> /\ Len(d.wire) >= WireLimit) => d.slow

(* A connection that is closed, was just registered, or ended.             *)
LEMMA EndedType ==
  /\ Link!Closed \in Conns /\ Link!Registered \in Conns
  /\ \A c \in Conns : Link!Ended(c) \in Conns
<1>1. Link!Closed \in Conns
  BY DEF Link!Closed, Conns, Link!Connections, Link!Phases, Link!ReadStates
<1>2. Link!Registered \in Conns
  BY <1>1 DEF Link!Registered, Conns, Link!Connections, Link!Phases
<1>3. ASSUME NEW c \in Conns PROVE Link!Ended(c) \in Conns
  <2>1. c.wire \in Seq(Frames)
    BY DEF Conns, Link!Connections
  <2> QED
    BY <1>1, <2>1 DEF Link!Ended, Conns, Link!Connections, Link!Phases
<1> QED
  BY <1>1, <1>2, <1>3

(* Frames put behind one another.                                          *)
LEMMA Associates ==
  ASSUME NEW s \in Seq(Frames), NEW t \in Seq(Frames), NEW u \in Seq(Frames)
  PROVE  (s \o t) \o u = s \o (t \o u)
  OBVIOUS

(* One frame written.                                                      *)
LEMMA WriteSends ==
  ASSUME NEW c \in Conns, NEW f \in Frames
  PROVE  Link!Write(c, f) \in Conns /\ Sends(c, Link!Write(c, f), <<f>>)
<1>1. Link!RememberWritten(c.written, f) \in Seq(Ids)
  <2>1. c.written \in Seq(Ids) /\ f.id \in Ids \cup {0}
    BY DEF Conns, Link!Connections, Frames
  <2>2. Link!Newest(Append(c.written, f.id), 0) \in Seq(Ids)
    BY <2>1 DEF Link!Newest
  <2> QED
    BY <2>1, <2>2 DEF Link!RememberWritten
<1>2. /\ c.wire \in Seq(Frames) /\ c.slow \in BOOLEAN
      /\ Append(c.wire, f) \in Seq(Frames) /\ Append(c.wire, f) = c.wire \o <<f>>
      /\ Len(Append(c.wire, f)) = Len(c.wire) + 1
  BY DEF Conns, Link!Connections
<1>3. (c.slow \/ Len(c.wire) + 1 >= WireLimit) \in BOOLEAN
  BY <1>2
<1>4. Link!Write(c, f) \in Conns
  BY <1>1, <1>2, <1>3 DEF Link!Write, Conns, Link!Connections
<1>5. Sends(c, Link!Write(c, f), <<f>>)
  BY <1>2 DEF Link!Write, Conns, Link!Connections, Sends, Keeps
<1> QED
  BY <1>4, <1>5

(* The frames of AllWritten are written one after the other.               *)
LEMMA WritesInTurn ==
  ASSUME NEW c \in Conns, NEW frames \in Seq(Frames)
  PROVE  \E h \in [0..Len(frames) -> Conns] :
           /\ h[0] = c
           /\ \A i \in 1..Len(frames) : h[i] = Link!Write(h[i - 1], frames[i])
           /\ Link!AllWritten(c, frames) = h[Len(frames)]
<1> DEFINE n == Len(frames)
           F(g) == [i \in 0..n |-> IF i = 0 THEN c ELSE Link!Write(g[i - 1], frames[i])]
           after == CHOOSE g : g = F(g)
           step == [d \in Conns |-> [i \in 1..n |-> Link!Write(d, frames[i])]]
<1>1. n \in Nat /\ \A i \in 1..n : frames[i] \in Frames
  OBVIOUS
<1>2. step \in [Conns -> [1..n -> Conns]]
  <2> HIDE DEF n
  <2> QED
    BY <1>1, WriteSends
<1>3. \E h : IsTrace(h, Conns, c, n, step)
  <2> HIDE DEF step, n
  <2> QED
    BY <1>1, <1>2, Trace
<1>4. PICK h \in [0..n -> Conns] : h[0] = c /\ \A i \in 1..n : h[i] = step[h[i - 1]][i]
  <2> HIDE DEF step, n, F, after
  <2> QED
    BY <1>3 DEF IsTrace
<1>5. ASSUME NEW i \in 1..n PROVE h[i] = Link!Write(h[i - 1], frames[i])
  <2>1. i - 1 \in 0..n /\ h[i - 1] \in Conns
    BY <1>1, <1>4
  <2>2. step[h[i - 1]][i] = Link!Write(h[i - 1], frames[i])
    BY <2>1
  <2> QED
    BY <1>4, <2>2
<1>6. h = F(h)
  BY <1>1, <1>4, <1>5
<1>7. after = F(after)
  BY <1>6
<1>8. Link!AllWritten(c, frames) = after[n]
  BY DEF Link!AllWritten
<1> HIDE DEF after
<1>9. after[0] = c
  BY <1>1, <1>7
<1>10. ASSUME NEW i \in 1..n PROVE after[i] = Link!Write(after[i - 1], frames[i])
  <2>1. i \in 0..n /\ i # 0
    BY <1>1
  <2>2. F(after)[i] = Link!Write(after[i - 1], frames[i])
    BY <2>1
  <2> QED
    BY <1>7, <2>2
<1> HIDE DEF n, F, step
<1> DEFINE S == {i \in 0..n : after[i] \in Conns}
<1>11. 0 \in S
  BY <1>1, <1>9
<1>12. ASSUME NEW i \in 1..n, i - 1 \in S PROVE i \in S
  <2>1. after[i - 1] \in Conns
    BY <1>12
  <2>2. Link!Write(after[i - 1], frames[i]) \in Conns
    BY <1>1, <2>1, WriteSends
  <2> QED
    BY <1>1, <1>10, <2>2
<1>13. \A i \in 0..n : i \in S
  <2>1. n \in Nat /\ \A i \in 1..n : i - 1 \in S => i \in S
    BY <1>1, <1>12
  <2> HIDE DEF S
  <2> QED
    BY <2>1, <1>11, UpTo, Zenon
<1>14. after \in [0..n -> Conns]
  BY <1>7, <1>13 DEF F
<1> QED
  BY <1>8, <1>9, <1>10, <1>14 DEF n

(* All of them are on the wire then, in their order.                       *)
LEMMA AllWrittenSends ==
  ASSUME NEW c \in Conns, NEW frames \in Seq(Frames)
  PROVE  Link!AllWritten(c, frames) \in Conns /\ Sends(c, Link!AllWritten(c, frames), frames)
<1> DEFINE n == Len(frames)
<1>1. PICK h \in [0..n -> Conns] :
        /\ h[0] = c
        /\ \A i \in 1..n : h[i] = Link!Write(h[i - 1], frames[i])
        /\ Link!AllWritten(c, frames) = h[n]
  BY WritesInTurn
<1>2. n \in Nat /\ c.wire \in Seq(Frames) /\ SubSeq(frames, 1, n) = frames
  BY DEF Conns, Link!Connections
<1> HIDE DEF n
<1> DEFINE S == {i \in 0..n : Sends(c, h[i], SubSeq(frames, 1, i))}
<1>3. 0 \in S
  <2>1. SubSeq(frames, 1, 0) = <<>> /\ c.wire \o <<>> = c.wire
    BY <1>2
  <2>2. Sends(c, c, <<>>)
    BY <2>1 DEF Sends, Keeps
  <2>3. Sends(c, h[0], SubSeq(frames, 1, 0))
    BY <1>1, <2>1, <2>2, Zenon
  <2> QED
    BY <1>2, <2>3
<1>4. ASSUME NEW i \in 1..n, i - 1 \in S PROVE i \in S
  <2>1. h[i - 1] \in Conns /\ frames[i] \in Frames
    BY <1>1, <1>2 DEF n
  <2>2. Sends(c, h[i - 1], SubSeq(frames, 1, i - 1)) /\ Sends(h[i - 1], h[i], <<frames[i]>>)
    BY <1>1, <1>4, <2>1, WriteSends
  <2>3. /\ SubSeq(frames, 1, i) = SubSeq(frames, 1, i - 1) \o <<frames[i]>>
        /\ SubSeq(frames, 1, i - 1) \in Seq(Frames)
    BY <1>2 DEF n
  <2>4. (c.wire \o SubSeq(frames, 1, i - 1)) \o <<frames[i]>> = c.wire \o SubSeq(frames, 1, i)
    <3> DEFINE p == SubSeq(frames, 1, i - 1)
               e == <<frames[i]>>
    <3>1. p \in Seq(Frames) /\ e \in Seq(Frames) /\ SubSeq(frames, 1, i) = p \o e
      BY <2>1, <2>3
    <3> HIDE DEF p, e
    <3>2. (c.wire \o p) \o e = c.wire \o (p \o e)
      BY <1>2, <3>1, Associates
    <3> QED
      BY <3>1, <3>2 DEF p, e
  <2>5. Sends(c, h[i], SubSeq(frames, 1, i))
    BY <2>2, <2>4 DEF Sends, Keeps
  <2> QED
    BY <2>5
<1>5. \A i \in 0..n : i \in S
  <2>1. \A i \in 1..n : i - 1 \in S => i \in S
    BY <1>4
  <2> HIDE DEF S
  <2> QED
    BY <1>2, <1>3, <2>1, UpTo, Zenon
<1>6. n \in 0..n
  BY <1>2
<1> QED
  BY <1>1, <1>2, <1>5, <1>6

(* Handed to a live stream, frames come behind what waits; a stream that   *)
(* cannot hold them ends with a beginning of what it had to send.          *)
Begins(s, all) == \E rest \in Seq(Frames) : all = s \o rest
Passes(c, d, frames) ==
  \/ /\ Keeps(c, d) /\ d.reading = c.reading /\ d.due = c.due
     /\ d.wire \o d.queue = (c.wire \o c.queue) \o frames
     /\ ~d.slow => d.queue = <<>>
  \/ /\ d = Link!Ended(d)
     /\ Begins(d.wire, (c.wire \o c.queue) \o frames)

(* One frame handed on.                                                    *)
LEMMA DispatchPasses ==
  ASSUME NEW c \in Conns, NEW f \in Frames
  PROVE  /\ Link!Dispatch(c, f) \in Conns
         /\ c.phase = "live" /\ (~c.slow => c.queue = <<>>) => Passes(c, Link!Dispatch(c, f), <<f>>)
         /\ c.phase # "live" => Link!Dispatch(c, f) = c
<1>1. CASE c.phase # "live"
  BY <1>1 DEF Link!Dispatch
<1>2. /\ c.wire \in Seq(Frames) /\ c.queue \in Seq(Frames) /\ c.slow \in BOOLEAN
      /\ <<f>> \in Seq(Frames) /\ Append(c.queue, f) \in Seq(Frames)
      /\ Append(c.queue, f) = c.queue \o <<f>>
  BY DEF Conns, Link!Connections
<1>3. CASE c.phase = "live" /\ ~c.slow
  <2>1. Link!Dispatch(c, f) = Link!Write(c, f)
    BY <1>3 DEF Link!Dispatch
  <2>2. Link!Write(c, f) \in Conns /\ Sends(c, Link!Write(c, f), <<f>>)
    BY WriteSends
  <2>3. ASSUME c.queue = <<>> PROVE Passes(c, Link!Write(c, f), <<f>>)
    <3>1. (c.wire \o <<>>) \o <<f>> = (c.wire \o <<f>>) \o <<>>
      BY <1>2
    <3> QED
      BY <2>2, <2>3, <3>1 DEF Sends, Passes
  <2> QED
    BY <1>3, <2>1, <2>2, <2>3
<1>4. CASE c.phase = "live" /\ c.slow /\ Len(c.queue) < MaxPending
  <2>1. Link!Dispatch(c, f) = [c EXCEPT !.queue = Append(@, f)]
    BY <1>4 DEF Link!Dispatch, Frames
  <2>2. [c EXCEPT !.queue = Append(@, f)] \in Conns
    BY <1>2 DEF Conns, Link!Connections
  <2>3. c.wire \o Append(c.queue, f) = (c.wire \o c.queue) \o <<f>>
    <3>1. (c.wire \o c.queue) \o <<f>> = c.wire \o (c.queue \o <<f>>)
      BY <1>2, Associates
    <3> QED
      BY <1>2, <3>1, Zenon
  <2>4. Passes(c, [c EXCEPT !.queue = Append(@, f)], <<f>>)
    BY <1>4, <2>3 DEF Conns, Link!Connections, Passes, Keeps
  <2> QED
    BY <1>4, <2>1, <2>2, <2>4
<1>5. CASE c.phase = "live" /\ c.slow /\ ~(Len(c.queue) < MaxPending)
  <2>1. Link!Dispatch(c, f) = Link!Ended(c)
    BY <1>5 DEF Link!Dispatch, Frames
  <2>2. Link!Ended(c) \in Conns
    BY <1>2, EndedType
  <2>3. Link!Ended(c).wire = c.wire /\ Link!Ended(c) = Link!Ended(Link!Ended(c))
    BY DEF Link!Ended, Link!Closed
  <2>4. (c.wire \o c.queue) \o <<f>> = c.wire \o (c.queue \o <<f>>) /\ c.queue \o <<f>> \in Seq(Frames)
    BY <1>2, Associates
  <2>5. Passes(c, Link!Ended(c), <<f>>)
    BY <2>3, <2>4 DEF Passes, Begins
  <2> QED
    BY <1>5, <2>1, <2>2, <2>5
<1> QED
  BY <1>1, <1>2, <1>3, <1>4, <1>5

(* The frames of AllDispatched are handed on one after the other.          *)
LEMMA PassedInTurn ==
  ASSUME NEW c \in Conns, NEW frames \in Seq(Frames)
  PROVE  \E h \in [0..Len(frames) -> Conns] :
           /\ h[0] = c
           /\ \A i \in 1..Len(frames) : h[i] = Link!Dispatch(h[i - 1], frames[i])
           /\ Link!AllDispatched(c, frames) = h[Len(frames)]
<1> DEFINE n == Len(frames)
           F(g) == [i \in 0..n |-> IF i = 0 THEN c ELSE Link!Dispatch(g[i - 1], frames[i])]
           after == CHOOSE g : g = F(g)
           step == [d \in Conns |-> [i \in 1..n |-> Link!Dispatch(d, frames[i])]]
<1>1. n \in Nat /\ \A i \in 1..n : frames[i] \in Frames
  OBVIOUS
<1>2. step \in [Conns -> [1..n -> Conns]]
  <2> HIDE DEF n
  <2> QED
    BY <1>1, DispatchPasses
<1>3. \E h : IsTrace(h, Conns, c, n, step)
  <2> HIDE DEF step, n
  <2> QED
    BY <1>1, <1>2, Trace
<1>4. PICK h \in [0..n -> Conns] : h[0] = c /\ \A i \in 1..n : h[i] = step[h[i - 1]][i]
  <2> HIDE DEF step, n, F, after
  <2> QED
    BY <1>3 DEF IsTrace
<1>5. ASSUME NEW i \in 1..n PROVE h[i] = Link!Dispatch(h[i - 1], frames[i])
  <2>1. i - 1 \in 0..n /\ h[i - 1] \in Conns
    BY <1>1, <1>4
  <2>2. step[h[i - 1]][i] = Link!Dispatch(h[i - 1], frames[i])
    BY <2>1
  <2> QED
    BY <1>4, <2>2
<1>6. h = F(h)
  BY <1>1, <1>4, <1>5
<1>7. after = F(after)
  BY <1>6
<1>8. Link!AllDispatched(c, frames) = after[n]
  BY DEF Link!AllDispatched
<1> HIDE DEF after
<1>9. after[0] = c
  BY <1>1, <1>7
<1>10. ASSUME NEW i \in 1..n PROVE after[i] = Link!Dispatch(after[i - 1], frames[i])
  <2>1. i \in 0..n /\ i # 0
    BY <1>1
  <2>2. F(after)[i] = Link!Dispatch(after[i - 1], frames[i])
    BY <2>1
  <2> QED
    BY <1>7, <2>2
<1> HIDE DEF n, F, step
<1> DEFINE S == {i \in 0..n : after[i] \in Conns}
<1>11. 0 \in S
  BY <1>1, <1>9
<1>12. ASSUME NEW i \in 1..n, i - 1 \in S PROVE i \in S
  <2>1. after[i - 1] \in Conns
    BY <1>12
  <2>2. Link!Dispatch(after[i - 1], frames[i]) \in Conns
    BY <1>1, <2>1, DispatchPasses
  <2> QED
    BY <1>1, <1>10, <2>2
<1>13. \A i \in 0..n : i \in S
  <2>1. n \in Nat /\ \A i \in 1..n : i - 1 \in S => i \in S
    BY <1>1, <1>12
  <2> HIDE DEF S
  <2> QED
    BY <2>1, <1>11, UpTo, Zenon
<1>14. after \in [0..n -> Conns]
  BY <1>7, <1>13 DEF F
<1> QED
  BY <1>8, <1>9, <1>10, <1>14 DEF n

(* All of them are handed on, unless the stream ends.                      *)
LEMMA AllDispatchedPasses ==
  ASSUME NEW c \in Conns, NEW frames \in Seq(Frames),
         c.phase = "live", ~c.slow => c.queue = <<>>
  PROVE  Link!AllDispatched(c, frames) \in Conns /\ Passes(c, Link!AllDispatched(c, frames), frames)
<1> DEFINE n == Len(frames)
           out == c.wire \o c.queue
<1>1. PICK h \in [0..n -> Conns] :
        /\ h[0] = c
        /\ \A i \in 1..n : h[i] = Link!Dispatch(h[i - 1], frames[i])
        /\ Link!AllDispatched(c, frames) = h[n]
  BY PassedInTurn
<1>2. n \in Nat /\ out \in Seq(Frames) /\ SubSeq(frames, 1, n) = frames
  BY DEF Conns, Link!Connections
<1> HIDE DEF n, out
<1> DEFINE S == {i \in 0..n : Passes(c, h[i], SubSeq(frames, 1, i))}
<1>3. 0 \in S
  <2>1. SubSeq(frames, 1, 0) = <<>> /\ out \o <<>> = out
    BY <1>2
  <2>2. Passes(c, c, <<>>)
    BY <2>1 DEF Passes, Keeps, out
  <2>3. Passes(c, h[0], SubSeq(frames, 1, 0))
    BY <1>1, <2>1, <2>2, Zenon
  <2> QED
    BY <1>2, <2>3
<1>4. ASSUME NEW i \in 1..n, i - 1 \in S PROVE i \in S
  <2> DEFINE d == h[i - 1]
             p == SubSeq(frames, 1, i - 1)
             e == <<frames[i]>>
  <2>1. d \in Conns /\ frames[i] \in Frames
    BY <1>1, <1>2 DEF n
  <2>2. /\ SubSeq(frames, 1, i) = p \o e
        /\ p \in Seq(Frames) /\ e \in Seq(Frames)
    BY <1>2, <2>1 DEF n
  <2>3. Passes(c, d, p) /\ h[i] = Link!Dispatch(d, frames[i])
    BY <1>1, <1>4
  <2> HIDE DEF d, p, e
  <2>4. (out \o p) \o e = out \o (p \o e)
    BY <1>2, <2>2, Associates
  <2>5. CASE d.phase = "live" /\ (~d.slow => d.queue = <<>>) /\ d.wire \o d.queue = out \o p /\ Keeps(c, d)
                 /\ d.reading = c.reading /\ d.due = c.due
    <3>1. Passes(d, h[i], e)
      BY <2>1, <2>3, <2>5, DispatchPasses DEF e
    <3>2. Passes(c, h[i], p \o e)
      BY <2>4, <2>5, <3>1, Zenon DEF Passes, Keeps, out
    <3>3. Passes(c, h[i], SubSeq(frames, 1, i))
      BY <2>2, <3>2, Zenon
    <3> QED
      BY <1>2, <3>3
  <2>6. CASE d = Link!Ended(d) /\ Begins(d.wire, out \o p)
    <3>1. h[i] = d
      <4>1. d.phase # "live"
        BY <2>6 DEF Link!Ended, Link!Closed
      <4> QED
        BY <2>1, <2>3, <4>1, DispatchPasses
    <3>2. PICK rest \in Seq(Frames) : out \o p = d.wire \o rest
      BY <2>6 DEF Begins
    <3>3. d.wire \in Seq(Frames)
      BY <2>1 DEF Conns, Link!Connections
    <3>4. out \o (p \o e) = d.wire \o (rest \o e) /\ rest \o e \in Seq(Frames)
      <4>1. (d.wire \o rest) \o e = d.wire \o (rest \o e)
        BY <2>2, <3>3, Associates
      <4>2. rest \o e \in Seq(Frames)
        BY <2>2
      <4> QED
        BY <2>4, <3>2, <4>1, <4>2, Zenon
    <3>5. Passes(c, d, p \o e)
      BY <2>6, <3>4 DEF Passes, Begins, out
    <3>6. Passes(c, h[i], SubSeq(frames, 1, i))
      BY <2>2, <3>1, <3>5, Zenon
    <3> QED
      BY <1>2, <3>6
  <2> QED
    BY <2>3, <2>5, <2>6 DEF Passes, Keeps, out
<1>5. \A i \in 0..n : i \in S
  <2>1. \A i \in 1..n : i - 1 \in S => i \in S
    BY <1>4
  <2> HIDE DEF S
  <2> QED
    BY <1>2, <1>3, <2>1, UpTo, Zenon
<1>6. n \in 0..n
  BY <1>2
<1> QED
  BY <1>1, <1>2, <1>5, <1>6

(* A cue changes nothing of a live stream but that it reads the log.       *)
LiveConns == {c \in Conns : c.phase = "live"}
Cues == {f \in Frames : f.id # 0}
Stays(c, d) ==
  /\ Keeps(c, d) /\ d.wire = c.wire /\ d.queue = c.queue /\ d.slow = c.slow
  /\ d.reading = "idle" => c.reading = "idle"

(* One cue taken.                                                          *)
LEMMA TakeCues ==
  ASSUME NEW c \in LiveConns, NEW f \in Cues
  PROVE  Link!Take(c, f) \in LiveConns /\ Stays(c, Link!Take(c, f))
<1>1. Link!Take(c, f) = Link!RequestResync(c)
  BY DEF LiveConns, Cues, Link!Take
<1>2. c \in Conns /\ c.phase = "live"
  BY DEF LiveConns
<1>3. CASE c.reading = "idle"
  <2> DEFINE d == [c EXCEPT !.reading = "asking"]
  <2>1. Link!RequestResync(c) = d
    BY <1>3 DEF Link!RequestResync
  <2>2. d \in Conns
    BY <1>2 DEF Conns, Link!Connections, Link!ReadStates
  <2>3. d.phase = "live" /\ Stays(c, d)
    BY <1>2, <1>3 DEF Conns, Link!Connections, Stays, Keeps
  <2> HIDE DEF d
  <2> QED
    BY <1>1, <2>1, <2>2, <2>3 DEF LiveConns
<1>4. CASE c.reading # "idle"
  <2> DEFINE d == [c EXCEPT !.due = TRUE]
  <2>1. Link!RequestResync(c) = d
    BY <1>4 DEF Link!RequestResync
  <2>2. d \in Conns
    BY <1>2 DEF Conns, Link!Connections
  <2>3. d.phase = "live" /\ Stays(c, d)
    BY <1>2 DEF Conns, Link!Connections, Stays, Keeps
  <2> HIDE DEF d
  <2> QED
    BY <1>1, <2>1, <2>2, <2>3 DEF LiveConns
<1> QED
  BY <1>3, <1>4

(* The frames of AllTaken are taken one after the other.                   *)
LEMMA TakenInTurn ==
  ASSUME NEW c \in LiveConns, NEW frames \in Seq(Cues)
  PROVE  \E h \in [0..Len(frames) -> LiveConns] :
           /\ h[0] = c
           /\ \A i \in 1..Len(frames) : h[i] = Link!Take(h[i - 1], frames[i])
           /\ Link!AllTaken(c, frames) = h[Len(frames)]
<1> DEFINE n == Len(frames)
           F(g) == [i \in 0..n |-> IF i = 0 THEN c ELSE Link!Take(g[i - 1], frames[i])]
           after == CHOOSE g : g = F(g)
           step == [d \in LiveConns |-> [i \in 1..n |-> Link!Take(d, frames[i])]]
<1>1. n \in Nat /\ \A i \in 1..n : frames[i] \in Cues
  OBVIOUS
<1>2. step \in [LiveConns -> [1..n -> LiveConns]]
  <2> HIDE DEF n
  <2> QED
    BY <1>1, TakeCues
<1>3. \E h : IsTrace(h, LiveConns, c, n, step)
  <2> HIDE DEF step, n
  <2> QED
    BY <1>1, <1>2, Trace
<1>4. PICK h \in [0..n -> LiveConns] : h[0] = c /\ \A i \in 1..n : h[i] = step[h[i - 1]][i]
  <2> HIDE DEF step, n, F, after
  <2> QED
    BY <1>3 DEF IsTrace
<1>5. ASSUME NEW i \in 1..n PROVE h[i] = Link!Take(h[i - 1], frames[i])
  <2>1. i - 1 \in 0..n /\ h[i - 1] \in LiveConns
    BY <1>1, <1>4
  <2>2. step[h[i - 1]][i] = Link!Take(h[i - 1], frames[i])
    BY <2>1
  <2> QED
    BY <1>4, <2>2
<1>6. h = F(h)
  BY <1>1, <1>4, <1>5
<1>7. after = F(after)
  BY <1>6
<1>8. Link!AllTaken(c, frames) = after[n]
  BY DEF Link!AllTaken
<1> HIDE DEF after
<1>9. after[0] = c
  BY <1>1, <1>7
<1>10. ASSUME NEW i \in 1..n PROVE after[i] = Link!Take(after[i - 1], frames[i])
  <2>1. i \in 0..n /\ i # 0
    BY <1>1
  <2>2. F(after)[i] = Link!Take(after[i - 1], frames[i])
    BY <2>1
  <2> QED
    BY <1>7, <2>2
<1> HIDE DEF n, F, step
<1> DEFINE S == {i \in 0..n : after[i] \in LiveConns}
<1>11. 0 \in S
  BY <1>1, <1>9
<1>12. ASSUME NEW i \in 1..n, i - 1 \in S PROVE i \in S
  <2>1. after[i - 1] \in LiveConns
    BY <1>12
  <2>2. Link!Take(after[i - 1], frames[i]) \in LiveConns
    BY <1>1, <2>1, TakeCues
  <2> QED
    BY <1>1, <1>10, <2>2
<1>13. \A i \in 0..n : i \in S
  <2>1. n \in Nat /\ \A i \in 1..n : i - 1 \in S => i \in S
    BY <1>1, <1>12
  <2> HIDE DEF S
  <2> QED
    BY <2>1, <1>11, UpTo, Zenon
<1>14. after \in [0..n -> LiveConns]
  BY <1>7, <1>13 DEF F
<1> QED
  BY <1>8, <1>9, <1>10, <1>14 DEF n

(* Nor do many.                                                            *)
LEMMA AllTakenStays ==
  ASSUME NEW c \in LiveConns, NEW frames \in Seq(Cues)
  PROVE  Link!AllTaken(c, frames) \in LiveConns /\ Stays(c, Link!AllTaken(c, frames))
<1> DEFINE n == Len(frames)
<1>1. PICK h \in [0..n -> LiveConns] :
        /\ h[0] = c
        /\ \A i \in 1..n : h[i] = Link!Take(h[i - 1], frames[i])
        /\ Link!AllTaken(c, frames) = h[n]
  BY TakenInTurn
<1>2. n \in Nat /\ \A i \in 1..n : frames[i] \in Cues
  OBVIOUS
<1> HIDE DEF n
<1> DEFINE S == {i \in 0..n : Stays(c, h[i])}
<1>3. 0 \in S
  BY <1>1, <1>2 DEF Stays, Keeps
<1>4. ASSUME NEW i \in 1..n, i - 1 \in S PROVE i \in S
  <2>1. h[i - 1] \in LiveConns /\ Stays(c, h[i - 1])
    BY <1>1, <1>2, <1>4
  <2>2. Stays(h[i - 1], h[i])
    BY <1>1, <1>2, <2>1, TakeCues
  <2>3. Stays(c, h[i])
    BY <2>1, <2>2 DEF Stays, Keeps
  <2> QED
    BY <1>2, <2>3
<1>5. \A i \in 0..n : i \in S
  <2>1. \A i \in 1..n : i - 1 \in S => i \in S
    BY <1>4
  <2> HIDE DEF S
  <2> QED
    BY <1>2, <1>3, <2>1, UpTo, Zenon
<1>6. n \in 0..n
  BY <1>2
<1> QED
  BY <1>1, <1>2, <1>5, <1>6

-----------------------------------------------------------------------------
(* The numbers of a set below one of them; a set that goes up to N.        *)
Below(T, i) == {j \in T : j < i}

(* Fewer numbers are below the smaller one.                                *)
LEMMA BelowCounts ==
  ASSUME NEW N \in Nat, NEW T \in SUBSET (1..N)
  PROVE  /\ IsFiniteSet(T) /\ Cardinality(T) \in Nat
         /\ \A i \in T : Cardinality(Below(T, i)) \in 0..(Cardinality(T) - 1)
         /\ \A i, j \in T : i < j => Cardinality(Below(T, i)) < Cardinality(Below(T, j))
<1>1. IsFiniteSet(T)
  <2>1. IsFiniteSet(1..N)
    BY FS_Interval
  <2> QED
    BY <2>1, FS_Subset
<1>2. ASSUME NEW U \in SUBSET T PROVE IsFiniteSet(U) /\ Cardinality(U) \in Nat
  BY <1>1, <1>2, FS_Subset, FS_CardinalityType
<1>3. ASSUME NEW U \in SUBSET T, NEW i \in U PROVE Cardinality(Below(T, i) \cap U) < Cardinality(U)
  <2>1. Below(T, i) \cap U \in SUBSET (U \ {i})
    BY DEF Below
  <2>2. IsFiniteSet(U \ {i}) /\ Cardinality(U \ {i}) = Cardinality(U) - 1
    BY <1>2, <1>3, FS_RemoveElement
  <2>3. Cardinality(Below(T, i) \cap U) <= Cardinality(U \ {i})
    BY <2>1, <2>2, FS_Subset
  <2>4. Below(T, i) \cap U \in SUBSET T
    BY DEF Below
  <2>5. Cardinality(Below(T, i) \cap U) \in Nat /\ Cardinality(U) \in Nat
    BY <1>2, <2>4
  <2> QED
    BY <2>2, <2>3, <2>5
<1>4. ASSUME NEW i \in T PROVE Cardinality(Below(T, i)) \in 0..(Cardinality(T) - 1)
  <2>1. Below(T, i) \in SUBSET T /\ Below(T, i) \cap T = Below(T, i)
    BY DEF Below
  <2>2. Cardinality(Below(T, i)) < Cardinality(T)
    BY <1>3, <2>1
  <2> QED
    BY <1>2, <2>1, <2>2
<1>5. ASSUME NEW i \in T, NEW j \in T, i < j
      PROVE  Cardinality(Below(T, i)) < Cardinality(Below(T, j))
  <2>1. Below(T, j) \in SUBSET T /\ i \in Below(T, j)
    BY <1>5 DEF Below
  <2>2. Below(T, i) \cap Below(T, j) = Below(T, i)
    <3>1. ASSUME NEW x \in Below(T, i) PROVE x \in Below(T, j)
      <4>1. x \in T /\ x < i /\ x \in Nat /\ i \in Nat /\ j \in Nat
        BY DEF Below
      <4>2. x < j
        BY <1>5, <4>1
      <4> QED
        BY <4>1, <4>2 DEF Below
    <3> QED
      BY <3>1
  <2> QED
    BY <1>3, <2>1, <2>2
<1> QED
  BY <1>1, <1>2, <1>4, <1>5

(* The numbers in their order: all of them, and each but once.             *)
LEMMA AscendingRises ==
  ASSUME NEW N \in Nat, NEW T \in SUBSET (1..N)
  PROVE  /\ Ascending(T) \in Seq(T)
         /\ Len(Ascending(T)) = Cardinality(T)
         /\ \A i \in T : \E k \in 1..Len(Ascending(T)) : Ascending(T)[k] = i
         /\ \A k, m \in 1..Len(Ascending(T)) : k < m => Ascending(T)[k] < Ascending(T)[m]
<1> DEFINE C == Cardinality(T)
           rank == [i \in T |-> Cardinality(Below(T, i)) + 1]
           Pick(k) == CHOOSE i \in T : Cardinality({j \in T : j < i}) = k - 1
<1>1. /\ IsFiniteSet(T) /\ C \in Nat
      /\ \A i \in T : Cardinality(Below(T, i)) \in 0..(C - 1)
      /\ \A i, j \in T : i < j => Cardinality(Below(T, i)) < Cardinality(Below(T, j))
  BY BelowCounts
<1>2. IsFiniteSet(1..C) /\ Cardinality(1..C) = C
  <2> HIDE DEF C
  <2> QED
    BY <1>1, FS_Interval
<1>3. rank \in [T -> 1..C] /\ \A i, j \in T : i < j => rank[i] < rank[j]
  <2> HIDE DEF C
  <2>1. \A i \in T : rank[i] \in 1..C
    BY <1>1
  <2> QED
    BY <1>1, <2>1
<1>4. rank \in Injection(T, 1..C)
  <2>1. ASSUME NEW i \in T, NEW j \in T, rank[i] = rank[j] PROVE i = j
    <3>1. i \in Nat /\ j \in Nat /\ rank[i] \in Nat /\ ~(rank[i] < rank[j]) /\ ~(rank[j] < rank[i])
      <4> HIDE DEF rank, C
      <4> QED
        BY <1>1, <1>3, <2>1
    <3> HIDE DEF rank, C
    <3> QED
      BY <1>3, <3>1
  <2> HIDE DEF rank, C
  <2> QED
    BY <1>3, <2>1 DEF Injection, IsInjective
<1>5. rank \in Surjection(T, 1..C)
  <2> HIDE DEF rank
  <2> QED
    BY <1>1, <1>2, <1>4, FS_Injection
<1>6. ASSUME NEW k \in 1..C PROVE Pick(k) \in T /\ rank[Pick(k)] = k
  <2>1. PICK i \in T : rank[i] = k
    <3> HIDE DEF rank, C
    <3> QED
      BY <1>5 DEF Surjection
  <2>2. Cardinality({j \in T : j < i}) = k - 1
    <3>1. Cardinality(Below(T, i)) \in Nat /\ Cardinality(Below(T, i)) + 1 = k
      BY <1>1, <2>1
    <3> QED
      BY <3>1 DEF Below
  <2>3. Pick(k) \in T /\ Cardinality({j \in T : j < Pick(k)}) = k - 1
    BY <2>2
  <2> HIDE DEF Pick
  <2>4. Cardinality(Below(T, Pick(k))) = k - 1
    BY <2>3 DEF Below
  <2> QED
    BY <1>1, <2>3, <2>4
<1>7. Ascending(T) = [k \in 1..C |-> Pick(k)]
  BY DEF Ascending
<1> HIDE DEF Pick, C
<1>8. Ascending(T) \in [1..C -> T] /\ Ascending(T) \in Seq(T) /\ Len(Ascending(T)) = C
  <2>1. Ascending(T) \in [1..C -> T]
    BY <1>6, <1>7
  <2> QED
    BY <1>1, <2>1
<1> HIDE DEF rank
<1>9. ASSUME NEW i \in T PROVE \E k \in 1..C : Ascending(T)[k] = i
  <2>1. rank[i] \in 1..C /\ Ascending(T)[rank[i]] = Pick(rank[i])
    BY <1>3, <1>7
  <2>2. Pick(rank[i]) \in T /\ rank[Pick(rank[i])] = rank[i]
    BY <1>6, <2>1
  <2>3. Pick(rank[i]) = i
    BY <1>4, <2>2 DEF Injection, IsInjective
  <2> QED
    BY <2>1, <2>3
<1>10. ASSUME NEW k \in 1..C, NEW m \in 1..C, k < m PROVE Ascending(T)[k] < Ascending(T)[m]
  <2>1. /\ Ascending(T)[k] \in T /\ rank[Ascending(T)[k]] = k
        /\ Ascending(T)[m] \in T /\ rank[Ascending(T)[m]] = m
    BY <1>6, <1>7
  <2> DEFINE i == Ascending(T)[k]
             j == Ascending(T)[m]
  <2>2. i \in T /\ j \in T /\ rank[i] = k /\ rank[j] = m
    BY <2>1
  <2> HIDE DEF i, j
  <2>3. i \in Nat /\ j \in Nat /\ i # j /\ ~(rank[j] < rank[i])
    BY <1>1, <1>10, <2>2
  <2>4. ~(j < i)
    BY <1>3, <2>2, <2>3
  <2>5. i < j
    BY <2>3, <2>4
  <2> QED
    BY <2>5 DEF i, j
<1> QED
  BY <1>8, <1>9, <1>10 DEF C

(* The greatest of some numbers.                                           *)
LEMMA MaxIsGreatest ==
  ASSUME NEW N \in Nat, NEW T \in SUBSET (1..N), T # {}
  PROVE  Max(T) \in T /\ \A i \in T : i <= Max(T)
<1> DEFINE U == {N - i : i \in T}
<1>1. PICK n \in U : \A m \in U : n <= m
  <2>1. U \subseteq Nat /\ U # {}
    <3>1. \A i \in T : N - i \in Nat
      OBVIOUS
    <3> QED
      BY <3>1
  <2> HIDE DEF U
  <2> QED
    BY <2>1, LeastNumber
<1>2. PICK x \in T : n = N - x
  BY <1>1
<1>3. \A i \in T : x >= i
  <2>1. ASSUME NEW i \in T PROVE x >= i
    <3>1. N - i \in U
      OBVIOUS
    <3>2. N - x <= N - i
      <4> HIDE DEF U
      <4> QED
        BY <1>1, <1>2, <3>1
    <3> QED
      BY <3>2
  <2> QED
    BY <2>1
<1>4. Max(T) \in T /\ \A i \in T : Max(T) >= i
  BY <1>3 DEF Max
<1> QED
  BY <1>4

(* The newest of some numbers, or 0.                                       *)
LEMMA NewestIsGreatest ==
  ASSUME NEW T \in SUBSET Ids
  PROVE  /\ Newest(T) \in T \cup {0} /\ Newest(T) \in Ids \cup {0} /\ Newest(T) \in Nat
         /\ \A i \in T : i <= Newest(T)
<1>1. MaxEvents \in Nat
  BY StreamAssumption
<1>2. CASE T = {}
  BY <1>2 DEF Newest
<1>3. CASE T # {}
  <2>1. Max(T) \in T /\ \A i \in T : i <= Max(T)
    BY <1>1, <1>3, MaxIsGreatest DEF Ids
  <2>2. Max(T) \in Nat
    <3>1. \A i \in T : i \in Nat
      BY <1>1 DEF Ids
    <3> QED
      BY <2>1, <3>1
  <2> QED
    BY <1>3, <2>1, <2>2 DEF Newest
<1> QED
  BY <1>2, <1>3

(* The frames of the known ones of some rows, in their order.              *)
LEMMA FramesRise ==
  ASSUME NEW T \in SUBSET Ids
  PROVE  /\ FramesOf(T) \in Seq(Frames)
         /\ \A k \in 1..Len(FramesOf(T)) : FramesOf(T)[k].id \in T \ Unknown
         /\ \A i \in T \ Unknown : \E k \in 1..Len(FramesOf(T)) : FramesOf(T)[k].id = i
         /\ \A k, m \in 1..Len(FramesOf(T)) : k < m => FramesOf(T)[k].id < FramesOf(T)[m].id
<1> DEFINE a == Ascending(T \ Unknown)
<1>1. MaxEvents \in Nat /\ T \ Unknown \in SUBSET (1..MaxEvents)
  BY StreamAssumption DEF Ids
<1>2. /\ a \in Seq(T \ Unknown)
      /\ \A i \in T \ Unknown : \E k \in 1..Len(a) : a[k] = i
      /\ \A k, m \in 1..Len(a) : k < m => a[k] < a[m]
  BY <1>1, AscendingRises
<1>3. FramesOf(T) = [k \in DOMAIN a |-> Numbered(a[k])]
  BY DEF FramesOf
<1> HIDE DEF a
<1>4. Len(a) \in Nat /\ DOMAIN a = 1..Len(a) /\ \A k \in 1..Len(a) : a[k] \in T \ Unknown
  BY <1>2
<1>5. \A k \in 1..Len(a) : Numbered(a[k]) \in Frames /\ Numbered(a[k]).id = a[k]
  BY <1>1, <1>4 DEF Numbered, Frames, Ids
<1>6. FramesOf(T) \in [1..Len(a) -> Frames]
  BY <1>3, <1>4, <1>5
<1>7. FramesOf(T) \in Seq(Frames) /\ Len(FramesOf(T)) = Len(a)
  BY <1>4, <1>6
<1>8. \A k \in 1..Len(a) : FramesOf(T)[k].id = a[k]
  BY <1>3, <1>4, <1>5
<1> HIDE DEF FramesOf
<1> QED
  BY <1>2, <1>4, <1>7, <1>8

(* A queue without one tab holds the others.                               *)
LEMMA WithoutKeepsOthers ==
  ASSUME NEW s \in Seq(Tabs), NEW e
  PROVE  /\ Without(s, e) \in Seq(Tabs)
         /\ \A k \in DOMAIN Without(s, e) : \E m \in DOMAIN s : Without(s, e)[k] = s[m] /\ s[m] # e
<1> DEFINE K == {k \in DOMAIN s : s[k] # e}
           a == Ascending(K)
<1>1. Len(s) \in Nat /\ DOMAIN s = 1..Len(s) /\ K \in SUBSET (1..Len(s))
  OBVIOUS
<1>2. a \in Seq(K)
  <2> HIDE DEF K
  <2> QED
    BY <1>1, AscendingRises
<1>3. Without(s, e) = [k \in DOMAIN a |-> s[a[k]]]
  BY DEF Without
<1> HIDE DEF a
<1>4. Len(a) \in Nat /\ DOMAIN a = 1..Len(a) /\ \A k \in 1..Len(a) : a[k] \in K
  <2> HIDE DEF K
  <2> QED
    BY <1>2
<1>5. \A k \in 1..Len(a) : a[k] \in DOMAIN s /\ s[a[k]] # e /\ s[a[k]] \in Tabs
  BY <1>4
<1>6. Without(s, e) \in [1..Len(a) -> Tabs]
  BY <1>3, <1>4, <1>5
<1>7. Without(s, e) \in Seq(Tabs) /\ DOMAIN Without(s, e) = 1..Len(a)
  BY <1>4, <1>6
<1>8. \A k \in 1..Len(a) : Without(s, e)[k] = s[a[k]]
  BY <1>3, <1>4
<1> QED
  BY <1>5, <1>7, <1>8

(* The first rows from a number on leave none out, and if they are fewer   *)
(* than there was room for they are all.                                   *)
LEMMA RowsInOrder ==
  ASSUME rows \in SUBSET Ids, NEW i \in Nat, NEW limit \in Nat
  PROVE  /\ RowsFrom(i, limit) \subseteq rows
         /\ \A j \in RowsFrom(i, limit) : i <= j
         /\ \A j \in rows : \A k \in RowsFrom(i, limit) : i <= j /\ j <= k => j \in RowsFrom(i, limit)
         /\ Cardinality(RowsFrom(i, limit)) < limit =>
              RowsFrom(i, limit) = {j \in rows : i <= j}
<1> DEFINE due == {j \in rows : j >= i}
           found == RowsFrom(i, limit)
<1>1. MaxEvents \in Nat /\ due \in SUBSET (1..MaxEvents)
  BY StreamAssumption DEF Ids
<1>2. found = {j \in due : Cardinality(Below(due, j)) < limit}
  BY DEF RowsFrom, Below
<1>3. found \subseteq rows /\ \A j \in found : i <= j
  <2>1. \A j \in due : j \in rows /\ i <= j
    BY <1>1
  <2> HIDE DEF due
  <2> QED
    BY <1>2, <2>1
<1>4. \A j \in rows : i <= j => j \in due
  BY <1>1
<1> HIDE DEF due, found
<1>5. /\ IsFiniteSet(due)
      /\ \A j \in due : j \in Nat /\ Cardinality(Below(due, j)) \in Nat
      /\ \A j, k \in due : j < k => Cardinality(Below(due, j)) < Cardinality(Below(due, k))
  <2>1. \A j \in due : j \in Nat
    BY <1>1
  <2>2. /\ IsFiniteSet(due) /\ Cardinality(due) \in Nat
        /\ \A j \in due : Cardinality(Below(due, j)) \in 0..(Cardinality(due) - 1)
        /\ \A j, k \in due : j < k => Cardinality(Below(due, j)) < Cardinality(Below(due, k))
    BY <1>1, BelowCounts
  <2> QED
    BY <2>1, <2>2
<1>6. ASSUME NEW j \in rows, NEW k \in found, i <= j, j <= k PROVE j \in found
  <2>1. j \in due /\ k \in due /\ Cardinality(Below(due, k)) < limit
    BY <1>2, <1>4, <1>6
  <2>2. Cardinality(Below(due, j)) <= Cardinality(Below(due, k))
    <3>1. j = k \/ j < k
      BY <1>5, <1>6, <2>1
    <3> QED
      BY <1>5, <2>1, <3>1
  <2>3. Cardinality(Below(due, j)) < limit
    BY <1>5, <2>1, <2>2
  <2> QED
    BY <1>2, <2>1, <2>3
<1>7. ASSUME Cardinality(found) < limit PROVE found = {j \in rows : i <= j}
  <2>1. SUFFICES ASSUME due \ found # {} PROVE FALSE
    <3>1. due = {j \in rows : i <= j}
      BY <1>1 DEF due
    <3>2. found \subseteq due
      BY <1>2
    <3> QED
      BY <3>1, <3>2
  <2>2. due \ found \subseteq Nat
    BY <1>5
  <2>3. PICK j \in due \ found : \A k \in due \ found : j <= k
    BY <2>1, <2>2, LeastNumber
  <2>4. Below(due, j) \in SUBSET found
    <3>1. ASSUME NEW k \in Below(due, j) PROVE k \in found
      <4>1. k \in due /\ k < j /\ k \in Nat /\ j \in Nat
        BY <1>5, <2>3 DEF Below
      <4>2. ~(j <= k)
        BY <4>1
      <4> QED
        BY <2>3, <4>1, <4>2
    <3> QED
      BY <3>1
  <2>5. IsFiniteSet(found) /\ Cardinality(found) \in Nat
    <3>1. found \in SUBSET due
      BY <1>2
    <3> QED
      BY <1>5, <3>1, FS_Subset, FS_CardinalityType
  <2>6. Cardinality(Below(due, j)) <= Cardinality(found)
    BY <2>4, <2>5, FS_Subset
  <2>7. ~(Cardinality(Below(due, j)) < limit)
    BY <1>2, <2>3
  <2> QED
    BY <1>5, <1>7, <2>3, <2>5, <2>6, <2>7
<1> QED
  BY <1>3, <1>6, <1>7 DEF found

-----------------------------------------------------------------------------
(* What a client can know of, and the marks a stream may resume from.      *)
Known == logged \ Unknown
Marks == logged \cup {0}

(* After `fresh' and `expired' a tab refetches.                            *)
Refetch(f) == f.id = 0 /\ f.resume \in {"fresh", "expired"}
Brings(f, j) == f.id = j \/ (Refetch(f) /\ j <= f.from)

(* Number j has reached tab r, or is among the first n frames of s, which  *)
(* are on their way to it; and s leaves no gap.                            *)
HasBy(r, s, n, j) == j <= r.seen \/ j <= r.from \/ \E m \in 1..n : Brings(s[m], j)
Has(r, s, j) == HasBy(r, s, Len(s), j)
Sound(known, r, s) ==
  \A k \in 1..Len(s) : \A j \in known : j < s[k].id => HasBy(r, s, k - 1, j)

(* What a tab was given up to where it has come.                           *)
Unskipped(known, r) == \A i \in known : r.from < i /\ i <= r.seen => i \in r.heard

-----------------------------------------------------------------------------
(* Numbers are committed in their order, and rows are pruned in it.        *)
LogInOrder ==
  /\ \A i \in logged \cup writing : i < next
  /\ \A i \in writing, j \in logged : j < i
  /\ \A i, j \in writing : i = j
  /\ \A i \in rows, j \in logged : i <= j => j \in rows

(* The frames of the stream that no tab has been given, and how far the    *)
(* log has been read for them.                                             *)
Reads == opening.read \/ conn.phase = "live"
Ahead == conn.wire \o conn.queue \o opening.frames
Position == IF opening.read THEN opening.last ELSE conn.cursor

(* The connection and the browser's end of it agree, and nothing waits in  *)
(* a part of the connection that is not in use.                            *)
ConnAgrees ==
  /\ conn.phase = "closed" <=> source.state # "connected"
  /\ source.state = "none" => source = NoSource
  /\ conn.phase \in {"closed", "opening"} => conn.wire = <<>>
  /\ conn.phase # "live" => conn.queue = <<>> /\ conn.reading = "idle"
  /\ conn.lossy = <<>>
  /\ conn.phase = "live" /\ ~conn.slow => conn.queue = <<>>
  /\ conn.reading = "idle" => conn.page = {}
  /\ \A k \in DOMAIN conn.buffer : conn.buffer[k].id # 0
  /\ IF opening.read THEN conn.phase = "opening" ELSE opening.frames = <<>>

(* What is behind a mark was logged.                                       *)
MarksAreLogged ==
  /\ conn.cursor \in Marks /\ opening.last \in Marks
  /\ conn.page \subseteq rows
  /\ \A k \in DOMAIN Ahead : Ahead[k].id \in Marks
  /\ {source.lastId, source.url, source.after} \subseteq Marks
  /\ \A t \in Tabs : tab[t].seen \in Marks /\ \A k \in DOMAIN tab[t].inbox : tab[t].inbox[k].id \in Marks

(* One tab leads, the stream is its own, and resumes from what it has seen.*)
LeaderAgrees ==
  /\ \A t, u \in Tabs : tab[t].role = "leading" /\ tab[u].role = "leading" => t = u
  /\ source.state # "none" => \E t \in Tabs : tab[t].role = "leading"
  /\ \A t \in Tabs : tab[t].role = "leading" =>
       source.lastId <= tab[t].seen /\ source.url <= tab[t].seen /\ source.after <= tab[t].seen
  /\ conn.phase = "opening" =>
       source.after = IF source.lastId > 0 THEN source.lastId ELSE source.url
  /\ \A k \in DOMAIN queue : tab[queue[k]].role # "closed"

(* A read has found the rows from the cursor to where it is.               *)
PageIsWhole == conn.page = {j \in rows : conn.cursor < j /\ j <= Link!LastRead(conn)}

(* What is on its way to a tab leaves no gap, and what the stream will not *)
(* read any more is on its way or has come.                                *)
Coming(t) == IF tab[t].role = "leading" THEN Ahead ELSE tab[t].inbox \o Ahead

NoGaps ==
  \A t \in Tabs : IsOpen(t) =>
    /\ Unskipped(Known, tab[t])
    /\ Sound(Known, tab[t], tab[t].inbox)
    /\ Sound(Known, tab[t], Coming(t))
    /\ Reads => \A j \in Known : j <= Position \/ j \notin rows => Has(tab[t], Coming(t), j)

(* What one tab has come to every open tab has, or will.                   *)
Shared ==
  \A t, u \in Tabs : IsOpen(t) /\ IsOpen(u) =>
    \A j \in Known :
      (j <= tab[u].seen \/ \E k \in DOMAIN tab[u].inbox : j <= tab[u].inbox[k].id)
        => Has(tab[t], tab[t].inbox, j)

(* Numbers rise along the stream, from what its reader has to what the     *)
(* log still holds for it.                                                 *)
Rising ==
  /\ \A k \in DOMAIN Ahead : Ahead[k].id # 0 =>
       /\ source.lastId < Ahead[k].id
       /\ \A m \in 1..k - 1 : Ahead[m].id < Ahead[k].id
  /\ Reads =>
       /\ \A k \in DOMAIN Ahead : Ahead[k].id <= Position
       /\ \A j \in rows : Position < j => source.lastId < j

(* The inductive invariant: nothing is skipped because the numbers rise,   *)
(* the marks are the log's and reads are whole.                            *)
IInv ==
  /\ TypeOK
  /\ LogInOrder
  /\ ConnAgrees
  /\ MarksAreLogged
  /\ LeaderAgrees
  /\ PageIsWhole
  /\ NoGaps
  /\ Shared
  /\ Rising

-----------------------------------------------------------------------------
(* What is among the first frames is among them when more come.            *)
LEMMA HasInFront ==
  ASSUME NEW r, NEW s \in Seq(Frames), NEW u \in Seq(Frames), NEW n \in 0..Len(s), NEW j
  PROVE  /\ HasBy(r, s, n, j) <=> HasBy(r, s \o u, n, j)
         /\ HasBy(r, s, n, j) => Has(r, s, j)
         /\ Has(r, s, j) => Has(r, s \o u, j)
<1>1. Len(s) \in Nat /\ Len(s \o u) = Len(s) + Len(u) /\ Len(u) \in Nat
  OBVIOUS
<1>2. \A m \in 1..Len(s) : (s \o u)[m] = s[m] /\ m \in 1..Len(s \o u)
  BY <1>1
<1>3. \A m \in 1..n : m \in 1..Len(s)
  BY <1>1
<1>4. HasBy(r, s, n, j) <=> HasBy(r, s \o u, n, j)
  BY <1>2, <1>3, Zenon DEF HasBy
<1>5. HasBy(r, s, n, j) => Has(r, s, j)
  BY <1>3, Zenon DEF HasBy, Has
<1>6. Has(r, s, j) => Has(r, s \o u, j)
  BY <1>2, Zenon DEF HasBy, Has
<1> QED
  BY <1>4, <1>5, <1>6

(* A beginning of a sequence without gaps has none.                        *)
LEMMA SoundInFront ==
  ASSUME NEW known, NEW r, NEW s \in Seq(Frames), NEW u \in Seq(Frames),
         Sound(known, r, s \o u)
  PROVE  Sound(known, r, s)
<1>1. SUFFICES ASSUME NEW k \in 1..Len(s), NEW j \in known, j < s[k].id
               PROVE  HasBy(r, s, k - 1, j)
  BY DEF Sound
<1>2. k \in 1..Len(s \o u) /\ (s \o u)[k] = s[k] /\ k - 1 \in 0..Len(s)
  OBVIOUS
<1>3. HasBy(r, s \o u, k - 1, j)
  BY <1>1, <1>2 DEF Sound
<1> QED
  BY <1>2, <1>3, HasInFront

(* More frames leave no gap either if what is below each of them has come, *)
(* or is on its way.                                                       *)
LEMMA SoundExtends ==
  ASSUME NEW known, NEW r, NEW s \in Seq(Frames), NEW u \in Seq(Frames),
         Sound(known, r, s),
         \A k \in 1..Len(u) : \A j \in known :
           j < u[k].id => Has(r, s, j) \/ \E m \in 1..k - 1 : u[m].id = j
  PROVE  Sound(known, r, s \o u)
<1>1. SUFFICES ASSUME NEW k \in 1..Len(s \o u), NEW j \in known, j < (s \o u)[k].id
               PROVE  HasBy(r, s \o u, k - 1, j)
  BY DEF Sound
<1>2. /\ Len(s) \in Nat /\ Len(u) \in Nat /\ Len(s \o u) = Len(s) + Len(u)
      /\ \A m \in 1..Len(s) : (s \o u)[m] = s[m]
      /\ \A m \in 1..Len(u) : (s \o u)[Len(s) + m] = u[m]
  OBVIOUS
<1>3. CASE k <= Len(s)
  <2>1. k \in 1..Len(s) /\ k - 1 \in 0..Len(s)
    BY <1>2, <1>3
  <2>2. HasBy(r, s, k - 1, j)
    BY <1>1, <1>2, <2>1 DEF Sound
  <2> QED
    BY <2>1, <2>2, HasInFront
<1>4. CASE Len(s) < k
  <2> DEFINE i == k - Len(s)
  <2>1. i \in 1..Len(u) /\ k = Len(s) + i /\ k - 1 \in Nat /\ Len(s) <= k - 1
    BY <1>2, <1>4
  <2> HIDE DEF i
  <2>2. j < u[i].id
    BY <1>1, <1>2, <2>1
  <2>3. CASE Has(r, s, j)
    <3>1. \A m \in 1..Len(s) : m \in 1..k - 1
      BY <1>2, <2>1
    <3> QED
      BY <1>2, <2>3, <3>1, Zenon DEF Has, HasBy
  <2>4. CASE \E m \in 1..i - 1 : u[m].id = j
    <3>1. PICK m \in 1..i - 1 : u[m].id = j
      BY <2>4
    <3>2. m \in 1..Len(u) /\ Len(s) + m \in 1..k - 1
      BY <1>2, <2>1, <3>1
    <3>3. Brings((s \o u)[Len(s) + m], j)
      BY <1>2, <3>1, <3>2 DEF Brings
    <3> QED
      BY <3>2, <3>3 DEF HasBy
  <2> QED
    BY <2>1, <2>2, <2>3, <2>4
<1> QED
  BY <1>2, <1>3, <1>4

(* A tab that has come further lacks no more.                              *)
LEMMA HasMore ==
  ASSUME NEW known \in SUBSET Ids, NEW r \in TabRecords, NEW d \in TabRecords,
         r.seen <= d.seen, r.from <= d.from,
         NEW s \in Seq(Frames)
  PROVE  /\ \A j \in known : Has(r, s, j) => Has(d, s, j)
         /\ Sound(known, r, s) => Sound(known, d, s)
<1>1. \A j \in known : j \in Nat
  BY StreamAssumption DEF Ids
<1>2. {r.seen, d.seen, r.from, d.from} \subseteq Nat
  BY StreamAssumption DEF TabRecords, Ids
<1>3. \A j \in known : (j <= r.seen => j <= d.seen) /\ (j <= r.from => j <= d.from)
  BY <1>1, <1>2
<1>4. \A j \in known : \A n : HasBy(r, s, n, j) => HasBy(d, s, n, j)
  BY <1>3, Zenon DEF HasBy
<1>5. \A j \in known : Has(r, s, j) => Has(d, s, j)
  BY <1>4 DEF Has
<1>6. Sound(known, r, s) => Sound(known, d, s)
  BY <1>4, Zenon DEF Sound
<1> QED
  BY <1>5, <1>6

(* The next frame given to a tab: what it brought the tab now has.         *)
LEMMA DeliveryBrings ==
  ASSUME NEW known \in SUBSET Ids, NEW r \in TabRecords, NEW f \in Frames,
         NEW s \in Seq(Frames), Sound(known, r, <<f>> \o s)
  PROVE  /\ Delivered(r, f) \in TabRecords
         /\ Delivered(r, f).role = r.role /\ Delivered(r, f).inbox = r.inbox
         /\ r.seen <= Delivered(r, f).seen /\ r.from <= Delivered(r, f).from
         /\ Delivered(r, f).seen \in {r.seen, f.id} /\ f.id <= Delivered(r, f).seen
         /\ \A j \in known : Has(r, <<f>> \o s, j) => Has(Delivered(r, f), s, j)
         /\ Sound(known, Delivered(r, f), s)
         /\ Unskipped(known, r) => Unskipped(known, Delivered(r, f))
<1> DEFINE d == Delivered(r, f)
           all == <<f>> \o s
<1>1. /\ \A j \in known : j \in Nat /\ j # 0
      /\ r.seen \in Ids \cup {0} /\ r.from \in Ids \cup {0} /\ r.heard \in SUBSET Ids
      /\ f.id \in Ids \cup {0} /\ f.from \in Ids \cup {0}
      /\ \A j \in Ids \cup {0} : j \in Nat
  <2>1. \A j \in Ids : j \in Nat /\ j # 0
    BY StreamAssumption DEF Ids
  <2>2. \A j \in known : j \in Nat /\ j # 0
    BY <2>1
  <2>3. \A j \in Ids \cup {0} : j \in Nat
    BY <2>1
  <2>4. r.seen \in Ids \cup {0} /\ r.from \in Ids \cup {0} /\ r.heard \in SUBSET Ids
    BY DEF TabRecords
  <2>5. f.id \in Ids \cup {0} /\ f.from \in Ids \cup {0}
    BY DEF Frames
  <2> QED
    BY <2>2, <2>3, <2>4, <2>5
<1>2. d \in TabRecords
  <2>1. CASE f.id > r.seen
    <3>0. f.id # 0
      BY <1>1, <2>1
    <3>1. d = [r EXCEPT !.seen = f.id, !.heard = @ \cup {f.id}]
      BY <2>1, <3>0 DEF Delivered
    <3>2. f.id \in Ids
      BY <1>1, <2>1
    <3>3. r.heard \cup {f.id} \in SUBSET Ids /\ f.id \in Ids \cup {0}
      BY <1>1, <3>2
    <3> HIDE DEF d
    <3> QED
      BY <3>1, <3>3 DEF TabRecords
  <2>2. CASE ~(f.id > r.seen) /\ Refetch(f)
    <3>1. d = [r EXCEPT !.from = IF f.from > @ THEN f.from ELSE @]
      BY <2>2 DEF Delivered, Refetch
    <3> QED
      BY <1>1, <3>1 DEF TabRecords
  <2>3. CASE ~(f.id > r.seen) /\ ~Refetch(f)
    BY <2>3 DEF Delivered, Refetch
  <2> QED
    BY <2>1, <2>2, <2>3
<1>3. /\ d.role = r.role /\ d.inbox = r.inbox
      /\ r.seen <= d.seen /\ r.from <= d.from /\ d.seen \in {r.seen, f.id} /\ f.id <= d.seen
      /\ Refetch(f) => f.from <= d.from
      /\ r.heard \subseteq d.heard /\ (d.seen # r.seen => f.id \in d.heard)
  <2>1. CASE f.id > r.seen
    <3>0. f.id # 0
      BY <1>1, <2>1
    <3>1. d = [r EXCEPT !.seen = f.id, !.heard = @ \cup {f.id}]
      BY <2>1, <3>0 DEF Delivered
    <3>2. ~Refetch(f)
      BY <1>1, <2>1 DEF Refetch
    <3> QED
      BY <1>1, <2>1, <3>1, <3>2 DEF TabRecords
  <2>2. CASE ~(f.id > r.seen) /\ Refetch(f)
    <3>1. d = [r EXCEPT !.from = IF f.from > @ THEN f.from ELSE @]
      BY <2>2 DEF Delivered, Refetch
    <3> QED
      BY <1>1, <2>2, <3>1 DEF TabRecords
  <2>3. CASE ~(f.id > r.seen) /\ ~Refetch(f)
    <3>1. d = r
      BY <2>3 DEF Delivered, Refetch
    <3> QED
      BY <1>1, <2>3, <3>1
  <2> QED
    BY <2>1, <2>2, <2>3
<1> HIDE DEF d
<1>4. {d.seen, d.from} \subseteq Nat
  BY <1>1, <1>2 DEF TabRecords
<1>5. \A j \in known : Brings(f, j) => j <= d.seen \/ j <= d.from
  BY <1>1, <1>3, <1>4 DEF Brings
<1>6. /\ Len(s) \in Nat /\ Len(all) = Len(s) + 1 /\ all[1] = f
      /\ \A m \in 1..Len(s) : all[m + 1] = s[m]
  OBVIOUS
<1> HIDE DEF all
<1>7. ASSUME NEW j \in known, NEW n \in 0..Len(s), HasBy(r, all, n + 1, j)
      PROVE  HasBy(d, s, n, j)
  <2>1. CASE j <= r.seen \/ j <= r.from
    <3>1. j <= d.seen \/ j <= d.from
      BY <1>1, <1>3, <1>4, <2>1
    <3> QED
      BY <3>1 DEF HasBy
  <2>2. CASE \E m \in 1..n + 1 : Brings(all[m], j)
    <3>1. PICK m \in 1..n + 1 : Brings(all[m], j)
      BY <2>2
    <3>2. CASE m = 1
      BY <1>5, <1>6, <3>1, <3>2 DEF HasBy
    <3>3. CASE m # 1
      <4>1. m - 1 \in 1..n /\ m - 1 \in 1..Len(s) /\ (m - 1) + 1 = m
        BY <1>6, <1>7, <3>3
      <4>2. Brings(s[m - 1], j)
        BY <1>6, <3>1, <4>1
      <4> QED
        BY <4>1, <4>2 DEF HasBy
    <3> QED
      BY <3>2, <3>3
  <2> QED
    BY <1>7, <2>1, <2>2 DEF HasBy
<1>8. ASSUME NEW j \in known, Has(r, all, j) PROVE Has(d, s, j)
  BY <1>6, <1>7, <1>8 DEF Has
<1>9. Sound(known, d, s)
  <2>1. SUFFICES ASSUME NEW k \in 1..Len(s), NEW j \in known, j < s[k].id
                 PROVE  HasBy(d, s, k - 1, j)
    BY DEF Sound
  <2>2. k + 1 \in 1..Len(all) /\ all[k + 1] = s[k] /\ k - 1 \in 0..Len(s) /\ (k + 1) - 1 = (k - 1) + 1
    BY <1>6
  <2>3. HasBy(r, all, (k + 1) - 1, j)
    BY <2>1, <2>2 DEF Sound, all
  <2> QED
    BY <1>7, <2>2, <2>3
<1>10. ASSUME Unskipped(known, r) PROVE Unskipped(known, d)
  <2>1. SUFFICES ASSUME NEW i \in known, d.from < i, i <= d.seen PROVE i \in d.heard
    BY DEF Unskipped
  <2>2. i \in Nat /\ r.seen \in Nat /\ r.from \in Nat /\ f.id \in Nat
    BY <1>1
  <2>3. r.from < i
    BY <1>1, <1>3, <1>4, <2>1, <2>2
  <2>4. CASE i <= r.seen
    BY <1>3, <1>10, <2>3, <2>4 DEF Unskipped
  <2>5. CASE ~(i <= r.seen)
    <3>1. d.seen = f.id /\ d.seen # r.seen /\ f.id \in d.heard
      BY <1>3, <2>1, <2>2, <2>5
    <3>2. ~(i < f.id)
      <4>1. 1 \in 1..Len(all) /\ 1 - 1 = 0
        BY <1>6
      <4>2. i < f.id => HasBy(r, all, 0, i)
        BY <1>6, <4>1 DEF Sound, all
      <4>3. ~HasBy(r, all, 0, i)
        BY <2>2, <2>3, <2>5 DEF HasBy
      <4> QED
        BY <4>2, <4>3
    <3> QED
      BY <2>1, <2>2, <3>1, <3>2
  <2> QED
    BY <2>4, <2>5
<1> QED
  BY <1>2, <1>3, <1>8, <1>9, <1>10 DEF d, all

-----------------------------------------------------------------------------
(* Ids are numbers, and 0 is none of them.                                 *)
LEMMA IdsAreNumbers ==
  /\ \A j \in Ids \cup {0} : j \in Nat
  /\ \A j \in Ids : 0 < j
  BY StreamAssumption DEF Ids

(* The connection's maximum is the stream's.                               *)
LEMMA SameMax == \A T : Link!Max(T) = Max(T)
  BY DEF Link!Max, Max

(* Frames are a beginning of themselves, and nothing is one of anything.   *)
LEMMA BeginsItself ==
  /\ \A s \in Seq(Frames) : Begins(s, s) /\ Begins(<<>>, s)
<1>1. ASSUME NEW s \in Seq(Frames) PROVE s = s \o <<>> /\ s = <<>> \o s /\ <<>> \in Seq(Frames)
  OBVIOUS
<1> QED
  BY <1>1 DEF Begins

(* What the type invariant says of the sequences.                          *)
LEMMA SequencesNow ==
  ASSUME TypeOK
  PROVE  /\ conn \in Conns /\ opening.frames \in Seq(Frames)
         /\ conn.wire \in Seq(Frames) /\ conn.queue \in Seq(Frames)
         /\ Ahead \in Seq(Frames)
         /\ Known \in SUBSET Ids /\ rows \in SUBSET Ids /\ logged \in SUBSET Ids
         /\ \A t \in Tabs : tab[t] \in TabRecords /\ tab[t].inbox \in Seq(Frames)
         /\ \A t \in Tabs : Coming(t) \in Seq(Frames)
<1>1. /\ conn \in Conns /\ opening.frames \in Seq(Frames)
      /\ conn.wire \in Seq(Frames) /\ conn.queue \in Seq(Frames)
      /\ Known \in SUBSET Ids /\ rows \in SUBSET Ids /\ logged \in SUBSET Ids
      /\ \A t \in Tabs : tab[t] \in TabRecords /\ tab[t].inbox \in Seq(Frames)
  BY DEF TypeOK, Conns, Link!Connections, Openings, Known, TabRecords
<1>2. Ahead \in Seq(Frames)
  BY <1>1 DEF Ahead
<1>3. \A t \in Tabs : Coming(t) \in Seq(Frames)
  BY <1>1, <1>2 DEF Coming
<1> QED
  BY <1>1, <1>2, <1>3

(* The same of the next state.                                             *)
LEMMA SequencesNext ==
  ASSUME TypeOK'
  PROVE  /\ conn' \in Conns /\ opening'.frames \in Seq(Frames)
         /\ conn'.wire \in Seq(Frames) /\ conn'.queue \in Seq(Frames)
         /\ Ahead' \in Seq(Frames)
         /\ Known' \in SUBSET Ids /\ rows' \in SUBSET Ids /\ logged' \in SUBSET Ids
         /\ \A t \in Tabs : tab'[t] \in TabRecords /\ tab'[t].inbox \in Seq(Frames)
         /\ \A t \in Tabs : Coming(t)' \in Seq(Frames)
<1>1. /\ conn' \in Conns /\ opening'.frames \in Seq(Frames)
      /\ conn'.wire \in Seq(Frames) /\ conn'.queue \in Seq(Frames)
      /\ Known' \in SUBSET Ids /\ rows' \in SUBSET Ids /\ logged' \in SUBSET Ids
      /\ \A t \in Tabs : tab'[t] \in TabRecords /\ tab'[t].inbox \in Seq(Frames)
  BY DEF TypeOK, Conns, Link!Connections, Openings, Known, TabRecords
<1>2. Ahead' \in Seq(Frames)
  BY <1>1 DEF Ahead
<1>3. \A t \in Tabs : Coming(t)' \in Seq(Frames)
  BY <1>1, <1>2 DEF Coming
<1> QED
  BY <1>1, <1>2, <1>3

-----------------------------------------------------------------------------
(* Most steps leave the tabs and the log alone, send no new frame, and     *)
(* have read no more of the log than before.                               *)
LEMMA NothingNewPreserves ==
  ASSUME IInv, TypeOK', LogInOrder', ConnAgrees', PageIsWhole',
         UNCHANGED <<logged, rows, tab, queue>>,
         Begins(Ahead', Ahead),
         Reads' => Reads /\ Ahead' = Ahead /\ Position' = Position,
         {conn'.cursor, opening'.last} \subseteq Marks, conn'.page \subseteq rows,
         source'.state # "none" => source.state # "none",
         source'.lastId \in {source.lastId, 0}, source'.url \in {source.url, 0},
         source'.after \in {source.after, source.lastId, source.url, 0},
         conn'.phase = "opening" =>
           source'.after = IF source'.lastId > 0 THEN source'.lastId ELSE source'.url
  PROVE  IInv'
<1> USE DEF IInv
<1>0. PICK rest \in Seq(Frames) : Ahead = Ahead' \o rest
  BY DEF Begins
<1>1. /\ Ahead \in Seq(Frames) /\ Known \in SUBSET Ids
      /\ \A t \in Tabs : tab[t] \in TabRecords /\ tab[t].inbox \in Seq(Frames)
  BY SequencesNow
<1>2. Ahead' \in Seq(Frames)
  BY SequencesNext
<1>3. Known' = Known /\ Marks' = Marks
  BY DEF Known, Marks
<1>4. /\ Len(Ahead') \in Nat /\ DOMAIN Ahead' = 1..Len(Ahead')
      /\ DOMAIN Ahead = 1..Len(Ahead) /\ Len(Ahead) = Len(Ahead') + Len(rest) /\ Len(rest) \in Nat
      /\ \A k \in 1..Len(Ahead') : Ahead[k] = Ahead'[k]
  BY <1>0, <1>1, <1>2
<1>5. \A k \in 1..Len(Ahead') : k \in 1..Len(Ahead)
  <2> DEFINE p == Len(Ahead')
             q == Len(Ahead)
             r == Len(rest)
  <2>1. p \in Nat /\ r \in Nat /\ q = p + r
    BY <1>4
  <2> HIDE DEF p, q, r
  <2>2. \A k \in 1..p : k \in 1..q
    BY <2>1
  <2> QED
    BY <2>2 DEF p, q
<1>6. MarksAreLogged'
  BY <1>3, <1>4, <1>5 DEF MarksAreLogged, Marks
<1>7. LeaderAgrees'
  <2>1. /\ \A t \in Tabs : tab[t].seen \in Nat
        /\ \A t, u \in Tabs : tab[t].role = "leading" /\ tab[u].role = "leading" => t = u
        /\ source.state # "none" => \E t \in Tabs : tab[t].role = "leading"
        /\ \A t \in Tabs : tab[t].role = "leading" =>
             source.lastId <= tab[t].seen /\ source.url <= tab[t].seen /\ source.after <= tab[t].seen
        /\ \A k \in DOMAIN queue : tab[queue[k]].role # "closed"
    BY <1>1, StreamAssumption DEF LeaderAgrees, TabRecords, Ids
  <2>2. \A t \in Tabs : tab[t].role = "leading" =>
          source'.lastId <= tab[t].seen /\ source'.url <= tab[t].seen /\ source'.after <= tab[t].seen
    BY <2>1
  <2> QED
    BY <2>1, <2>2 DEF LeaderAgrees
<1>8. Shared'
  BY <1>3 DEF Shared, IsOpen
<1>9. NoGaps'
  <2>1. SUFFICES ASSUME NEW t \in Tabs, IsOpen(t)
                 PROVE  /\ Sound(Known, tab[t], Coming(t)')
                        /\ Reads' => \A j \in Known : j <= Position' \/ j \notin rows => Has(tab[t], Coming(t)', j)
    BY <1>3 DEF NoGaps, IsOpen
  <2>2. /\ Sound(Known, tab[t], Coming(t))
        /\ Reads => \A j \in Known : j <= Position \/ j \notin rows => Has(tab[t], Coming(t), j)
    BY <2>1 DEF NoGaps
  <2>3. Ahead' = Ahead => Coming(t)' = Coming(t)
    BY DEF Coming
  <2>4. Coming(t) = Coming(t)' \o rest /\ Coming(t)' \in Seq(Frames)
    <3>1. tab[t].inbox \o (Ahead' \o rest) = (tab[t].inbox \o Ahead') \o rest
      <4>1. tab[t].inbox \in Seq(Frames)
        BY <1>1
      <4> HIDE DEF IInv
      <4> QED
        BY <1>2, <4>1, Associates
    <3>2. tab[t].inbox \o Ahead' \in Seq(Frames)
      BY <1>1, <1>2
    <3> QED
      BY <1>0, <1>2, <3>1, <3>2 DEF Coming
  <2>5. Sound(Known, tab[t], Coming(t)')
    BY <2>2, <2>4, SoundInFront
  <2> QED
    BY <2>2, <2>3, <2>5
<1>10. Rising'
  <2>1. ASSUME NEW k \in DOMAIN Ahead', Ahead'[k].id # 0
        PROVE  source'.lastId < Ahead'[k].id /\ \A m \in 1..k - 1 : Ahead'[m].id < Ahead'[k].id
    <3>1. k \in 1..Len(Ahead') /\ k \in DOMAIN Ahead /\ Ahead[k] = Ahead'[k]
      BY <1>4, <1>5
    <3>2. \A m \in 1..k - 1 : m \in 1..Len(Ahead') /\ Ahead[m] = Ahead'[m]
      <4> DEFINE p == Len(Ahead')
      <4>1. p \in Nat /\ k \in 1..p
        BY <1>4, <3>1
      <4> HIDE DEF p
      <4>2. \A m \in 1..k - 1 : m \in 1..p
        BY <4>1
      <4> QED
        BY <1>4, <4>2 DEF p
    <3>3. source.lastId < Ahead[k].id /\ \A m \in 1..k - 1 : Ahead[m].id < Ahead[k].id
      BY <2>1, <3>1 DEF Rising
    <3>4. Ahead[k].id \in Nat
      <4>1. Ahead[k] \in Frames
        BY <1>1, <1>4, <3>1, ElementOfSeq
      <4> QED
        BY <4>1, IdsAreNumbers DEF Frames
    <3>5. source'.lastId < Ahead'[k].id
      BY <2>1, <3>1, <3>3, <3>4
    <3> QED
      BY <3>1, <3>2, <3>3, <3>5
  <2>2. ASSUME Reads'
        PROVE  /\ \A k \in DOMAIN Ahead' : Ahead'[k].id <= Position'
               /\ \A j \in rows : Position' < j => source'.lastId < j
    <3>1. Reads /\ Ahead' = Ahead /\ Position' = Position
      BY <2>2
    <3>2. /\ \A k \in DOMAIN Ahead : Ahead[k].id <= Position
          /\ \A j \in rows : Position < j => source.lastId < j
      BY <3>1 DEF Rising
    <3>3. \A j \in rows : j \in Nat /\ 0 < j
      BY StreamAssumption, SequencesNow DEF Ids
    <3> QED
      BY <3>1, <3>2, <3>3
  <2> QED
    BY <2>1, <2>2 DEF Rising
<1> QED
  BY <1>6, <1>7, <1>8, <1>9, <1>10

(* Steps that leave the stream, the tabs and the rows as they are.         *)
LEMMA OnlyTheLogPreserves ==
  ASSUME IInv, TypeOK', LogInOrder',
         UNCHANGED <<logged, rows, conn, opening, source, tab, queue>>
  PROVE  IInv'
<1>1. ConnAgrees'
  BY DEF IInv, ConnAgrees
<1>2. PageIsWhole'
  BY DEF IInv, PageIsWhole
<1>3. Ahead' = Ahead /\ (Reads' <=> Reads) /\ Position' = Position
  BY DEF Ahead, Reads, Position
<1>4. Begins(Ahead', Ahead)
  <2>1. Ahead \in Seq(Frames)
    BY SequencesNow DEF IInv
  <2> QED
    BY <1>3, <2>1, BeginsItself
<1>5. /\ {conn.cursor, opening.last} \subseteq Marks /\ conn.page \subseteq rows
      /\ conn.phase = "opening" =>
           source.after = IF source.lastId > 0 THEN source.lastId ELSE source.url
  BY DEF IInv, MarksAreLogged, LeaderAgrees
<1> QED
  BY <1>1, <1>2, <1>3, <1>4, <1>5, NothingNewPreserves

-----------------------------------------------------------------------------
(* Drawing a number, giving one up, and losing an announcement.            *)
LEMMA DrawPreserves == ASSUME IInv, Draw PROVE IInv'
<1>1. TypeOK'
  BY StreamAssumption DEF IInv, TypeOK, Draw, Ids, stream, browser
<1>2. LogInOrder'
  <2>1. next \in Nat /\ logged \in SUBSET Nat
    BY StreamAssumption DEF IInv, TypeOK, Ids
  <2>2. \A j \in logged : j \in Nat /\ j < next
    BY <2>1 DEF IInv, LogInOrder
  <2> QED
    BY <2>1, <2>2 DEF IInv, LogInOrder, Draw, stream, browser
<1> QED
  BY <1>1, <1>2, OnlyTheLogPreserves DEF Draw, stream, browser

(* An open transaction that fails.                                         *)
LEMMA AbortPreserves == ASSUME IInv, NEW i \in Ids, Abort(i) PROVE IInv'
<1>1. TypeOK'
  BY StreamAssumption DEF IInv, TypeOK, Abort, Trouble, stream, browser
<1>2. LogInOrder'
  BY DEF IInv, LogInOrder, Abort, stream, browser
<1> QED
  BY <1>1, <1>2, OnlyTheLogPreserves DEF Abort, stream, browser

(* An announcement that nobody hears.                                      *)
LEMMA LoseCuePreserves == ASSUME IInv, NEW i \in Ids, LoseCue(i) PROVE IInv'
<1>1. TypeOK'
  BY StreamAssumption DEF IInv, TypeOK, LoseCue, Trouble, stream, browser
<1>2. LogInOrder'
  BY DEF IInv, LogInOrder, LoseCue, stream, browser
<1> QED
  BY <1>1, <1>2, OnlyTheLogPreserves DEF LoseCue, stream, browser

(* The new number is above all that anyone has come to.                    *)
LEMMA CommitPreserves == ASSUME IInv, NEW i \in Ids, Commit(i) PROVE IInv'
<1> USE DEF IInv
<1>0. /\ i \in writing /\ writing' = writing \ {i}
      /\ logged' = logged \cup {i} /\ rows' = rows \cup {i} /\ cues' = cues \cup {i}
      /\ UNCHANGED <<next, conn, opening, source, tab, queue, opens, troubles>>
  BY DEF Commit, stream, browser
<1>1. TypeOK'
  BY <1>0 DEF TypeOK
<1>2. /\ \A j \in Marks : j < i /\ j \in Nat
      /\ i \in Nat /\ 0 < i
  BY StreamAssumption DEF TypeOK, LogInOrder, Marks, Commit, Ids
<1>3. LogInOrder'
  <2>1. \A j \in writing' : FALSE
    BY <1>0 DEF LogInOrder
  <2>2. \A j \in rows', k \in logged' : j <= k => k \in rows'
    <3>1. \A j \in rows : j \in Nat /\ j < i
      BY <1>2 DEF TypeOK, Marks
    <3>2. \A k \in logged : ~(i <= k)
      BY <1>2 DEF Marks
    <3> QED
      BY <1>0, <3>1, <3>2 DEF LogInOrder
  <2> QED
    BY <1>0, <2>1, <2>2 DEF LogInOrder
<1>4. ConnAgrees'
  BY <1>0 DEF ConnAgrees
<1>5. Marks \subseteq Marks' /\ Known' \subseteq Known \cup {i}
  BY <1>0 DEF Marks, Known
<1>6. Ahead' = Ahead /\ (Reads' <=> Reads) /\ Position' = Position /\ \A t \in Tabs : Coming(t)' = Coming(t)
  BY <1>0 DEF Ahead, Reads, Position, Coming
<1>7. MarksAreLogged'
  BY <1>0, <1>5, <1>6 DEF MarksAreLogged
<1>8. LeaderAgrees'
  BY <1>0 DEF LeaderAgrees
<1>9. /\ conn.cursor \in Marks /\ Position \in Marks
      /\ \A t \in Tabs : tab[t].seen \in Marks
      /\ \A t \in Tabs : \A k \in 1..Len(tab[t].inbox) : tab[t].inbox[k].id \in Marks
      /\ \A k \in DOMAIN Ahead : Ahead[k].id \in Marks
      /\ source.lastId \in Marks
  <2>1. \A t \in Tabs : DOMAIN tab[t].inbox = 1..Len(tab[t].inbox)
    BY SequencesNow
  <2> QED
    BY <2>1 DEF MarksAreLogged, Position
<1>10. PageIsWhole'
  <2>1. Link!LastRead(conn) \in Marks
    <3>1. conn.page \in SUBSET Ids /\ conn.page \subseteq rows /\ rows \subseteq Marks
      BY DEF MarksAreLogged, TypeOK, Conns, Link!Connections, Marks
    <3>2. conn.page # {} => Max(conn.page) \in conn.page
      BY <3>1, MaxIsGreatest, StreamAssumption DEF Ids
    <3> QED
      BY <1>9, <3>1, <3>2, SameMax DEF Link!LastRead
  <2>2. ~(i <= Link!LastRead(conn))
    BY <1>2, <2>1
  <2> QED
    BY <1>0, <2>2 DEF PageIsWhole
<1>11. \A k \in Marks : ~(i <= k) /\ ~(i < k)
  BY <1>2
<1>12. NoGaps'
  <2>1. SUFFICES ASSUME NEW t \in Tabs, IsOpen(t)
                 PROVE  /\ Unskipped(Known', tab[t])
                        /\ Sound(Known', tab[t], tab[t].inbox)
                        /\ Sound(Known', tab[t], Coming(t))
                        /\ Reads => \A j \in Known' : j <= Position \/ j \notin rows' => Has(tab[t], Coming(t), j)
    BY <1>0, <1>6 DEF NoGaps, IsOpen
  <2>2. /\ Unskipped(Known, tab[t])
        /\ Sound(Known, tab[t], tab[t].inbox)
        /\ Sound(Known, tab[t], Coming(t))
        /\ Reads => \A j \in Known : j <= Position \/ j \notin rows => Has(tab[t], Coming(t), j)
    BY <2>1 DEF NoGaps
  <2>3. Unskipped(Known', tab[t])
    BY <1>5, <1>9, <1>11, <2>2 DEF Unskipped
  <2>4. \A k \in 1..Len(Coming(t)) : Coming(t)[k].id \in Marks
    <3>1. /\ tab[t].inbox \in Seq(Frames) /\ Ahead \in Seq(Frames)
          /\ \A k \in 1..Len(Ahead) : Ahead[k].id \in Marks
      BY <1>9, SequencesNow
    <3>2. \A k \in 1..Len(tab[t].inbox \o Ahead) : (tab[t].inbox \o Ahead)[k].id \in Marks
      <4> DEFINE s == tab[t].inbox
      <4>1. s \in Seq(Frames) /\ \A k \in 1..Len(s) : s[k].id \in Marks
        BY <1>9, <3>1
      <4> HIDE DEF s
      <4>2. ASSUME NEW k \in 1..Len(s \o Ahead) PROVE (s \o Ahead)[k].id \in Marks
        <5>1. \/ k \in 1..Len(s) /\ (s \o Ahead)[k] = s[k]
              \/ k - Len(s) \in 1..Len(Ahead) /\ (s \o Ahead)[k] = Ahead[k - Len(s)]
          BY <3>1, <4>1
        <5> QED
          BY <3>1, <4>1, <5>1
      <4> QED
        BY <4>2 DEF s
    <3> QED
      BY <3>1, <3>2 DEF Coming
  <2>5. Sound(Known', tab[t], tab[t].inbox)
    BY <1>5, <1>9, <1>11, <2>2, Zenon DEF Sound
  <2>6. Sound(Known', tab[t], Coming(t))
    BY <1>5, <1>11, <2>2, <2>4, Zenon DEF Sound
  <2>7. ASSUME Reads, NEW j \in Known', j <= Position \/ j \notin rows' PROVE Has(tab[t], Coming(t), j)
    <3>1. j # i
      BY <1>0, <1>9, <1>11, <2>7
    <3>2. j \in Known /\ (j \notin rows' => j \notin rows)
      BY <1>0, <1>5, <3>1
    <3> QED
      BY <2>2, <2>7, <3>2
  <2> QED
    BY <2>3, <2>5, <2>6, <2>7
<1>13. Shared'
  <2>1. SUFFICES ASSUME NEW t \in Tabs, NEW u \in Tabs, IsOpen(t), IsOpen(u), NEW j \in Known',
                        j <= tab[u].seen \/ \E k \in DOMAIN tab[u].inbox : j <= tab[u].inbox[k].id
                 PROVE  Has(tab[t], tab[t].inbox, j)
    BY <1>0 DEF Shared, IsOpen
  <2>2. j # i
    <3>1. DOMAIN tab[u].inbox = 1..Len(tab[u].inbox)
      BY SequencesNow
    <3> QED
      BY <1>9, <1>11, <2>1, <3>1
  <2>3. j \in Known
    BY <1>5, <2>2
  <2> QED
    BY <2>1, <2>3 DEF Shared
<1>14. Rising'
  <2>1. ASSUME Reads, NEW j \in rows', Position < j PROVE source.lastId < j
    <3>1. source.lastId < i
      BY <1>2, <1>9
    <3> QED
      BY <1>0, <2>1, <3>1 DEF Rising
  <2> QED
    BY <1>0, <1>6, <2>1 DEF Rising
<1> QED
  BY <1>1, <1>3, <1>4, <1>7, <1>8, <1>10, <1>12, <1>13, <1>14

-----------------------------------------------------------------------------
(* What a step that changes only the connection must show.                 *)
LEMMA ConnectionOnlyPreserves ==
  ASSUME IInv, conn' \in Conns, ConnAgrees', PageIsWhole',
         UNCHANGED <<next, writing, logged, rows, opening, source, tab, queue, opens>>,
         cues' \subseteq cues, troubles' \in 0..MaxTurns,
         Begins(conn'.wire \o conn'.queue, conn.wire \o conn.queue),
         conn'.phase \in {conn.phase, "ended"},
         conn'.phase = "live" =>
           /\ conn'.wire \o conn'.queue = conn.wire \o conn.queue
           /\ conn'.cursor = conn.cursor,
         conn'.cursor \in {conn.cursor, 0}, conn'.page \subseteq rows
  PROVE  IInv'
<1> USE DEF IInv
<1>1. TypeOK'
  BY DEF TypeOK, Conns
<1>2. LogInOrder'
  BY DEF LogInOrder
<1>3. /\ conn.wire \o conn.queue \in Seq(Frames) /\ conn'.wire \o conn'.queue \in Seq(Frames)
      /\ opening.frames \in Seq(Frames)
  BY SequencesNow DEF Conns, Link!Connections
<1>4. Begins(Ahead', Ahead)
  <2>1. CASE opening.read
    <3>1. conn.phase = "opening" /\ conn'.phase = "opening" /\ conn.wire = <<>> /\ conn.queue = <<>>
          /\ conn'.wire = <<>> /\ conn'.queue = <<>>
      BY <2>1 DEF ConnAgrees
    <3>2. Ahead' = Ahead /\ Ahead \in Seq(Frames)
      BY <3>1, SequencesNow DEF Ahead
    <3> QED
      BY <3>2, BeginsItself
  <2>2. CASE ~opening.read
    <3>1. opening.frames = <<>>
      BY <2>2 DEF ConnAgrees
    <3>2. Ahead = conn.wire \o conn.queue /\ Ahead' = conn'.wire \o conn'.queue
      BY <1>3, <3>1 DEF Ahead
    <3> QED
      BY <3>2
  <2> QED
    BY <2>1, <2>2
<1>5. Reads' => Reads /\ Ahead' = Ahead /\ Position' = Position
  <2>1. CASE opening.read
    <3>1. conn.wire = <<>> /\ conn.queue = <<>> /\ conn'.wire = <<>> /\ conn'.queue = <<>>
      BY <2>1 DEF ConnAgrees
    <3> QED
      BY <2>1, <3>1 DEF Ahead, Reads, Position
  <2>2. CASE ~opening.read
    BY <2>2 DEF Ahead, Reads, Position
  <2> QED
    BY <2>1, <2>2
<1>6. /\ {conn'.cursor, opening'.last} \subseteq Marks
      /\ conn'.phase = "opening" =>
           source.after = IF source.lastId > 0 THEN source.lastId ELSE source.url
  BY DEF MarksAreLogged, LeaderAgrees, Marks
<1> QED
  BY <1>1, <1>2, <1>4, <1>5, <1>6, NothingNewPreserves

(* An announcement is a cue to read the log, or waits for the opening.     *)
LEMMA PublishCuePreserves == ASSUME IInv, NEW i \in Ids, PublishCue(i) PROVE IInv'
<1> USE DEF IInv
<1> DEFINE f == Numbered(i)
<1>0. /\ conn' = IF i \in Unknown THEN conn ELSE Link!LiveEvent(conn, f)
      /\ cues' \subseteq cues /\ troubles' \in 0..MaxTurns
      /\ UNCHANGED <<next, writing, logged, rows, opening, source, tab, queue, opens>>
  BY StreamAssumption DEF PublishCue, Trouble, browser, TypeOK
<1>1. f \in Cues /\ conn \in Conns
  BY IdsAreNumbers, SequencesNow DEF Cues, Frames, Numbered
<1> HIDE DEF f
<1>2. /\ conn' \in Conns
      /\ conn'.phase = conn.phase /\ conn'.wire = conn.wire /\ conn'.queue = conn.queue
      /\ conn'.slow = conn.slow /\ conn'.lossy = conn.lossy
      /\ conn'.cursor = conn.cursor /\ conn'.page = conn.page
      /\ conn'.reading = "idle" => conn.reading = "idle"
      /\ conn.phase # "live" => conn'.reading = conn.reading
      /\ \A k \in DOMAIN conn'.buffer : conn'.buffer[k].id # 0
  <2>1. \A k \in DOMAIN conn.buffer : conn.buffer[k].id # 0
    BY DEF ConnAgrees
  <2>2. CASE conn' = conn
    BY <1>1, <2>1, <2>2
  <2>3. CASE conn.phase = "opening" /\ conn' = [conn EXCEPT !.buffer = Append(@, f)]
    <3>1. conn.buffer \in Seq(Frames) /\ f \in Frames /\ f.id # 0
      BY <1>1 DEF Conns, Link!Connections, Cues
    <3>2. Append(conn.buffer, f) \in Seq(Frames)
          /\ \A k \in DOMAIN Append(conn.buffer, f) : Append(conn.buffer, f)[k].id # 0
      <4>1. /\ Append(conn.buffer, f) \in Seq(Frames)
            /\ Len(Append(conn.buffer, f)) = Len(conn.buffer) + 1 /\ Len(conn.buffer) \in Nat
            /\ \A k \in 1..Len(conn.buffer) : Append(conn.buffer, f)[k] = conn.buffer[k]
            /\ Append(conn.buffer, f)[Len(conn.buffer) + 1] = f
            /\ DOMAIN Append(conn.buffer, f) = 1..Len(conn.buffer) + 1
            /\ DOMAIN conn.buffer = 1..Len(conn.buffer)
        BY <3>1
      <4>2. ASSUME NEW k \in 1..Len(conn.buffer) + 1 PROVE Append(conn.buffer, f)[k].id # 0
        <5>1. k \in 1..Len(conn.buffer) \/ k = Len(conn.buffer) + 1
          BY <4>1
        <5> QED
          BY <2>1, <3>1, <4>1, <5>1
      <4> QED
        BY <4>1, <4>2
    <3> QED
      BY <1>1, <2>3, <3>2 DEF Conns, Link!Connections
  <2>4. CASE conn.phase = "live" /\ conn' = Link!Take(conn, f)
    <3>1. conn \in LiveConns
      BY <1>1, <2>4 DEF LiveConns
    <3>2. conn' \in LiveConns /\ Stays(conn, conn')
      BY <1>1, <2>4, <3>1, TakeCues
    <3> QED
      BY <2>1, <2>4, <3>2 DEF LiveConns, Stays, Keeps
  <2> QED
    BY <1>0, <2>2, <2>3, <2>4 DEF Link!LiveEvent
<1>3. ConnAgrees'
  BY <1>0, <1>2 DEF ConnAgrees
<1>4. PageIsWhole'
  BY <1>0, <1>2 DEF PageIsWhole, Link!LastRead
<1>5. conn'.page \subseteq rows
  BY <1>2 DEF MarksAreLogged
<1>6. Begins(conn'.wire \o conn'.queue, conn.wire \o conn.queue)
  <2>1. conn.wire \o conn.queue \in Seq(Frames)
    BY SequencesNow
  <2> QED
    BY <1>2, <2>1, BeginsItself
<1> QED
  BY <1>0, <1>2, <1>3, <1>4, <1>5, <1>6, ConnectionOnlyPreserves

(* A stream that ends keeps what it had written on its way.                *)
LEMMA EndingPreserves ==
  ASSUME IInv, conn.phase = "live", conn' = Link!Ended(conn), troubles' \in 0..MaxTurns,
         UNCHANGED <<server, opening, source, browser>>
  PROVE  IInv'
<1> USE DEF IInv
<1>1. conn' \in Conns
  BY EndedType, SequencesNow
<1>2. /\ conn'.phase = "ended" /\ conn'.wire = conn.wire /\ conn'.queue = <<>> /\ conn'.lossy = <<>>
      /\ conn'.reading = "idle" /\ conn'.page = {} /\ conn'.buffer = <<>> /\ conn'.cursor = 0
  BY DEF Link!Ended, Link!Closed
<1>3. ConnAgrees'
  <2>1. \A k \in DOMAIN conn'.buffer : conn'.buffer[k].id # 0
    BY <1>2
  <2> QED
    BY <1>2, <2>1 DEF ConnAgrees
<1>4. PageIsWhole'
  <2>1. rows \in SUBSET Ids /\ rows' = rows
    BY SequencesNow DEF server
  <2>2. Link!LastRead(conn') = 0
    BY <1>2 DEF Link!LastRead
  <2>3. \A j \in rows : ~(0 < j /\ j <= 0)
    BY <2>1, IdsAreNumbers
  <2> QED
    BY <1>2, <2>1, <2>2, <2>3 DEF PageIsWhole
<1>5. Begins(conn'.wire \o conn'.queue, conn.wire \o conn.queue)
  <2>1. conn.wire \in Seq(Frames) /\ conn.queue \in Seq(Frames)
    BY SequencesNow
  <2>2. conn.wire \o <<>> = conn.wire
    BY <2>1
  <2> QED
    BY <1>2, <2>1, <2>2 DEF Begins
<1> QED
  BY <1>1, <1>2, <1>3, <1>4, <1>5, ConnectionOnlyPreserves DEF server, browser

(* The idle timer, and a log that cannot be read.                          *)
LEMMA RetirePreserves == ASSUME IInv, Retire PROVE IInv'
<1>1. conn.phase = "live" /\ troubles' \in 0..MaxTurns
  BY DEF Retire, IInv, TypeOK
<1> QED
  BY <1>1, EndingPreserves DEF Retire

(* A read of the log that fails ends the connection.                       *)
LEMMA ReadFailsPreserves == ASSUME IInv, ReadFails PROVE IInv'
<1>1. conn.phase = "live"
  BY DEF ReadFails, IInv, ConnAgrees
<1>2. troubles' \in 0..MaxTurns
  BY StreamAssumption DEF ReadFails, Trouble, IInv, TypeOK
<1> QED
  BY <1>1, <1>2, EndingPreserves DEF ReadFails

(* A page begins where the one before it ended.                            *)
LEMMA ReadPagePreserves == ASSUME IInv, ReadPage PROVE IInv'
<1> USE DEF IInv
<1> DEFINE last == Link!LastRead(conn)
           found == RowsFrom(last + 1, ReplayLimit)
           full == (Cardinality(found) = ReplayLimit)
<1>0. /\ conn.reading = "asking" /\ conn.phase = "live"
      /\ conn' = Link!Answered(conn, found, full)
      /\ UNCHANGED <<server, opening, source, browser, troubles>>
  BY DEF ReadPage, ConnAgrees
<1>1. /\ conn \in Conns /\ rows \in SUBSET Ids /\ rows' = rows /\ full \in BOOLEAN
      /\ conn.page = {j \in rows : conn.cursor < j /\ j <= last}
      /\ conn.page \in SUBSET Ids /\ conn.cursor \in Nat
  BY <1>0, SequencesNow, IdsAreNumbers DEF server, PageIsWhole, Conns, Link!Connections
<1> HIDE DEF full
<1>2. ASSUME NEW T \in SUBSET Ids, T # {} PROVE Max(T) \in T /\ (\A j \in T : j <= Max(T)) /\ Max(T) \in Nat
  BY <1>2, MaxIsGreatest, StreamAssumption, IdsAreNumbers DEF Ids
<1>3. last \in Nat /\ conn.cursor <= last
  <2>1. CASE conn.page = {}
    BY <1>1, <2>1 DEF Link!LastRead
  <2>2. CASE conn.page # {}
    <3>1. last = Max(conn.page)
      BY <2>2, SameMax DEF Link!LastRead
    <3>2. Max(conn.page) \in conn.page /\ Max(conn.page) \in Nat
      BY <1>1, <1>2, <2>2
    <3>3. \A j \in conn.page : j \in rows /\ conn.cursor < j /\ j \in Nat
      BY <1>1, IdsAreNumbers
    <3>4. conn.cursor \in Nat
      BY <1>1
    <3> HIDE DEF last
    <3> QED
      BY <3>1, <3>2, <3>3, <3>4
  <2> QED
    BY <2>1, <2>2
<1>4. /\ found \subseteq rows
      /\ \A j \in found : last + 1 <= j
      /\ \A j \in rows : \A k \in found : last + 1 <= j /\ j <= k => j \in found
  BY <1>1, <1>3, RowsInOrder, StreamAssumption
<1> HIDE DEF last, found
<1>5. conn' = [conn EXCEPT !.reading = "answered", !.page = @ \cup found, !.more = full]
  BY <1>0 DEF Link!Answered
<1>6. /\ conn' \in Conns
      /\ conn'.phase = "live" /\ conn'.wire = conn.wire /\ conn'.queue = conn.queue
      /\ conn'.slow = conn.slow /\ conn'.lossy = conn.lossy /\ conn'.buffer = conn.buffer
      /\ conn'.cursor = conn.cursor /\ conn'.reading = "answered"
      /\ conn'.page = conn.page \cup found
  BY <1>0, <1>1, <1>4, <1>5, Zenon DEF Conns, Link!Connections, Link!ReadStates
<1>7. ConnAgrees'
  BY <1>0, <1>6 DEF ConnAgrees
<1>8. PageIsWhole'
  <2> DEFINE pages == conn.page \cup found
             until == Link!LastRead(conn')
  <2>1. CASE found = {}
    <3>1. conn'.page = conn.page /\ until = last
      BY <1>6, <2>1 DEF Link!LastRead, last
    <3> QED
      BY <1>1, <1>6, <3>1 DEF PageIsWhole
  <2>2. CASE found # {}
    <3>1. pages \in SUBSET Ids /\ pages # {} /\ until = Max(pages)
      BY <1>1, <1>4, <1>6, <2>2, SameMax DEF Link!LastRead
    <3>2. until \in pages /\ (\A j \in pages : j <= until) /\ until \in Nat
      BY <1>2, <3>1
    <3>3. \A j \in rows : j \in Nat
      BY <1>1, IdsAreNumbers
    <3> HIDE DEF until
    <3>4. until \in found
      <4>1. PICK k \in found : k <= until /\ last + 1 <= k /\ k \in Nat
        BY <1>4, <2>2, <3>2, <3>3
      <4>2. until \notin conn.page
        BY <1>1, <1>3, <3>2, <4>1
      <4> QED
        BY <3>2, <4>2
    <3>5. ASSUME NEW j \in pages PROVE j \in rows /\ conn.cursor < j /\ j <= until
      <4>1. j \in rows /\ j \in Nat /\ j <= until
        BY <1>1, <1>4, <3>2, <3>3
      <4>2. j \in found => conn.cursor < j
        BY <1>1, <1>3, <1>4, <4>1
      <4> QED
        BY <1>1, <4>1, <4>2
    <3>6. ASSUME NEW j \in rows, conn.cursor < j, j <= until PROVE j \in pages
      <4>1. CASE j <= last
        BY <1>1, <3>6, <4>1
      <4>2. CASE ~(j <= last)
        <5>1. last + 1 <= j
          BY <1>3, <3>3, <4>2
        <5> QED
          BY <1>4, <3>4, <3>6, <5>1
      <4> QED
        BY <4>1, <4>2
    <3> HIDE DEF pages
    <3>7. pages = {j \in rows : conn.cursor < j /\ j <= until}
      BY <3>5, <3>6
    <3> QED
      BY <1>1, <1>6, <3>7 DEF PageIsWhole, pages, until
  <2> QED
    BY <2>1, <2>2
<1>9. conn'.page \subseteq rows
  BY <1>1, <1>4, <1>6
<1>10. Begins(conn'.wire \o conn'.queue, conn.wire \o conn.queue)
  <2>1. conn.wire \o conn.queue \in Seq(Frames)
    BY SequencesNow
  <2> QED
    BY <1>6, <2>1, BeginsItself
<1>11. cues' \subseteq cues /\ troubles' \in 0..MaxTurns
  BY <1>0 DEF server, TypeOK
<1> QED
  BY <1>0, <1>6, <1>7, <1>8, <1>9, <1>10, <1>11, ConnectionOnlyPreserves DEF server, browser

(* Two halves of a sequence of frames.                                     *)
LEMMA SplitAt ==
  ASSUME NEW q \in Seq(Frames), NEW n \in 0..Len(q)
  PROVE  q = SubSeq(q, 1, n) \o SubSeq(q, n + 1, Len(q))
  BY Halves

(* The socket takes what waited, from the front.                           *)
LEMMA DrainPreserves == ASSUME IInv, Drain PROVE IInv'
<1> USE DEF IInv
<1> DEFINE open == [conn EXCEPT !.slow = FALSE, !.lossy = <<>>]
           flushed == Link!AllWritten(open, conn.lossy)
           room == IF flushed.slow THEN 0 ELSE WireLimit - Len(flushed.wire)
           n == IF room < Len(conn.queue) THEN room ELSE Len(conn.queue)
           kept == [flushed EXCEPT !.queue = SubSeq(@, n + 1, Len(@))]
           front == SubSeq(conn.queue, 1, n)
<1>0. /\ conn.phase = "live" /\ conn.wire = <<>> /\ conn.lossy = <<>>
      /\ conn' = Link!Drained(conn)
      /\ UNCHANGED <<server, opening, source, browser, troubles>>
  BY DEF Drain, ConnAgrees
<1>1. conn' = Link!AllWritten(kept, front)
  BY <1>0 DEF Link!Drained
<1>2. /\ open \in Conns /\ Keeps(conn, open) /\ open.wire = <<>> /\ open.queue = conn.queue
      /\ open.reading = conn.reading /\ conn.queue \in Seq(Frames)
  BY <1>0, SequencesNow DEF Conns, Link!Connections, Keeps
<1> HIDE DEF open
<1>3. /\ flushed \in Conns /\ Keeps(conn, flushed) /\ flushed.wire = <<>>
      /\ flushed.queue = conn.queue /\ flushed.reading = conn.reading /\ flushed.slow \in BOOLEAN
  <2>1. <<>> \in Seq(Frames)
    OBVIOUS
  <2>2. flushed \in Conns /\ Sends(open, flushed, <<>>)
    BY <1>0, <1>2, <2>1, AllWrittenSends
  <2> HIDE DEF flushed
  <2>3. <<>> \o <<>> = <<>>
    OBVIOUS
  <2> QED
    BY <1>2, <2>2, <2>3 DEF Sends, Keeps, Conns, Link!Connections
<1> HIDE DEF flushed
<1>4. /\ n \in 0..Len(conn.queue)
      /\ n # Len(conn.queue) => flushed.slow \/ (n >= WireLimit /\ n > 0)
  <2>1. Len(conn.queue) \in Nat /\ Len(<<>>) = 0 /\ WireLimit \in Nat \ {0}
    BY <1>2, StreamAssumption
  <2>2. flushed.slow => room = 0
    OBVIOUS
  <2>3. ~flushed.slow => room = WireLimit
    BY <1>3, <2>1
  <2>4. room \in Nat
    BY <1>3, <2>1, <2>2, <2>3
  <2> HIDE DEF room
  <2> QED
    BY <1>3, <2>1, <2>2, <2>3, <2>4
<1> HIDE DEF n
<1>5. /\ front \in Seq(Frames) /\ Len(front) = n
      /\ SubSeq(conn.queue, n + 1, Len(conn.queue)) \in Seq(Frames)
      /\ conn.queue = front \o SubSeq(conn.queue, n + 1, Len(conn.queue))
      /\ n = Len(conn.queue) => SubSeq(conn.queue, n + 1, Len(conn.queue)) = <<>>
  <2> DEFINE q == conn.queue
  <2>1. q \in Seq(Frames) /\ n \in 0..Len(q)
    BY <1>2, <1>4
  <2> HIDE DEF q
  <2>2. SubSeq(q, 1, n) \in Seq(Frames) /\ Len(SubSeq(q, 1, n)) = n
    BY <2>1
  <2>3. SubSeq(q, n + 1, Len(q)) \in Seq(Frames) /\ (n = Len(q) => SubSeq(q, n + 1, Len(q)) = <<>>)
    BY <2>1
  <2>4. q = SubSeq(q, 1, n) \o SubSeq(q, n + 1, Len(q))
    BY <2>1, SplitAt
  <2> QED
    BY <2>2, <2>3, <2>4 DEF q
<1>6. /\ kept \in Conns /\ Keeps(conn, kept) /\ kept.wire = <<>> /\ kept.reading = conn.reading
      /\ kept.slow = flushed.slow /\ kept.queue = SubSeq(conn.queue, n + 1, Len(conn.queue))
  BY <1>3, <1>5 DEF Conns, Link!Connections, Keeps
<1> HIDE DEF kept, front
<1>7. conn' \in Conns /\ Sends(kept, conn', front)
  BY <1>1, <1>5, <1>6, AllWrittenSends
<1>8. /\ Keeps(conn, conn') /\ conn'.reading = conn.reading
      /\ conn'.wire = front /\ conn'.queue = SubSeq(conn.queue, n + 1, Len(conn.queue))
      /\ kept.slow \/ (front # <<>> /\ Len(conn'.wire) >= WireLimit) => conn'.slow
  <2>1. <<>> \o front = front
    BY <1>5
  <2> QED
    BY <1>6, <1>7, <2>1 DEF Sends, Keeps
<1>9. conn'.wire \o conn'.queue = conn.wire \o conn.queue
  <2>1. <<>> \o conn.queue = conn.queue
    BY <1>2
  <2> QED
    BY <1>0, <1>5, <1>8, <2>1
<1>10. ~conn'.slow => conn'.queue = <<>>
  <2>1. SUFFICES ASSUME n # Len(conn.queue) PROVE conn'.slow
    BY <1>5, <1>8
  <2>2. front # <<>> \/ n = 0
    BY <1>5
  <2> QED
    BY <1>4, <1>5, <1>6, <1>8, <2>1, <2>2
<1>11. ConnAgrees'
  BY <1>0, <1>8, <1>10 DEF ConnAgrees, Keeps
<1>12. PageIsWhole'
  BY <1>0, <1>8 DEF PageIsWhole, Link!LastRead, Keeps, server
<1>13. Begins(conn'.wire \o conn'.queue, conn.wire \o conn.queue)
  <2>1. conn.wire \o conn.queue \in Seq(Frames)
    BY SequencesNow
  <2> QED
    BY <1>9, <2>1, BeginsItself
<1>14. cues' \subseteq cues /\ troubles' \in 0..MaxTurns /\ conn'.page \subseteq rows
  BY <1>0, <1>8 DEF server, TypeOK, Keeps, MarksAreLogged
<1> QED
  BY <1>0, <1>7, <1>8, <1>9, <1>11, <1>12, <1>13, <1>14, ConnectionOnlyPreserves DEF server, browser, Keeps

(* A connection that is closed, or just registered, has nothing under way. *)
LEMMA ClearedPreserves ==
  ASSUME IInv, conn' \in {Link!Closed, Link!Registered},
         opening' \in Openings, ~opening'.read, opening'.frames = <<>>, opening'.last \in Marks,
         source' \in Sources,
         conn'.phase = "closed" <=> source'.state # "connected",
         source'.state = "none" => source' = NoSource,
         source'.state # "none" => source.state # "none",
         source'.lastId \in {source.lastId, 0}, source'.url \in {source.url, 0},
         source'.after \in {source.after, source.lastId, source.url, 0},
         conn'.phase = "opening" =>
           source'.after = IF source'.lastId > 0 THEN source'.lastId ELSE source'.url,
         UNCHANGED <<server, browser>>, troubles' \in 0..MaxTurns
  PROVE  IInv'
<1> USE DEF IInv
<1>1. /\ conn' \in Conns /\ conn'.phase \in {"closed", "opening"}
      /\ conn'.wire = <<>> /\ conn'.queue = <<>> /\ conn'.lossy = <<>> /\ conn'.buffer = <<>>
      /\ conn'.reading = "idle" /\ conn'.page = {} /\ conn'.cursor = 0
  <2>1. conn' \in Conns
    BY EndedType
  <2> QED
    BY <2>1 DEF Link!Closed, Link!Registered
<1>2. TypeOK'
  BY <1>1 DEF TypeOK, server, browser, Conns
<1>3. LogInOrder'
  BY DEF LogInOrder, server
<1>4. ConnAgrees'
  <2>1. \A k \in DOMAIN conn'.buffer : conn'.buffer[k].id # 0
    BY <1>1
  <2> QED
    BY <1>1, <2>1 DEF ConnAgrees
<1>5. PageIsWhole'
  <2>1. rows \in SUBSET Ids /\ rows' = rows
    BY SequencesNow DEF server
  <2>2. Link!LastRead(conn') = 0
    BY <1>1 DEF Link!LastRead
  <2>3. \A j \in rows : ~(0 < j /\ j <= 0)
    BY <2>1, IdsAreNumbers
  <2> QED
    BY <1>1, <2>1, <2>2, <2>3 DEF PageIsWhole
<1>6. Begins(Ahead', Ahead)
  <2>1. Ahead' = <<>>
    <3>1. <<>> \o <<>> \o <<>> = <<>>
      OBVIOUS
    <3> QED
      BY <1>1, <3>1 DEF Ahead
  <2> QED
    BY <2>1, SequencesNow, BeginsItself
<1>7. ~Reads'
  BY <1>1 DEF Reads
<1>8. {conn'.cursor, opening'.last} \subseteq Marks /\ conn'.page \subseteq rows
  BY <1>1 DEF Marks
<1> QED
  BY <1>2, <1>3, <1>4, <1>5, <1>6, <1>7, <1>8, NothingNewPreserves DEF server, browser

(* What closed and registered connections look like, and an unread opening. *)
LEMMA Blank ==
  /\ Link!Closed.phase = "closed" /\ Link!Registered.phase = "opening"
  /\ NotRead \in Openings /\ ~NotRead.read /\ NotRead.frames = <<>> /\ NotRead.last = 0
  /\ NoSource \in Sources /\ NoSource.state = "none"
  /\ NoSource.lastId = 0 /\ NoSource.url = 0 /\ NoSource.after = 0
  BY DEF Link!Closed, Link!Registered, NotRead, Openings, NoSource, Sources

(* The request arrives.                                                    *)
LEMMA ConnectPreserves == ASSUME IInv, Connect PROVE IInv'
<1> USE DEF IInv
<1>1. /\ source.state = "waiting" /\ conn' = Link!Registered
      /\ source' = [source EXCEPT !.state = "connected",
                                  !.after = IF source.lastId > 0 THEN source.lastId ELSE source.url]
      /\ UNCHANGED <<server, opening, browser, troubles>>
  BY DEF Connect
<1>2. source \in Sources /\ opening \in Openings /\ troubles' \in 0..MaxTurns /\ opening.last \in Marks
  BY <1>1 DEF TypeOK, MarksAreLogged
<1>3. ~opening.read /\ opening.frames = <<>>
  BY <1>1 DEF ConnAgrees
<1>4. /\ source' \in Sources /\ source'.state = "connected"
      /\ source'.lastId = source.lastId /\ source'.url = source.url
      /\ source'.after = IF source.lastId > 0 THEN source.lastId ELSE source.url
  BY <1>1, <1>2 DEF Sources
<1> QED
  BY <1>1, <1>2, <1>3, <1>4, ClearedPreserves, Blank

(* The opening fails, the link breaks, the browser comes back.             *)
LEMMA OpeningFailsPreserves == ASSUME IInv, OpeningFails PROVE IInv'
<1>1. /\ conn' = Link!Closed /\ opening' = NotRead /\ source' = NoSource
      /\ UNCHANGED <<server, browser>> /\ troubles' \in 0..MaxTurns
  BY StreamAssumption DEF OpeningFails, Trouble, IInv, TypeOK
<1> QED
  BY <1>1, ClearedPreserves, Blank DEF Marks

(* A link that breaks takes what was on the way with it.                   *)
LEMMA BreakPreserves == ASSUME IInv, Break PROVE IInv'
<1>1. /\ conn' = Link!Closed /\ opening' = NotRead
      /\ source' = NoSource \/ source' = [source EXCEPT !.state = "waiting"]
      /\ source.state = "connected" /\ source \in Sources
      /\ UNCHANGED <<server, browser>> /\ troubles' \in 0..MaxTurns
  BY StreamAssumption DEF Break, Trouble, IInv, TypeOK
<1>2. CASE source' = NoSource
  BY <1>1, <1>2, ClearedPreserves, Blank DEF Marks
<1>3. CASE source' = [source EXCEPT !.state = "waiting"]
  <2>1. /\ source' \in Sources /\ source'.state = "waiting"
        /\ source'.lastId = source.lastId /\ source'.url = source.url /\ source'.after = source.after
    BY <1>1, <1>3 DEF Sources
  <2> QED
    BY <1>1, <2>1, ClearedPreserves, Blank DEF Marks
<1> QED
  BY <1>1, <1>2, <1>3

(* The browser comes back with the last number it was given.               *)
LEMMA ComeBackPreserves == ASSUME IInv, ComeBack PROVE IInv'
<1>1. /\ conn.phase = "ended" /\ conn' = Link!Closed
      /\ source' = [source EXCEPT !.state = "waiting"]
      /\ source \in Sources /\ opening \in Openings /\ opening.last \in Marks
      /\ UNCHANGED <<server, opening, browser>> /\ troubles' \in 0..MaxTurns
  BY DEF ComeBack, IInv, TypeOK, MarksAreLogged
<1>2. ~opening.read /\ opening.frames = <<>> /\ source.state = "connected"
  BY <1>1 DEF IInv, ConnAgrees
<1>3. /\ source' \in Sources /\ source'.state = "waiting"
      /\ source'.lastId = source.lastId /\ source'.url = source.url /\ source'.after = source.after
  BY <1>1 DEF Sources
<1> QED
  BY <1>1, <1>2, <1>3, ClearedPreserves, Blank

(* A full page asks for the next one.                                      *)
LEMMA AsksOnPreserves ==
  ASSUME IInv, conn.reading # "idle", conn' = Link!AsksOn(conn),
         UNCHANGED <<server, opening, source, browser, troubles>>
  PROVE  IInv'
<1> USE DEF IInv
<1>1. conn \in Conns /\ conn.phase = "live"
  BY SequencesNow DEF ConnAgrees
<1>2. /\ conn' \in Conns
      /\ conn'.phase = "live" /\ conn'.wire = conn.wire /\ conn'.queue = conn.queue
      /\ conn'.slow = conn.slow /\ conn'.lossy = conn.lossy /\ conn'.buffer = conn.buffer
      /\ conn'.cursor = conn.cursor /\ conn'.reading = "asking" /\ conn'.page = conn.page
  BY <1>1 DEF Link!AsksOn, Conns, Link!Connections, Link!ReadStates
<1>3. ConnAgrees'
  BY <1>1, <1>2 DEF ConnAgrees
<1>4. PageIsWhole'
  BY <1>2 DEF PageIsWhole, Link!LastRead, server
<1>5. Begins(conn'.wire \o conn'.queue, conn.wire \o conn.queue)
  <2>1. conn.wire \o conn.queue \in Seq(Frames)
    BY SequencesNow
  <2> QED
    BY <1>2, <2>1, BeginsItself
<1>6. cues' \subseteq cues /\ troubles' \in 0..MaxTurns /\ conn'.page \subseteq rows
  BY <1>2 DEF server, TypeOK, MarksAreLogged
<1> QED
  BY <1>1, <1>2, <1>3, <1>4, <1>5, <1>6, ConnectionOnlyPreserves DEF server, browser

(* The opening goes on its way as it was read.                             *)
LEMMA GoLivePreserves == ASSUME IInv, GoLive PROVE IInv'
<1> USE DEF IInv
<1> DEFINE opened == Link!AllWritten(conn, opening.frames)
           live == [opened EXCEPT !.phase = "live", !.cursor = opening.last, !.buffer = <<>>]
<1>0. /\ conn.phase = "opening" /\ opening.read
      /\ conn' = Link!AllTaken(live, conn.buffer)
      /\ opening' = NotRead /\ source' = [source EXCEPT !.after = 0]
      /\ UNCHANGED <<server, browser, troubles>>
  BY DEF GoLive, Link!WentLive
<1>1. /\ conn \in Conns /\ opening.frames \in Seq(Frames) /\ opening.last \in Ids \cup {0}
      /\ conn.wire = <<>> /\ conn.queue = <<>> /\ conn.lossy = <<>> /\ conn.page = {}
      /\ source \in Sources /\ source.state = "connected"
  BY <1>0, SequencesNow DEF ConnAgrees, TypeOK, Openings
<1>2. opened \in Conns /\ Sends(conn, opened, opening.frames)
  BY <1>1, AllWrittenSends
<1> HIDE DEF opened
<1>3. /\ live \in LiveConns /\ live.wire = opening.frames /\ live.queue = <<>> /\ live.lossy = <<>>
      /\ live.page = {} /\ live.cursor = opening.last /\ live.buffer = <<>>
  <2>1. <<>> \o opening.frames = opening.frames
    BY <1>1
  <2>2. live \in Conns /\ live.phase = "live"
    BY <1>1, <1>2 DEF Conns, Link!Connections, Link!Phases
  <2>3. /\ live.wire = opened.wire /\ live.queue = opened.queue /\ live.lossy = opened.lossy
        /\ live.page = opened.page /\ live.cursor = opening.last /\ live.buffer = <<>>
    BY <1>2 DEF Conns, Link!Connections
  <2> HIDE DEF live
  <2> QED
    BY <1>1, <1>2, <2>1, <2>2, <2>3 DEF Sends, Keeps, LiveConns
<1> HIDE DEF live
<1>4. conn.buffer \in Seq(Cues)
  <2>1. conn.buffer \in Seq(Frames) /\ \A k \in 1..Len(conn.buffer) : conn.buffer[k].id # 0
    BY <1>1 DEF Conns, Link!Connections, ConnAgrees
  <2>2. \A k \in 1..Len(conn.buffer) : conn.buffer[k] \in Cues
    BY <2>1 DEF Cues
  <2> QED
    BY <2>1, <2>2
<1>5. conn' \in LiveConns /\ Stays(live, conn')
  BY <1>0, <1>3, <1>4, AllTakenStays
<1>6. /\ conn' \in Conns /\ conn'.phase = "live"
      /\ conn'.wire = opening.frames /\ conn'.queue = <<>> /\ conn'.lossy = <<>>
      /\ conn'.page = {} /\ conn'.cursor = opening.last /\ conn'.buffer = <<>>
  BY <1>3, <1>5 DEF LiveConns, Stays, Keeps
<1>7. /\ source' \in Sources /\ source'.state = "connected"
      /\ source'.lastId = source.lastId /\ source'.url = source.url /\ source'.after = 0
  BY <1>0, <1>1 DEF Sources
<1>8. TypeOK'
  BY <1>0, <1>6, <1>7, Blank DEF TypeOK, server, browser, Conns
<1>9. LogInOrder'
  BY <1>0 DEF LogInOrder, server
<1>10. ConnAgrees'
  <2>1. \A k \in DOMAIN conn'.buffer : conn'.buffer[k].id # 0
    BY <1>6
  <2> QED
    BY <1>0, <1>6, <1>7, <2>1, Blank DEF ConnAgrees
<1>11. PageIsWhole'
  <2>1. rows \in SUBSET Ids /\ rows' = rows
    BY <1>0, SequencesNow DEF server
  <2>2. Link!LastRead(conn') = opening.last /\ opening.last \in Nat
    BY <1>1, <1>6, IdsAreNumbers DEF Link!LastRead
  <2>3. \A j \in rows : ~(opening.last < j /\ j <= opening.last)
    BY <2>1, <2>2, IdsAreNumbers
  <2> QED
    BY <1>6, <2>1, <2>2, <2>3 DEF PageIsWhole
<1>12. Ahead' = Ahead /\ Ahead \in Seq(Frames)
  <2>1. <<>> \o <<>> \o opening.frames = opening.frames \o <<>> \o <<>>
    BY <1>1
  <2> QED
    BY <1>0, <1>1, <1>6, <2>1, Blank, SequencesNow DEF Ahead
<1>13. Reads' => Reads /\ Ahead' = Ahead /\ Position' = Position
  BY <1>0, <1>6, <1>12, Blank DEF Reads, Position
<1>14. {conn'.cursor, opening'.last} \subseteq Marks /\ conn'.page \subseteq rows
  BY <1>0, <1>6, Blank DEF Marks, MarksAreLogged
<1>15. Begins(Ahead', Ahead)
  BY <1>12, BeginsItself
<1> QED
  BY <1>0, <1>1, <1>6, <1>7, <1>8, <1>9, <1>10, <1>11, <1>13, <1>14, <1>15, NothingNewPreserves DEF server, browser

(* Rows go while nobody is about to read them.                             *)
LEMMA PrunePreserves == ASSUME IInv, Prune PROVE IInv'
<1> USE DEF IInv
<1>0. PICK i \in rows :
        /\ \/ conn.phase \in {"closed", "ended"}
           \/ conn.phase = "live" /\ conn.reading = "idle" /\ conn.cursor >= i
        /\ rows' = {j \in rows : j > i}
        /\ UNCHANGED <<next, writing, logged, cues, conn, opening, source, tab, queue, opens>>
        /\ troubles' \in 0..MaxTurns
  BY StreamAssumption DEF Prune, Trouble, stream, browser, TypeOK
<1>1. /\ rows \in SUBSET Ids /\ logged \in SUBSET Ids /\ i \in Nat
      /\ \A j \in rows : j \in Nat
      /\ \A j \in logged : j \in Nat
  BY SequencesNow, IdsAreNumbers
<1>2. TypeOK'
  BY <1>0 DEF TypeOK
<1>3. LogInOrder'
  BY <1>0, <1>1 DEF LogInOrder
<1>4. /\ ConnAgrees' /\ LeaderAgrees'
      /\ conn.reading = "idle" /\ conn.page = {}
  BY <1>0 DEF ConnAgrees, LeaderAgrees
<1>5. Known' = Known /\ Marks' = Marks
  BY <1>0 DEF Known, Marks
<1>6. Ahead' = Ahead /\ (Reads' <=> Reads) /\ Position' = Position /\ \A t \in Tabs : Coming(t)' = Coming(t)
  BY <1>0 DEF Ahead, Reads, Position, Coming
<1>7. MarksAreLogged'
  BY <1>0, <1>4, <1>5, <1>6 DEF MarksAreLogged
<1>8. PageIsWhole'
  <2>1. Link!LastRead(conn) = conn.cursor /\ conn.cursor \in Nat
    BY <1>4, IdsAreNumbers, SequencesNow DEF Link!LastRead, Conns, Link!Connections
  <2>2. \A j \in rows' : ~(conn.cursor < j /\ j <= conn.cursor)
    BY <1>0, <1>1, <2>1
  <2> QED
    BY <1>0, <1>4, <2>1, <2>2 DEF PageIsWhole
<1>9. Shared'
  BY <1>0, <1>5 DEF Shared, IsOpen
<1>10. Rising'
  BY <1>0, <1>6 DEF Rising
<1>11. Reads => Position = conn.cursor /\ i <= conn.cursor /\ conn.cursor \in Nat
  <2>1. conn.cursor \in Nat
    BY IdsAreNumbers, SequencesNow DEF Conns, Link!Connections
  <2> QED
    BY <1>0, <1>1, <2>1 DEF Reads, Position, ConnAgrees
<1>12. NoGaps'
  <2>1. SUFFICES ASSUME NEW t \in Tabs, IsOpen(t), Reads, NEW j \in Known, j <= Position \/ j \notin rows'
                 PROVE  Has(tab[t], Coming(t), j)
    BY <1>0, <1>5, <1>6 DEF NoGaps, IsOpen
  <2>2. j <= Position \/ j \notin rows
    <3>1. SUFFICES ASSUME j \in rows, j \notin rows' PROVE j <= Position
      BY <2>1
    <3>2. j \in Nat /\ ~(j > i)
      BY <1>0, <1>1, <3>1
    <3>3. j <= i
      BY <1>1, <3>2
    <3>4. Position \in Nat /\ i <= Position
      BY <1>11, <2>1
    <3> QED
      BY <1>1, <3>2, <3>3, <3>4
  <2> QED
    BY <2>1, <2>2 DEF NoGaps
<1> QED
  BY <1>2, <1>3, <1>4, <1>7, <1>8, <1>9, <1>10, <1>12

-----------------------------------------------------------------------------
(* The first of two sequences put behind one another.                      *)
LEMMA FrontOf ==
  ASSUME NEW s \in Seq(Frames), NEW u \in Seq(Frames)
  PROVE  /\ Len(s) \in Nat /\ Len(s) <= Len(s \o u)
         /\ \A k \in 1..Len(s) : (s \o u)[k] = s[k]
  OBVIOUS

(* What is put behind the frames that are ahead: below each of its numbers *)
(* nothing is left out, its numbers rise, with it everything that will not *)
(* be read any more, up to p, is on its way, and nothing goes beyond p.    *)
Continues(u) ==
  \A t \in Tabs : IsOpen(t) =>
    \A k \in 1..Len(u) : \A j \in Known :
      j < u[k].id => Has(tab[t], Coming(t), j) \/ \E m \in 1..k - 1 : u[m].id = j

RisesOn(u) ==
  \A k \in 1..Len(u) :
    /\ u[k].id \in Marks
    /\ u[k].id # 0 =>
         /\ source.lastId < u[k].id
         /\ \A m \in 1..k - 1 : u[m].id < u[k].id
         /\ \A m \in 1..Len(Ahead) : Ahead[m].id < u[k].id

BringsUpTo(u, p) ==
  \A t \in Tabs : IsOpen(t) =>
    \A j \in Known : j <= p \/ j \notin rows =>
      Has(tab[t], Coming(t), j) \/ \E m \in 1..Len(u) : Brings(u[m], j)

StopsAt(u, p) ==
  /\ \A k \in 1..Len(u) : u[k].id <= p
  /\ \A m \in 1..Len(Ahead) : Ahead[m].id <= p
  /\ \A j \in rows : p < j => source.lastId < j

(* Frames put behind those that are ahead leave no gap.                    *)
LEMMA GrowingLeavesNoGaps ==
  ASSUME IInv, TypeOK', UNCHANGED <<logged, rows, tab>>,
         NEW u \in Seq(Frames), Begins(Ahead', Ahead \o u), Continues(u),
         Reads' => Ahead' = Ahead \o u /\ BringsUpTo(u, Position')
  PROVE  NoGaps'
<1> USE DEF IInv
<1>0. PICK rest \in Seq(Frames) : Ahead \o u = Ahead' \o rest
  BY DEF Begins
<1>1. /\ Ahead \in Seq(Frames) /\ Known \in SUBSET Ids /\ Known' = Known
      /\ \A t \in Tabs : tab[t] \in TabRecords /\ tab[t].inbox \in Seq(Frames)
      /\ \A t \in Tabs : Coming(t) \in Seq(Frames) /\ Coming(t)' \in Seq(Frames)
      /\ Ahead' \in Seq(Frames)
  BY SequencesNow, SequencesNext DEF Known
<1>2. SUFFICES ASSUME NEW t \in Tabs, IsOpen(t)
               PROVE  /\ Sound(Known, tab[t], Coming(t)')
                      /\ Reads' => \A j \in Known : j <= Position' \/ j \notin rows => Has(tab[t], Coming(t)', j)
  BY <1>1 DEF NoGaps, IsOpen
<1>3. /\ Coming(t) \o u = Coming(t)' \o rest
      /\ Ahead' = Ahead \o u => Coming(t)' = Coming(t) \o u
  <2>1. CASE tab[t].role = "leading"
    BY <1>0, <2>1 DEF Coming
  <2>2. CASE tab[t].role # "leading"
    <3>1. /\ Coming(t) = tab[t].inbox \o Ahead /\ Coming(t)' = tab[t].inbox \o Ahead'
      BY <2>2 DEF Coming
    <3>2. /\ (tab[t].inbox \o Ahead) \o u = tab[t].inbox \o (Ahead \o u)
          /\ (tab[t].inbox \o Ahead') \o rest = tab[t].inbox \o (Ahead' \o rest)
      <4>1. tab[t].inbox \in Seq(Frames)
        BY <1>1
      <4>2. (tab[t].inbox \o Ahead) \o u = tab[t].inbox \o (Ahead \o u)
        BY <1>1, <4>1, Associates
      <4>3. (tab[t].inbox \o Ahead') \o rest = tab[t].inbox \o (Ahead' \o rest)
        BY <1>1, <4>1, Associates
      <4> QED
        BY <4>2, <4>3
    <3> QED
      BY <1>0, <3>1, <3>2
  <2> QED
    BY <2>1, <2>2
<1>4. Sound(Known, tab[t], Coming(t) \o u)
  <2>1. Sound(Known, tab[t], Coming(t))
    BY <1>2 DEF NoGaps
  <2>2. \A k \in 1..Len(u) : \A j \in Known :
          j < u[k].id => Has(tab[t], Coming(t), j) \/ \E m \in 1..k - 1 : u[m].id = j
    BY <1>2, Zenon DEF Continues
  <2> QED
    BY <1>1, <2>1, <2>2, SoundExtends
<1>5. Sound(Known, tab[t], Coming(t)')
  BY <1>1, <1>3, <1>4, SoundInFront
<1>6. ASSUME Reads', NEW j \in Known, j <= Position' \/ j \notin rows
      PROVE  Has(tab[t], Coming(t)', j)
  <2>1. Coming(t)' = Coming(t) \o u
    BY <1>3, <1>6
  <2>2. Has(tab[t], Coming(t), j) \/ \E m \in 1..Len(u) : Brings(u[m], j)
    BY <1>2, <1>6, Zenon DEF BringsUpTo
  <2>3. CASE Has(tab[t], Coming(t), j)
    <3>1. Len(Coming(t)) \in 0..Len(Coming(t))
      BY <1>1
    <3> QED
      BY <1>1, <2>1, <2>3, <3>1, HasInFront
  <2>4. CASE \E m \in 1..Len(u) : Brings(u[m], j)
    <3>1. PICK m \in 1..Len(u) : Brings(u[m], j)
      BY <2>4
    <3>2. /\ Len(Coming(t)) + m \in 1..Len(Coming(t) \o u)
          /\ (Coming(t) \o u)[Len(Coming(t)) + m] = u[m]
      BY <1>1
    <3> QED
      BY <2>1, <3>1, <3>2 DEF Has, HasBy
  <2> QED
    BY <2>2, <2>3, <2>4
<1> QED
  BY <1>5, <1>6

(* Their numbers rise.                                                     *)
LEMMA GrowingRises ==
  ASSUME IInv, TypeOK', UNCHANGED <<rows, source>>,
         NEW u \in Seq(Frames), Begins(Ahead', Ahead \o u), RisesOn(u),
         Reads' => Ahead' = Ahead \o u /\ StopsAt(u, Position')
  PROVE  Rising'
<1> USE DEF IInv
<1> DEFINE all == Ahead \o u
           a == Len(Ahead)
           b == Len(u)
           c == Len(Ahead')
<1>0. PICK rest \in Seq(Frames) : all = Ahead' \o rest
  BY DEF Begins
<1>1. Ahead \in Seq(Frames) /\ Ahead' \in Seq(Frames)
  BY SequencesNow, SequencesNext
<1>2. /\ all \in Seq(Frames) /\ a \in Nat /\ b \in Nat /\ Len(all) = a + b
      /\ \A k \in 1..a : all[k] = Ahead[k]
      /\ \A k \in 1..b : all[a + k] = u[k]
      /\ DOMAIN Ahead' = 1..c /\ DOMAIN Ahead = 1..a
  BY <1>1
<1>3. /\ c \in Nat /\ c <= a + b /\ \A k \in 1..c : all[k] = Ahead'[k]
  <2>1. /\ c \in Nat /\ c <= Len(Ahead' \o rest)
        /\ \A k \in 1..c : (Ahead' \o rest)[k] = Ahead'[k]
    BY <1>1, FrontOf
  <2>2. /\ c <= Len(all) /\ \A k \in 1..c : all[k] = Ahead'[k]
    BY <1>0, <2>1, Zenon
  <2> HIDE DEF all, c
  <2> QED
    BY <1>2, <2>1, <2>2
<1> HIDE DEF all, a, b, c
<1>4. ASSUME NEW k \in 1..a + b, all[k].id # 0
      PROVE  source.lastId < all[k].id /\ \A m \in 1..k - 1 : all[m].id < all[k].id
  <2>1. CASE k <= a
    <3>1. k \in 1..a /\ \A m \in 1..k - 1 : m \in 1..a
      BY <1>2, <2>1
    <3> QED
      BY <1>2, <1>4, <3>1 DEF Rising
  <2>2. CASE ~(k <= a)
    <3>1. PICK i \in 1..b : k = a + i
      <4>1. k - a \in 1..b /\ k = a + (k - a)
        BY <1>2, <2>2
      <4> QED
        BY <4>1
    <3>2. /\ source.lastId < u[i].id
          /\ \A m \in 1..i - 1 : u[m].id < u[i].id
          /\ \A m \in 1..a : Ahead[m].id < u[i].id
      BY <1>2, <1>4, <3>1 DEF RisesOn, a, b
    <3>3. ASSUME NEW m \in 1..k - 1 PROVE all[m].id < all[k].id
      <4>1. CASE m <= a
        <5>1. m \in 1..a
          BY <1>2, <4>1
        <5> QED
          BY <1>2, <3>1, <3>2, <5>1
      <4>2. CASE ~(m <= a)
        <5>1. PICK n \in 1..i - 1 : m = a + n
          <6>1. m - a \in 1..i - 1 /\ m = a + (m - a)
            BY <1>2, <3>1, <4>2
          <6> QED
            BY <6>1
        <5>2. n \in 1..b
          BY <1>2
        <5> QED
          BY <1>2, <3>1, <3>2, <5>1, <5>2
      <4> QED
        BY <4>1, <4>2
    <3> QED
      BY <1>2, <3>1, <3>2, <3>3
  <2> QED
    BY <2>1, <2>2
<1>5. ASSUME NEW k \in DOMAIN Ahead', Ahead'[k].id # 0
      PROVE  source'.lastId < Ahead'[k].id /\ \A m \in 1..k - 1 : Ahead'[m].id < Ahead'[k].id
  <2>1. k \in 1..c /\ k \in 1..a + b /\ \A m \in 1..k - 1 : m \in 1..c
    BY <1>2, <1>3
  <2> QED
    BY <1>3, <1>4, <1>5, <2>1
<1>6. ASSUME Reads'
      PROVE  /\ \A k \in DOMAIN Ahead' : Ahead'[k].id <= Position'
             /\ \A j \in rows' : Position' < j => source'.lastId < j
  <2>1. Ahead' = all /\ StopsAt(u, Position') /\ c = a + b
    BY <1>2, <1>6 DEF all, c
  <2>2. ASSUME NEW k \in 1..a + b PROVE all[k].id <= Position'
    <3>1. CASE k <= a
      <4>1. k \in 1..a
        BY <1>2, <3>1
      <4> QED
        BY <1>2, <2>1, <4>1 DEF StopsAt, a
    <3>2. CASE ~(k <= a)
      <4>1. k - a \in 1..b /\ k = a + (k - a)
        BY <1>2, <3>2
      <4> QED
        BY <1>2, <2>1, <4>1 DEF StopsAt, b
    <3> QED
      BY <3>1, <3>2
  <2> QED
    BY <1>2, <2>1, <2>2 DEF StopsAt
<1> QED
  BY <1>5, <1>6 DEF Rising

(* What a step that puts frames behind the others must show.               *)
LEMMA GrowingPreserves ==
  ASSUME IInv, TypeOK', LogInOrder', ConnAgrees', PageIsWhole',
         UNCHANGED <<logged, rows, source, tab, queue>>,
         conn'.phase = "opening" => conn.phase = "opening",
         {conn'.cursor, opening'.last} \subseteq Marks, conn'.page \subseteq rows,
         NEW u \in Seq(Frames), Begins(Ahead', Ahead \o u), Continues(u), RisesOn(u),
         Reads' => Ahead' = Ahead \o u /\ BringsUpTo(u, Position') /\ StopsAt(u, Position')
  PROVE  IInv'
<1> USE DEF IInv
<1>1. NoGaps'
  BY GrowingLeavesNoGaps
<1>2. Rising'
  BY GrowingRises
<1>3. Known' = Known /\ Marks' = Marks
  BY DEF Known, Marks
<1>4. LeaderAgrees'
  BY DEF LeaderAgrees
<1>5. Shared'
  BY <1>3 DEF Shared, IsOpen
<1>6. \A k \in DOMAIN Ahead' : Ahead'[k].id \in Marks
  <2> DEFINE all == Ahead \o u
             a == Len(Ahead)
             b == Len(u)
             c == Len(Ahead')
  <2>0. PICK rest \in Seq(Frames) : all = Ahead' \o rest
    BY DEF Begins
  <2>1. Ahead \in Seq(Frames) /\ Ahead' \in Seq(Frames)
    BY SequencesNow, SequencesNext
  <2>2. /\ a \in Nat /\ b \in Nat /\ Len(all) = a + b
        /\ \A k \in 1..a : all[k] = Ahead[k]
        /\ \A k \in 1..b : all[a + k] = u[k]
        /\ DOMAIN Ahead' = 1..c /\ DOMAIN Ahead = 1..a
    BY <2>1
  <2>3. c \in Nat /\ c <= a + b /\ \A k \in 1..c : all[k] = Ahead'[k]
    <3>1. /\ c \in Nat /\ c <= Len(Ahead' \o rest)
          /\ \A k \in 1..c : (Ahead' \o rest)[k] = Ahead'[k]
      BY <2>1, FrontOf
    <3>2. /\ c <= Len(all) /\ \A k \in 1..c : all[k] = Ahead'[k]
      BY <2>0, <3>1, Zenon
    <3> HIDE DEF all, c
    <3> QED
      BY <2>2, <3>1, <3>2
  <2>4. \A k \in 1..a : Ahead[k].id \in Marks
    BY <2>2, Zenon DEF MarksAreLogged
  <2>5. \A k \in 1..b : u[k].id \in Marks
    BY DEF RisesOn
  <2> HIDE DEF all, a, b, c
  <2>6. ASSUME NEW k \in 1..c PROVE Ahead'[k].id \in Marks
    <3>1. CASE k <= a
      <4>1. k \in 1..a
        BY <2>2, <2>3, <3>1
      <4> QED
        BY <2>2, <2>3, <2>4, <4>1
    <3>2. CASE ~(k <= a)
      <4>1. k - a \in 1..b /\ k = a + (k - a)
        BY <2>2, <2>3, <3>2
      <4> QED
        BY <2>2, <2>3, <2>5, <4>1
    <3> QED
      BY <3>1, <3>2
  <2> QED
    BY <2>2, <2>6
<1>7. MarksAreLogged'
  BY <1>3, <1>6 DEF MarksAreLogged
<1> QED
  BY <1>1, <1>2, <1>4, <1>5, <1>7

(* An opening that may be put behind what is ahead.                        *)
OpensWell(o) ==
  /\ o \in Openings /\ o.read /\ o.last \in Marks
  /\ Continues(o.frames) /\ RisesOn(o.frames)
  /\ BringsUpTo(o.frames, o.last) /\ StopsAt(o.frames, o.last)

(* After `fresh' and `expired' the refetch brings all there is.            *)
LEMMA LatestOpensWell ==
  ASSUME IInv, Ahead = <<>>, NEW resume \in {"fresh", "expired"}
  PROVE  OpensWell(AtLatest(resume))
<1> USE DEF IInv
<1> DEFINE f == Hello(resume, Newest(logged))
           last == Newest(rows)
<1>1. rows \in SUBSET Ids /\ logged \in SUBSET Ids /\ rows \subseteq logged /\ Known \in SUBSET Ids /\ Known \subseteq logged
  BY SequencesNow DEF TypeOK, Known
<1>2. /\ Newest(logged) \in Ids \cup {0} /\ \A i \in logged : i <= Newest(logged)
      /\ last \in Ids \cup {0} /\ last \in rows \cup {0} /\ last \in Nat /\ \A i \in rows : i <= last
  BY <1>1, NewestIsGreatest
<1>3. f \in Frames /\ f.id = 0 /\ f.resume \in {"fresh", "expired"} /\ f.from = Newest(logged)
  BY <1>2 DEF Hello, Frames
<1>4. /\ AtLatest(resume).frames = <<f>> /\ AtLatest(resume).last = last /\ AtLatest(resume).read
      /\ AtLatest(resume) = [frames |-> <<f>>, last |-> last, read |-> TRUE]
  BY DEF AtLatest
<1> HIDE DEF f, last
<1>5. <<f>> \in Seq(Frames) /\ Len(<<f>>) = 1 /\ <<f>>[1] = f /\ Len(Ahead) = 0 /\ \A k \in 1..1 : k = 1
  BY <1>3
<1>6. AtLatest(resume) \in Openings
  BY <1>2, <1>4, <1>5 DEF Openings
<1>7. \A j \in Known : Brings(f, j) /\ ~(j < f.id)
  BY <1>1, <1>2, <1>3, IdsAreNumbers DEF Brings, Refetch
<1>8. Continues(<<f>>)
  BY <1>5, <1>7, Zenon DEF Continues
<1>9. BringsUpTo(<<f>>, last)
  <2>1. 1 \in 1..Len(<<f>>)
    BY <1>5
  <2> QED
    BY <1>5, <1>7, <2>1 DEF BringsUpTo
<1>10. RisesOn(<<f>>)
  BY <1>3, <1>5 DEF RisesOn, Marks
<1>11. StopsAt(<<f>>, last)
  <2>1. 0 <= last /\ \A j \in rows : j \in Nat /\ ~(last < j)
    BY <1>1, <1>2, IdsAreNumbers
  <2>2. \A m \in 1..0 : FALSE
    OBVIOUS
  <2> QED
    BY <1>3, <1>5, <2>1, <2>2 DEF StopsAt
<1> QED
  BY <1>1, <1>2, <1>4, <1>6, <1>8, <1>9, <1>10, <1>11 DEF OpensWell, Marks

(* The greeting and the frames of some rows behind it.                     *)
Replay(T) == <<Hello("replayed", 0)>> \o FramesOf(T)

(* Its numbers are those of the known rows, and rise.                      *)
LEMMA ReplayRises ==
  ASSUME NEW T \in SUBSET Ids
  PROVE  /\ Replay(T) \in Seq(Frames)
         /\ \A k \in 1..Len(Replay(T)) : Replay(T)[k].id = 0 \/ Replay(T)[k].id \in T \ Unknown
         /\ \A i \in T \ Unknown : \E k \in 1..Len(Replay(T)) : Replay(T)[k].id = i
         /\ \A k, m \in 1..Len(Replay(T)) : k < m => Replay(T)[k].id < Replay(T)[m].id
<1> DEFINE u == Replay(T)
           f == Hello("replayed", 0)
           s == FramesOf(T)
           b == Len(s)
<1>1. /\ s \in Seq(Frames)
      /\ \A k \in 1..b : s[k].id \in T \ Unknown
      /\ \A i \in T \ Unknown : \E k \in 1..b : s[k].id = i
      /\ \A k, m \in 1..b : k < m => s[k].id < s[m].id
  BY FramesRise
<1>2. f \in Frames /\ f.id = 0
  BY DEF Hello, Frames
<1> HIDE DEF f, s
<1>3. /\ u \in Seq(Frames) /\ b \in Nat /\ Len(u) = b + 1 /\ u[1] = f
      /\ \A k \in 1..b : u[k + 1] = s[k]
  BY <1>1, <1>2 DEF f, s, Replay
<1> HIDE DEF u
<1> HIDE DEF b
<1>4. \A k \in 1..Len(u) : k = 1 \/ (k - 1 \in 1..b /\ (k - 1) + 1 = k)
  BY <1>3
<1>5. \A k \in 1..b : k + 1 \in 1..Len(u)
  BY <1>3
<1>6. ASSUME NEW k \in 1..Len(u) PROVE (k = 1 /\ u[k].id = 0) \/ (k # 1 /\ u[k].id = s[k - 1].id /\ k - 1 \in 1..b)
  BY <1>2, <1>3, <1>4
<1>7. ASSUME NEW i \in T \ Unknown PROVE \E k \in 1..Len(u) : u[k].id = i
  <2>1. PICK k \in 1..b : s[k].id = i
    BY <1>1
  <2> QED
    BY <1>3, <1>5, <2>1
<1>8. ASSUME NEW k \in 1..Len(u), NEW m \in 1..Len(u), k < m
      PROVE  u[k].id < u[m].id
  <2>1. m # 1 /\ u[m].id = s[m - 1].id /\ m - 1 \in 1..b
    BY <1>3, <1>6, <1>8
  <2>2. CASE k = 1
    <3>1. u[m].id \in Ids
      BY <1>1, <2>1
    <3> QED
      BY <1>2, <1>3, <2>2, <3>1, IdsAreNumbers
  <2>3. CASE k # 1
    <3>1. u[k].id = s[k - 1].id /\ k - 1 \in 1..b /\ k - 1 < m - 1
      BY <1>3, <1>6, <1>8, <2>3
    <3> QED
      BY <1>1, <2>1, <3>1
  <2> QED
    BY <2>2, <2>3
<1>9. ASSUME NEW k \in 1..Len(u) PROVE u[k].id = 0 \/ u[k].id \in T \ Unknown
  <2>1. (k = 1 /\ u[k].id = 0) \/ (k # 1 /\ u[k].id = s[k - 1].id /\ k - 1 \in 1..b)
    BY <1>6
  <2>2. k - 1 \in 1..b => s[k - 1].id \in T \ Unknown
    BY <1>1
  <2> QED
    BY <2>1, <2>2
<1> QED
  BY <1>3, <1>7, <1>8, <1>9, Zenon DEF u

(* A replay begins behind an event that the log still holds, and reaches   *)
(* its end: nothing in between was dropped.                                *)
LEMMA ReplayOpensWell ==
  ASSUME IInv, Ahead = <<>>, conn.phase = "opening",
         NEW a \in rows, a = source.after,
         NEW T, T = {j \in rows : a < j},
         NEW last, last = IF T \ Unknown = {} THEN a ELSE Max(T \ Unknown),
         NEW u, u = Replay(T)
  PROVE  OpensWell([frames |-> u, last |-> last, read |-> TRUE])
<1> USE DEF IInv
<1>1. /\ rows \in SUBSET Ids /\ logged \in SUBSET Ids /\ rows \subseteq logged
      /\ Known \in SUBSET Ids /\ Known = logged \ Unknown /\ T \in SUBSET Ids
      /\ \A j \in rows : j \in Nat /\ 0 < j
      /\ \A j \in Known : j \in Nat
      /\ \A j \in T : j \in rows /\ a < j /\ j \in Nat /\ j # 0
  BY SequencesNow, IdsAreNumbers DEF TypeOK, Known
<1>2. /\ u \in Seq(Frames)
      /\ \A k \in 1..Len(u) : u[k].id = 0 \/ u[k].id \in T \ Unknown
      /\ \A i \in T \ Unknown : \E k \in 1..Len(u) : u[k].id = i
      /\ \A k, m \in 1..Len(u) : k < m => u[k].id < u[m].id
  <2>1. T \in SUBSET Ids
    BY <1>1
  <2>2. /\ Replay(T) \in Seq(Frames)
        /\ \A k \in 1..Len(Replay(T)) : Replay(T)[k].id = 0 \/ Replay(T)[k].id \in T \ Unknown
        /\ \A i \in T \ Unknown : \E k \in 1..Len(Replay(T)) : Replay(T)[k].id = i
        /\ \A k, m \in 1..Len(Replay(T)) : k < m => Replay(T)[k].id < Replay(T)[m].id
    BY <2>1, ReplayRises
  <2>3. u = Replay(T)
    OBVIOUS
  <2> QED
    BY <2>2, <2>3, Zenon
<1>3. /\ a \in Nat /\ source.lastId \in Nat /\ source.lastId <= a
  <2>1. source \in Sources
    BY DEF TypeOK
  <2>2. source.lastId \in Nat /\ source.url \in Nat
    BY <2>1, IdsAreNumbers DEF Sources
  <2>3. a = IF source.lastId > 0 THEN source.lastId ELSE source.url
    BY DEF LeaderAgrees
  <2> QED
    BY <1>1, <2>2, <2>3
<1>4. /\ last \in rows /\ last \in Nat /\ a <= last
      /\ \A j \in T \ Unknown : j <= last
  <2>1. CASE T \ Unknown = {}
    BY <1>1, <1>3, <2>1
  <2>2. CASE T \ Unknown # {}
    <3>1. T \ Unknown \in SUBSET (1..MaxEvents) /\ MaxEvents \in Nat
      BY <1>1, StreamAssumption DEF Ids
    <3>2. Max(T \ Unknown) \in T \ Unknown /\ \A j \in T \ Unknown : j <= Max(T \ Unknown)
      BY <2>2, <3>1, MaxIsGreatest
    <3>3. last = Max(T \ Unknown)
      BY <2>2
    <3>4. last \in T /\ \A j \in T \ Unknown : j <= last
      BY <3>2, <3>3
    <3>5. last \in rows /\ last \in Nat /\ a < last
      BY <1>1, <3>4
    <3> QED
      BY <1>3, <3>4, <3>5
  <2> QED
    BY <2>1, <2>2
<1>5. [frames |-> u, last |-> last, read |-> TRUE] \in Openings
  BY <1>1, <1>2, <1>4 DEF Openings
<1>6. ASSUME NEW t \in Tabs, IsOpen(t), NEW j \in Known
      PROVE  Has(tab[t], Coming(t), j) \/ j \in T \ Unknown
  <2>1. CASE a < j
    <3>1. j \in rows
      BY <1>1, <1>3, <2>1 DEF LogInOrder
    <3> QED
      BY <1>1, <2>1, <3>1
  <2>2. CASE ~(a < j)
    <3>1. j <= a
      BY <1>1, <1>3, <2>2
    <3>2. source.state = "connected"
      BY DEF ConnAgrees
    <3>3. PICK l \in Tabs : tab[l].role = "leading" /\ a <= tab[l].seen
      BY <3>2 DEF LeaderAgrees
    <3>4. tab[l].seen \in Nat
      BY SequencesNow, IdsAreNumbers DEF TabRecords
    <3>5. j <= tab[l].seen
      BY <1>1, <1>3, <3>1, <3>3, <3>4
    <3>6. IsOpen(l)
      BY <3>3 DEF IsOpen
    <3>7. Has(tab[t], tab[t].inbox, j)
      BY <1>6, <3>5, <3>6 DEF Shared
    <3>8. CASE tab[t].role = "leading"
      <4>1. t = l
        BY <3>3, <3>8 DEF LeaderAgrees
      <4> QED
        BY <3>5, <4>1 DEF Has, HasBy
    <3>9. CASE tab[t].role # "leading"
      <4>1. Coming(t) = tab[t].inbox \o Ahead
        BY <3>9 DEF Coming
      <4>2. tab[t].inbox \in Seq(Frames) /\ Ahead \in Seq(Frames) /\ Len(tab[t].inbox) \in 0..Len(tab[t].inbox)
        BY SequencesNow
      <4> QED
        BY <3>7, <4>1, <4>2, HasInFront
    <3> QED
      BY <3>8, <3>9
  <2> QED
    BY <2>1, <2>2
<1>7. Continues(u)
  <2>0. SUFFICES ASSUME NEW t \in Tabs, IsOpen(t), NEW k \in 1..Len(u), NEW j \in Known, j < u[k].id
                 PROVE  Has(tab[t], Coming(t), j) \/ \E m \in 1..k - 1 : u[m].id = j
    BY DEF Continues
  <2>1. SUFFICES ASSUME ~Has(tab[t], Coming(t), j)
                 PROVE  \E m \in 1..k - 1 : u[m].id = j
    OBVIOUS
  <2>2. PICK m \in 1..Len(u) : u[m].id = j
    BY <1>2, <1>6, <2>0, <2>1
  <2>3. u[k].id \in Nat /\ j \in Nat
    <3>1. u[k].id = 0 \/ u[k].id \in T
      BY <1>2
    <3> QED
      BY <1>1, <3>1
  <2>4. ~(k <= m)
    <3>1. k < m => u[k].id < u[m].id
      BY <1>2
    <3>2. k # m
      BY <2>0, <2>2, <2>3
    <3> QED
      BY <2>0, <2>2, <2>3, <3>1, <3>2
  <2>5. m \in 1..k - 1
    BY <2>4
  <2> QED
    BY <2>2, <2>5
<1>8. BringsUpTo(u, last)
  <2>1. ASSUME NEW t \in Tabs, IsOpen(t), NEW j \in Known
        PROVE  Has(tab[t], Coming(t), j) \/ \E m \in 1..Len(u) : Brings(u[m], j)
    BY <1>2, <1>6, <2>1 DEF Brings
  <2> QED
    BY <2>1 DEF BringsUpTo
<1>9. Len(Ahead) = 0 /\ \A m \in 1..Len(Ahead) : FALSE
  OBVIOUS
<1>10. RisesOn(u)
  <2>1. SUFFICES ASSUME NEW k \in 1..Len(u)
                 PROVE  /\ u[k].id \in Marks
                        /\ u[k].id # 0 => /\ source.lastId < u[k].id
                                          /\ \A m \in 1..k - 1 : u[m].id < u[k].id
    BY <1>9, Zenon DEF RisesOn
  <2>2. u[k].id \in Marks
    BY <1>1, <1>2 DEF Marks
  <2>3. ASSUME u[k].id # 0 PROVE source.lastId < u[k].id
    <3>1. u[k].id \in T
      BY <1>2, <2>3
    <3>2. u[k].id \in Nat /\ a < u[k].id
      BY <1>1, <3>1, Zenon
    <3> QED
      BY <1>3, <3>2
  <2>4. \A m \in 1..k - 1 : m \in 1..Len(u) /\ m < k
    BY <1>2
  <2> QED
    BY <1>2, <2>2, <2>3, <2>4
<1>11. StopsAt(u, last)
  <2>1. ASSUME NEW k \in 1..Len(u) PROVE u[k].id <= last
    <3>1. CASE u[k].id = 0
      BY <1>4, <3>1
    <3>2. CASE u[k].id # 0
      <4>1. u[k].id \in T \ Unknown
        BY <1>2, <3>2
      <4> QED
        BY <1>4, <4>1, Zenon
    <3> QED
      BY <3>1, <3>2
  <2>2. \A j \in rows : last < j => source.lastId < j
    BY <1>1, <1>3, <1>4
  <2> QED
    BY <1>9, <2>1, <2>2, Zenon DEF StopsAt
<1> QED
  BY <1>1, <1>4, <1>5, <1>7, <1>8, <1>10, <1>11 DEF OpensWell, Marks

(* Whatever the browser names, what it reads may be sent.                  *)
LEMMA OpeningOpensWell ==
  ASSUME IInv, Ahead = <<>>, conn.phase = "opening"
  PROVE  OpensWell(Opening(source.after))
<1> DEFINE a == source.after
           found == RowsFrom(a, ReplayLimit + 2)
           missed == found \ {a}
           known == missed \ Unknown
           last == IF known = {} THEN a ELSE Max(known)
<1>1. rows \in SUBSET Ids /\ \A j \in rows : j \in Nat
  BY SequencesNow, IdsAreNumbers DEF IInv
<1>2. a \in Nat /\ ReplayLimit \in Nat /\ ReplayLimit + 2 \in Nat /\ MaxEvents \in Nat
  BY IdsAreNumbers, StreamAssumption DEF IInv, TypeOK, Sources
<1>3. /\ found \subseteq rows /\ \A j \in found : a <= j
      /\ Cardinality(found) < ReplayLimit + 2 => found = {j \in rows : a <= j}
  BY <1>1, <1>2, RowsInOrder
<1>4. CASE a = 0
  <2>1. Opening(a) = AtLatest("fresh")
    BY <1>4 DEF Opening
  <2> QED
    BY <2>1, LatestOpensWell
<1>5. CASE a # 0 /\ (a \notin found \/ Cardinality(missed) > ReplayLimit)
  <2>1. Opening(a) = AtLatest("expired")
    BY <1>5 DEF Opening
  <2> QED
    BY <2>1, LatestOpensWell
<1>6. CASE a # 0 /\ ~(a \notin found \/ Cardinality(missed) > ReplayLimit)
  <2>1. Opening(a) = [frames |-> Replay(missed), last |-> last, read |-> TRUE]
    BY <1>6 DEF Opening, Replay
  <2> HIDE DEF found
  <2>2. IsFiniteSet(found)
    <3>1. found \in SUBSET (1..MaxEvents)
      BY <1>1, <1>3 DEF Ids
    <3> QED
      BY <1>2, <3>1, BelowCounts
  <2>3. /\ Cardinality(missed) = Cardinality(found) - 1
        /\ Cardinality(found) \in Nat
    BY <1>6, <2>2, FS_RemoveElement, FS_CardinalityType
  <2>4. ~(Cardinality(missed) > ReplayLimit)
    BY <1>6
  <2> HIDE DEF missed
  <2>5. found = {j \in rows : a <= j}
    BY <1>2, <1>3, <2>3, <2>4
  <2>6. missed = {j \in rows : a < j}
    BY <1>1, <1>2, <2>5 DEF missed
  <2>7. a \in rows
    BY <1>3, <1>6
  <2>8. OpensWell([frames |-> Replay(missed), last |-> last, read |-> TRUE])
    <3> HIDE DEF a
    <3>1. a = source.after
      BY DEF a
    <3> QED
      BY <2>6, <2>7, <3>1, ReplayOpensWell
  <2> QED
    BY <2>1, <2>8, Zenon
<1> QED
  BY <1>4, <1>5, <1>6

(* The database answers the opening.                                       *)
LEMMA ReadOpeningPreserves == ASSUME IInv, ReadOpening PROVE IInv'
<1> USE DEF IInv
<1> DEFINE u == opening'.frames
<1>0. /\ conn.phase = "opening" /\ ~opening.read /\ opening' = Opening(source.after)
      /\ UNCHANGED <<next, writing, logged, rows, cues, conn, source, tab, queue, opens, troubles>>
  BY DEF ReadOpening, server, browser
<1>1. /\ conn.wire = <<>> /\ conn.queue = <<>> /\ opening.frames = <<>>
  BY <1>0 DEF ConnAgrees
<1>2. Ahead = <<>>
  <2>1. <<>> \o <<>> \o <<>> = <<>>
    OBVIOUS
  <2> QED
    BY <1>1, <2>1 DEF Ahead
<1>3. OpensWell(opening')
  BY <1>0, <1>2, OpeningOpensWell
<1>4. /\ opening' \in Openings /\ opening'.read /\ opening'.last \in Marks /\ u \in Seq(Frames)
      /\ Continues(u) /\ RisesOn(u) /\ BringsUpTo(u, opening'.last) /\ StopsAt(u, opening'.last)
  BY <1>3 DEF OpensWell, Openings
<1>5. TypeOK'
  BY <1>0, <1>4 DEF TypeOK
<1>6. LogInOrder' /\ PageIsWhole'
  BY <1>0 DEF LogInOrder, PageIsWhole
<1>7. ConnAgrees'
  BY <1>0, <1>4 DEF ConnAgrees
<1>8. Ahead' = Ahead \o u /\ Position' = opening'.last
  <2>1. <<>> \o <<>> \o u = <<>> \o u
    BY <1>4
  <2> QED
    BY <1>0, <1>1, <1>2, <1>4, <2>1 DEF Ahead, Position
<1>9. Begins(Ahead', Ahead \o u)
  <2>1. <<>> \o u \in Seq(Frames)
    BY <1>4
  <2> QED
    BY <1>2, <1>8, <2>1, BeginsItself
<1>10. {conn'.cursor, opening'.last} \subseteq Marks /\ conn'.page \subseteq rows
  BY <1>0, <1>4 DEF MarksAreLogged
<1> HIDE DEF u
<1> QED
  BY <1>0, <1>4, <1>5, <1>6, <1>7, <1>8, <1>9, <1>10, GrowingPreserves

(* How far a read has come.                                                *)
LEMMA LastReadIsGreatest ==
  ASSUME IInv
  PROVE  /\ Link!LastRead(conn) \in Nat /\ conn.cursor \in Nat /\ conn.cursor <= Link!LastRead(conn)
         /\ Link!LastRead(conn) \in Marks
<1> USE DEF IInv
<1>1. conn.cursor \in Nat /\ conn.page \in SUBSET Ids /\ conn.cursor \in Marks /\ conn.page \subseteq rows /\ rows \subseteq logged
  BY SequencesNow, IdsAreNumbers DEF Conns, Link!Connections, MarksAreLogged, TypeOK
<1>2. CASE conn.page = {}
  BY <1>1, <1>2 DEF Link!LastRead
<1>3. CASE conn.page # {}
  <2>1. Link!LastRead(conn) = Max(conn.page)
    BY <1>3, SameMax DEF Link!LastRead
  <2>2. Max(conn.page) \in conn.page
    BY <1>1, <1>3, MaxIsGreatest, StreamAssumption DEF Ids
  <2>3. \A j \in conn.page : j \in Nat /\ conn.cursor < j
    BY <1>1, IdsAreNumbers DEF PageIsWhole
  <2> QED
    BY <1>1, <2>1, <2>2, <2>3 DEF Marks
<1> QED
  BY <1>2, <1>3

(* The frames of a read that is done are the next ones of the stream.      *)
LEMMA PageContinues ==
  ASSUME IInv, conn.phase = "live", NEW u, u = FramesOf(conn.page),
         NEW last, last = Link!LastRead(conn)
  PROVE  /\ u \in Seq(Frames) /\ Continues(u) /\ RisesOn(u)
         /\ BringsUpTo(u, last) /\ StopsAt(u, last)
<1> USE DEF IInv
<1> DEFINE T == conn.page
           c == conn.cursor
<1>1. /\ rows \in SUBSET Ids /\ rows \subseteq logged /\ T \in SUBSET Ids
      /\ T = {j \in rows : c < j /\ j <= last}
      /\ last \in Nat /\ c \in Nat /\ c <= last
      /\ \A j \in rows : j \in Nat /\ 0 < j
      /\ \A j \in Known : j \in Nat /\ j \notin Unknown
  <2>1. /\ rows \in SUBSET Ids /\ rows \subseteq logged /\ T \in SUBSET Ids
        /\ T = {j \in rows : c < j /\ j <= last}
    BY SequencesNow DEF TypeOK, PageIsWhole, Conns, Link!Connections
  <2>2. last \in Nat /\ c \in Nat /\ c <= last
    BY LastReadIsGreatest
  <2>3. \A j \in Known : j \in Nat /\ j \notin Unknown
    <3>1. Known \in SUBSET Ids
      BY SequencesNow
    <3> QED
      BY <3>1, IdsAreNumbers DEF Known
  <2> HIDE DEF T, c
  <2> QED
    BY <2>1, <2>2, <2>3, IdsAreNumbers
<1>2. /\ u \in Seq(Frames)
      /\ \A k \in 1..Len(u) : u[k].id \in T \ Unknown
      /\ \A i \in T \ Unknown : \E k \in 1..Len(u) : u[k].id = i
      /\ \A k, m \in 1..Len(u) : k < m => u[k].id < u[m].id
  <2>1. T \in SUBSET Ids
    BY <1>1
  <2>2. /\ FramesOf(T) \in Seq(Frames)
        /\ \A k \in 1..Len(FramesOf(T)) : FramesOf(T)[k].id \in T \ Unknown
        /\ \A i \in T \ Unknown : \E k \in 1..Len(FramesOf(T)) : FramesOf(T)[k].id = i
        /\ \A k, m \in 1..Len(FramesOf(T)) : k < m => FramesOf(T)[k].id < FramesOf(T)[m].id
    BY <2>1, FramesRise
  <2>3. u = FramesOf(T)
    OBVIOUS
  <2> QED
    BY <2>2, <2>3, Zenon
<1>3. Reads /\ Position = c
  BY DEF Reads, Position, ConnAgrees
<1>4. /\ \A j \in rows : c < j => source.lastId < j
      /\ \A m \in 1..Len(Ahead) : Ahead[m].id <= c
  <2>1. DOMAIN Ahead = 1..Len(Ahead)
    BY SequencesNow
  <2> QED
    BY <1>3, <2>1 DEF Rising
<1>5. \A m \in 1..Len(Ahead) : Ahead[m].id \in Nat
  <2>1. ASSUME NEW m \in 1..Len(Ahead) PROVE Ahead[m].id \in Nat
    <3>1. Ahead[m] \in Frames
      BY SequencesNow, ElementOfSeq
    <3> QED
      BY <3>1, IdsAreNumbers DEF Frames
  <2> QED
    BY <2>1
<1>6. ASSUME NEW t \in Tabs, IsOpen(t), NEW j \in Known
      PROVE  Has(tab[t], Coming(t), j) \/ (j \in rows /\ c < j)
  <2>1. j <= c \/ j \notin rows => Has(tab[t], Coming(t), j)
    BY <1>3, <1>6, Zenon DEF NoGaps
  <2> QED
    BY <1>1, <2>1
<1> HIDE DEF T, c
<1>7. ASSUME NEW j \in Known, j \in rows, c < j, j <= last
      PROVE  \E m \in 1..Len(u) : u[m].id = j
  BY <1>1, <1>2, <1>7
<1>8. \A k \in 1..Len(u) : u[k].id \in rows /\ c < u[k].id /\ u[k].id <= last /\ u[k].id \in Nat
  BY <1>1, <1>2
<1>9. Continues(u)
  <2>1. SUFFICES ASSUME NEW t \in Tabs, IsOpen(t), NEW k \in 1..Len(u), NEW j \in Known, j < u[k].id
                 PROVE  Has(tab[t], Coming(t), j) \/ \E m \in 1..k - 1 : u[m].id = j
    BY DEF Continues
  <2>2. SUFFICES ASSUME ~Has(tab[t], Coming(t), j)
                 PROVE  \E m \in 1..k - 1 : u[m].id = j
    OBVIOUS
  <2>3. j \in rows /\ c < j /\ j <= last
    BY <1>1, <1>6, <1>8, <2>1, <2>2
  <2>4. PICK m \in 1..Len(u) : u[m].id = j
    BY <1>7, <2>3
  <2>5. ~(k <= m)
    <3>1. k < m => u[k].id < u[m].id
      BY <1>2
    <3>2. u[k].id \in Nat /\ j \in Nat
      BY <1>1, <1>8
    <3>3. k # m
      BY <2>1, <2>4, <3>2
    <3> QED
      BY <2>1, <2>4, <3>1, <3>2, <3>3
  <2>6. m \in 1..k - 1
    BY <2>5
  <2> QED
    BY <2>4, <2>6
<1>10. BringsUpTo(u, last)
  <2>1. SUFFICES ASSUME NEW t \in Tabs, IsOpen(t), NEW j \in Known, j <= last \/ j \notin rows
                 PROVE  Has(tab[t], Coming(t), j) \/ \E m \in 1..Len(u) : Brings(u[m], j)
    BY DEF BringsUpTo
  <2>2. SUFFICES ASSUME ~Has(tab[t], Coming(t), j)
                 PROVE  \E m \in 1..Len(u) : Brings(u[m], j)
    OBVIOUS
  <2>3. j \in rows /\ c < j /\ j <= last
    BY <1>6, <2>1, <2>2
  <2> QED
    BY <1>7, <2>3 DEF Brings
<1>11. RisesOn(u)
  <2>1. SUFFICES ASSUME NEW k \in 1..Len(u)
                 PROVE  /\ u[k].id \in Marks
                        /\ source.lastId < u[k].id
                        /\ \A m \in 1..k - 1 : u[m].id < u[k].id
                        /\ \A m \in 1..Len(Ahead) : Ahead[m].id < u[k].id
    BY DEF RisesOn
  <2>2. u[k].id \in Marks
    BY <1>1, <1>8 DEF Marks
  <2>3. source.lastId < u[k].id
    BY <1>4, <1>8
  <2>4. \A m \in 1..k - 1 : m \in 1..Len(u) /\ m < k
    BY <1>2
  <2>5. u[k].id \in Nat /\ c < u[k].id /\ c \in Nat
    BY <1>1, <1>8
  <2>6. \A m \in 1..Len(Ahead) : Ahead[m].id < u[k].id
    BY <1>4, <1>5, <2>5
  <2> QED
    BY <1>2, <2>2, <2>3, <2>4, <2>6
<1>12. StopsAt(u, last)
  <2>1. \A m \in 1..Len(Ahead) : Ahead[m].id <= last
    BY <1>1, <1>4, <1>5
  <2>2. \A j \in rows : last < j => source.lastId < j
    BY <1>1, <1>4
  <2> QED
    BY <1>8, <2>1, <2>2 DEF StopsAt
<1> QED
  BY <1>2, <1>9, <1>10, <1>11, <1>12

(* The answer to a read arrives, and it was the last one.                  *)
LEMMA ResyncedPreserves ==
  ASSUME IInv, conn.phase = "live", conn' = Link!Resynced(conn, FramesOf(conn.page)),
         UNCHANGED <<server, opening, source, browser, troubles>>
  PROVE  IInv'
<1> USE DEF IInv
<1> DEFINE u == FramesOf(conn.page)
           last == Link!LastRead(conn)
           sent == Link!AllDispatched(conn, u)
           kept == [sent EXCEPT !.cursor = last, !.page = {}, !.due = FALSE, !.more = FALSE]
<1>1. /\ conn \in Conns /\ conn.wire \in Seq(Frames) /\ conn.queue \in Seq(Frames)
      /\ rows \in SUBSET Ids /\ rows' = rows /\ logged' = logged
      /\ opening.frames = <<>> /\ ~opening.read /\ source.state = "connected"
      /\ \A j \in rows : j \in Nat /\ 0 < j
  BY SequencesNow, IdsAreNumbers DEF ConnAgrees, server
<1>2. /\ u \in Seq(Frames) /\ Continues(u) /\ RisesOn(u) /\ BringsUpTo(u, last) /\ StopsAt(u, last)
  BY PageContinues
<1>3. last \in Nat /\ last \in Marks /\ last \in Ids \cup {0}
  <2>1. last \in Marks /\ last \in Nat
    BY LastReadIsGreatest
  <2>2. Marks \subseteq Ids \cup {0}
    BY DEF Marks, TypeOK
  <2> HIDE DEF last
  <2> QED
    BY <2>1, <2>2
<1> HIDE DEF last, u
<1>4. sent \in Conns /\ Passes(conn, sent, u)
  <2>1. ~conn.slow => conn.queue = <<>>
    BY DEF ConnAgrees
  <2> QED
    BY <1>1, <1>2, <2>1, AllDispatchedPasses
<1>5. /\ sent.phase # "live" => conn' = sent
      /\ sent.phase = "live" =>
           conn' \in {[kept EXCEPT !.reading = "asking"], [kept EXCEPT !.reading = "idle"]}
  BY DEF Link!Resynced, last, u
<1> HIDE DEF sent
<1>6. Ahead = conn.wire \o conn.queue /\ Ahead \in Seq(Frames) /\ Ahead \o u \in Seq(Frames)
  <2>1. conn.wire \o conn.queue \in Seq(Frames)
    BY <1>1
  <2>2. (conn.wire \o conn.queue) \o <<>> = conn.wire \o conn.queue
    BY <2>1
  <2> QED
    BY <1>1, <1>2, <2>1, <2>2 DEF Ahead
<1>7. LogInOrder'
  BY DEF LogInOrder, server
<1>8. CASE sent.phase = "live"
  <2>1. /\ Keeps(conn, sent) /\ sent.wire \o sent.queue = (conn.wire \o conn.queue) \o u
        /\ ~sent.slow => sent.queue = <<>>
    <3>1. Link!Ended(sent).phase = "ended"
      BY DEF Link!Ended, Link!Closed
    <3> QED
      BY <1>4, <1>8, <3>1 DEF Passes
  <2>2. /\ conn' \in Conns
        /\ conn'.phase = "live" /\ conn'.wire = sent.wire /\ conn'.queue = sent.queue
        /\ conn'.slow = sent.slow /\ conn'.lossy = sent.lossy /\ conn'.buffer = sent.buffer
        /\ conn'.cursor = last /\ conn'.page = {}
    <3> HIDE DEF IInv
    <3>1. PICK s \in Link!ReadStates : conn' = [kept EXCEPT !.reading = s]
      BY <1>5, <1>8 DEF Link!ReadStates
    <3>2. sent \in Link!Connections(Frames, Ids)
      BY <1>4 DEF Conns
    <3> QED
      BY <1>3, <1>8, <3>1, <3>2, Zenon DEF Conns, Link!Connections
  <2>3. TypeOK'
    BY <2>2 DEF TypeOK, server, browser, Conns
  <2>4. ConnAgrees'
    BY <1>1, <2>1, <2>2 DEF ConnAgrees, Keeps
  <2>5. PageIsWhole'
    <3>1. Link!LastRead(conn') = last
      BY <2>2 DEF Link!LastRead
    <3>2. \A j \in rows : ~(last < j /\ j <= last)
      BY <1>1, <1>3
    <3> QED
      BY <1>1, <2>2, <3>1, <3>2 DEF PageIsWhole
  <2>6. Ahead' = Ahead \o u /\ Position' = last
    <3>1. (conn'.wire \o conn'.queue) \o <<>> = conn'.wire \o conn'.queue
      BY <2>2 DEF Conns, Link!Connections
    <3> QED
      BY <1>1, <1>6, <2>1, <2>2, <3>1 DEF Ahead, Position
  <2>7. Begins(Ahead', Ahead \o u)
    BY <1>6, <2>6, BeginsItself
  <2>8. {conn'.cursor, opening'.last} \subseteq Marks /\ conn'.page \subseteq rows
    BY <1>3, <2>2 DEF MarksAreLogged
  <2>9. UNCHANGED <<logged, rows, source, tab, queue>> /\ conn'.phase # "opening"
    BY <2>2 DEF server, browser
  <2> QED
    BY <1>2, <1>7, <2>3, <2>4, <2>5, <2>6, <2>7, <2>8, <2>9, GrowingPreserves
<1>9. CASE sent.phase # "live"
  <2>1. conn' = sent /\ conn' = Link!Ended(conn') /\ Begins(conn'.wire, (conn.wire \o conn.queue) \o u)
    BY <1>4, <1>5, <1>9 DEF Passes, Keeps
  <2>2. /\ conn' \in Conns /\ conn'.phase = "ended" /\ conn'.queue = <<>> /\ conn'.lossy = <<>>
        /\ conn'.reading = "idle" /\ conn'.page = {} /\ conn'.buffer = <<>> /\ conn'.cursor = 0
        /\ conn'.wire \in Seq(Frames)
    <3>1. LET d == Link!Ended(conn') IN
            /\ d.phase = "ended" /\ d.queue = <<>> /\ d.lossy = <<>>
            /\ d.reading = "idle" /\ d.page = {} /\ d.buffer = <<>> /\ d.cursor = 0
      BY DEF Link!Ended, Link!Closed
    <3>2. conn' \in Conns /\ conn'.wire \in Seq(Frames)
      BY <1>4, <2>1 DEF Conns, Link!Connections
    <3> QED
      BY <2>1, <3>1, <3>2, Zenon
  <2>3. TypeOK'
    BY <2>2 DEF TypeOK, server, browser, Conns
  <2>4. ConnAgrees'
    <3>1. \A k \in DOMAIN conn'.buffer : conn'.buffer[k].id # 0
      BY <2>2
    <3> QED
      BY <1>1, <2>2, <3>1 DEF ConnAgrees
  <2>5. PageIsWhole'
    <3>1. Link!LastRead(conn') = 0
      BY <2>2 DEF Link!LastRead
    <3>2. \A j \in rows : ~(0 < j /\ j <= 0)
      BY <1>1
    <3> QED
      BY <1>1, <2>2, <3>1, <3>2 DEF PageIsWhole
  <2>6. Ahead' = conn'.wire
    <3>1. conn'.wire \o <<>> \o <<>> = conn'.wire
      BY <2>2
    <3> QED
      BY <1>1, <2>2, <3>1 DEF Ahead
  <2>7. Begins(Ahead', Ahead \o u)
    BY <1>6, <2>1, <2>6
  <2>8. {conn'.cursor, opening'.last} \subseteq Marks /\ conn'.page \subseteq rows
    BY <2>2 DEF MarksAreLogged, Marks
  <2>9. UNCHANGED <<logged, rows, source, tab, queue>> /\ conn'.phase # "opening" /\ ~Reads'
    BY <1>1, <2>2 DEF server, browser, Reads
  <2> QED
    BY <1>2, <1>7, <2>3, <2>4, <2>5, <2>7, <2>8, <2>9, GrowingPreserves
<1> QED
  BY <1>8, <1>9

(* An answer arrives.                                                      *)
LEMMA TakePagePreserves == ASSUME IInv, TakePage PROVE IInv'
<1>1. conn.reading = "answered" /\ conn.phase = "live"
  BY DEF TakePage, IInv, ConnAgrees
<1>2. CASE conn.more
  <2>1. conn.reading # "idle" /\ conn' = Link!AsksOn(conn) /\ UNCHANGED <<server, opening, source, browser, troubles>>
    BY <1>1, <1>2 DEF TakePage
  <2> QED
    BY <2>1, AsksOnPreserves
<1>3. CASE ~conn.more
  <2>1. /\ conn' = Link!Resynced(conn, FramesOf(conn.page))
        /\ UNCHANGED <<server, opening, source, browser, troubles>>
    BY <1>3 DEF TakePage
  <2> QED
    BY <1>1, <2>1, ResyncedPreserves
<1> QED
  BY <1>2, <1>3

-----------------------------------------------------------------------------
(* What steps of the tabs do to one of them that stays open: nothing but   *)
(* its role; or it is closed; or it has just opened and lacks nothing.     *)
Alike(u) ==
  /\ IsOpen(u)
  /\ tab'[u].seen = tab[u].seen /\ tab'[u].from = tab[u].from
  /\ tab'[u].heard = tab[u].heard /\ tab'[u].inbox = tab[u].inbox
  /\ \/ tab'[u].role = "leading" <=> tab[u].role = "leading"
     \/ Ahead' = <<>> /\ ~Reads'
Shut(u) == tab'[u].role = "closed" /\ tab'[u] \in {tab[u], ClosedTab}
Fresh(u) == tab'[u].from = Newest(logged) /\ tab'[u].seen = 0 /\ tab'[u].inbox = <<>>

(* A tab that has just opened has everything.                              *)
LEMMA FreshHasAll ==
  ASSUME IInv, NEW u, Fresh(u)
  PROVE  /\ \A s, n : \A j \in Known : HasBy(tab'[u], s, n, j) /\ Has(tab'[u], s, j)
         /\ \A s : Sound(Known, tab'[u], s)
         /\ Unskipped(Known, tab'[u])
<1>1. logged \in SUBSET Ids /\ Known \subseteq logged /\ \A j \in Known : j \in Nat
  BY SequencesNow, IdsAreNumbers DEF IInv, Known
<1>2. \A j \in Known : j <= tab'[u].from /\ tab'[u].from \in Nat
  BY <1>1, NewestIsGreatest DEF Fresh
<1>3. \A s, n : \A j \in Known : HasBy(tab'[u], s, n, j) /\ Has(tab'[u], s, j)
  BY <1>2, Zenon DEF HasBy, Has
<1>4. \A s : Sound(Known, tab'[u], s)
  BY <1>3, Zenon DEF Sound
<1>5. Unskipped(Known, tab'[u])
  BY <1>1, <1>2 DEF Unskipped
<1> QED
  BY <1>3, <1>4, <1>5

(* Nothing leaves no gap.                                                  *)
LEMMA NothingIsSound ==
  \A known, r : Sound(known, r, <<>>)
<1>1. \A k \in 1..Len(<<>>) : FALSE
  OBVIOUS
<1> QED
  BY <1>1, Zenon DEF Sound

(* What a step of the tabs must show that delivers nothing.                *)
LEMMA QuietTabsPreserve ==
  ASSUME IInv, TypeOK', LogInOrder', ConnAgrees', LeaderAgrees', PageIsWhole', Rising',
         UNCHANGED <<logged, rows>>,
         Ahead' = Ahead \/ Ahead' = <<>>,
         Reads' => Reads /\ Ahead' = Ahead /\ Position' = Position,
         {conn'.cursor, opening'.last, source'.lastId, source'.url, source'.after} \subseteq Marks,
         conn'.page \subseteq rows,
         \A u \in Tabs : Alike(u) \/ Fresh(u) \/ Shut(u)
  PROVE  IInv'
<1> USE DEF IInv
<1>1. /\ Ahead \in Seq(Frames) /\ Ahead' \in Seq(Frames) /\ Known \in SUBSET Ids
      /\ \A t \in Tabs : tab[t] \in TabRecords /\ tab[t].inbox \in Seq(Frames)
      /\ \A t \in Tabs : tab'[t] \in TabRecords /\ tab'[t].inbox \in Seq(Frames)
      /\ \A j \in Known : j \in Nat /\ 0 < j
  BY SequencesNow, SequencesNext, IdsAreNumbers
<1>2. Known' = Known /\ Marks' = Marks
  BY DEF Known, Marks
<1>3. \A u \in Tabs : IsOpen(u)' => Alike(u) \/ Fresh(u)
  BY DEF IsOpen, Shut
<1>4. ASSUME NEW u \in Tabs, Alike(u)
      PROVE  /\ \A s \in Seq(Frames) : Sound(Known, tab[u], s) => Sound(Known, tab'[u], s)
             /\ \A s \in Seq(Frames) : \A j \in Known : Has(tab[u], s, j) => Has(tab'[u], s, j)
  <2>1. tab[u] \in TabRecords /\ tab'[u] \in TabRecords
    BY <1>1
  <2>2. tab[u].seen <= tab'[u].seen /\ tab[u].from <= tab'[u].from
    BY <1>4, <2>1, IdsAreNumbers DEF Alike, TabRecords
  <2> QED
    BY <1>1, <2>1, <2>2, HasMore
<1>5. MarksAreLogged'
  <2>1. \A k \in DOMAIN Ahead' : Ahead'[k].id \in Marks
    BY DEF MarksAreLogged
  <2>2. ASSUME NEW u \in Tabs
        PROVE  tab'[u].seen \in Marks /\ \A k \in DOMAIN tab'[u].inbox : tab'[u].inbox[k].id \in Marks
    <3>1. CASE Alike(u)
      BY <3>1 DEF Alike, MarksAreLogged
    <3>2. CASE Fresh(u)
      BY <3>2 DEF Fresh, Marks
    <3>3. CASE Shut(u)
      BY <3>3 DEF Shut, ClosedTab, Marks, MarksAreLogged
    <3> QED
      BY <3>1, <3>2, <3>3
  <2> QED
    BY <1>2, <2>1, <2>2 DEF MarksAreLogged
<1>6. NoGaps'
  <2>1. SUFFICES ASSUME NEW u \in Tabs, IsOpen(u)'
                 PROVE  /\ Unskipped(Known, tab'[u])
                        /\ Sound(Known, tab'[u], tab'[u].inbox)
                        /\ Sound(Known, tab'[u], Coming(u)')
                        /\ Reads' => \A j \in Known : j <= Position' \/ j \notin rows => Has(tab'[u], Coming(u)', j)
    BY <1>2 DEF NoGaps
  <2>2. CASE Fresh(u)
    BY <2>2, FreshHasAll
  <2>3. CASE Alike(u)
    <3>1. /\ Unskipped(Known, tab[u])
          /\ Sound(Known, tab[u], tab[u].inbox)
          /\ Sound(Known, tab[u], Coming(u))
          /\ Reads => \A j \in Known : j <= Position \/ j \notin rows => Has(tab[u], Coming(u), j)
      BY <2>3 DEF NoGaps, Alike
    <3>2. Unskipped(Known, tab'[u])
      BY <2>3, <3>1 DEF Unskipped, Alike
    <3>3. Sound(Known, tab'[u], tab'[u].inbox)
      <4>1. tab'[u].inbox = tab[u].inbox
        BY <2>3 DEF Alike
      <4> QED
        BY <1>1, <1>4, <2>3, <3>1, <4>1
    <3>4. CASE Coming(u)' = Coming(u) /\ (Reads' => Reads /\ Position' = Position)
      <4>1. Coming(u) \in Seq(Frames)
        BY SequencesNow
      <4> QED
        BY <1>4, <2>3, <3>1, <3>2, <3>3, <3>4, <4>1
    <3>5. CASE Ahead' = <<>> /\ ~Reads'
      <4>1. Coming(u)' = <<>> \/ Coming(u)' = tab'[u].inbox
        <5>1. tab'[u].inbox \o <<>> = tab'[u].inbox
          BY <1>1
        <5> QED
          BY <3>5, <5>1 DEF Coming
      <4> QED
        BY <3>2, <3>3, <3>5, <4>1, NothingIsSound
    <3>6. \/ Coming(u)' = Coming(u) /\ (Reads' => Reads /\ Position' = Position)
          \/ Ahead' = <<>> /\ ~Reads'
      <4>1. CASE Ahead' = Ahead /\ (tab'[u].role = "leading" <=> tab[u].role = "leading")
        <5>1. Coming(u)' = Coming(u)
          BY <2>3, <4>1 DEF Alike, Coming
        <5> QED
          BY <5>1
      <4>2. CASE ~(Ahead' = Ahead /\ (tab'[u].role = "leading" <=> tab[u].role = "leading"))
        BY <2>3, <4>2 DEF Alike
      <4> QED
        BY <4>1, <4>2
    <3> QED
      BY <3>4, <3>5, <3>6
  <2> QED
    BY <1>3, <2>1, <2>2, <2>3
<1>7. Shared'
  <2>1. SUFFICES ASSUME NEW t \in Tabs, NEW u \in Tabs, IsOpen(t)', IsOpen(u)', NEW j \in Known,
                        j <= tab'[u].seen \/ \E k \in DOMAIN tab'[u].inbox : j <= tab'[u].inbox[k].id
                 PROVE  Has(tab'[t], tab'[t].inbox, j)
    BY <1>2 DEF Shared
  <2>2. CASE Fresh(t)
    BY <2>2, FreshHasAll
  <2>3. CASE Alike(t)
    <3>1. ~Fresh(u)
      <4>1. DOMAIN <<>> = {} /\ ~(j <= 0)
        BY <1>1
      <4> QED
        BY <2>1, <4>1 DEF Fresh
    <3>2. Alike(u)
      BY <1>3, <2>1, <3>1
    <3>3. Has(tab[t], tab[t].inbox, j)
      BY <2>1, <2>3, <3>2 DEF Alike, Shared
    <3>4. tab'[t].inbox = tab[t].inbox /\ tab[t].inbox \in Seq(Frames)
      BY <1>1, <2>3 DEF Alike
    <3> QED
      BY <1>4, <2>3, <3>3, <3>4
  <2> QED
    BY <1>3, <2>1, <2>2, <2>3
<1> QED
  BY <1>5, <1>6, <1>7

(* Without a leader there is no stream.                                    *)
LEMMA NoStreamWithoutLeader ==
  ASSUME IInv, source.state = "none" \/ LockIsFree
  PROVE  source = NoSource /\ conn.phase = "closed" /\ Ahead = <<>> /\ ~Reads
<1>1. source.state = "none"
  BY DEF IInv, LeaderAgrees, LockIsFree
<1>2. /\ source = NoSource /\ conn.phase = "closed" /\ conn.wire = <<>> /\ conn.queue = <<>>
      /\ opening.frames = <<>> /\ ~opening.read
  BY <1>1 DEF IInv, ConnAgrees
<1>3. <<>> \o <<>> \o <<>> = <<>>
  OBVIOUS
<1> QED
  BY <1>2, <1>3 DEF Ahead, Reads

(* The stream's part of the invariant, when the stream does not change.    *)
LEMMA StreamStays ==
  ASSUME IInv, UNCHANGED <<next, writing, logged, rows, conn, opening, source>>
  PROVE  /\ LogInOrder' /\ ConnAgrees' /\ PageIsWhole' /\ Rising'
         /\ Ahead' = Ahead /\ (Reads' <=> Reads) /\ Position' = Position
         /\ {conn'.cursor, opening'.last, source'.lastId, source'.url, source'.after} \subseteq Marks
         /\ conn'.page \subseteq rows
<1>1. Ahead' = Ahead /\ (Reads' <=> Reads) /\ Position' = Position
  BY DEF Ahead, Reads, Position
<1>2. LogInOrder' /\ ConnAgrees' /\ PageIsWhole'
  BY DEF IInv, LogInOrder, ConnAgrees, PageIsWhole
<1>3. Rising'
  BY <1>1 DEF IInv, Rising
<1> QED
  BY <1>1, <1>2, <1>3 DEF IInv, MarksAreLogged

(* The tabs that a step leaves alone.                                      *)
LEMMA OtherTabs ==
  ASSUME NEW u \in Tabs, tab'[u] = tab[u]
  PROVE  Alike(u) \/ Shut(u)
  BY DEF Alike, Shut, IsOpen

(* A tab asks to wait for the lock.                                        *)
LEMMA JoinQueuePreserves == ASSUME IInv, NEW t \in Tabs, JoinQueue(t) PROVE IInv'
<1> USE DEF IInv
<1>0. /\ tab[t].role = "joining" /\ tab' = [tab EXCEPT ![t].role = "queued"]
      /\ queue' = Append(queue, t)
      /\ UNCHANGED <<next, writing, logged, rows, cues, conn, opening, source, opens, troubles>>
  BY DEF JoinQueue, server, stream
<1>1. tab \in [Tabs -> TabRecords] /\ queue \in Seq(Tabs)
  BY DEF TypeOK
<1>2. /\ tab'[t].seen = tab[t].seen /\ tab'[t].from = tab[t].from /\ tab'[t].heard = tab[t].heard
      /\ tab'[t].inbox = tab[t].inbox /\ tab'[t].role = "queued"
      /\ \A u \in Tabs : u # t => tab'[u] = tab[u]
      /\ tab' \in [Tabs -> TabRecords]
  BY <1>0, <1>1 DEF TabRecords
<1>3. TypeOK'
  BY <1>0, <1>1, <1>2 DEF TypeOK
<1>4. LeaderAgrees'
  <2>1. \A u \in Tabs : tab'[u].role = "leading" <=> tab[u].role = "leading"
    BY <1>0, <1>2
  <2>2. \A u \in Tabs : tab'[u].seen = tab[u].seen
    BY <1>2
  <2>3. ASSUME NEW k \in DOMAIN queue' PROVE tab'[queue'[k]].role # "closed"
    <3>1. (k \in DOMAIN queue /\ queue'[k] = queue[k] /\ queue[k] \in Tabs) \/ queue'[k] = t
      BY <1>0, <1>1
    <3>2. ASSUME k \in DOMAIN queue, queue[k] \in Tabs PROVE tab'[queue[k]].role # "closed"
      BY <1>2, <3>2 DEF LeaderAgrees
    <3> QED
      BY <1>2, <3>1, <3>2
  <2>4. /\ \A v, u \in Tabs : tab'[v].role = "leading" /\ tab'[u].role = "leading" => v = u
        /\ source.state # "none" => \E u \in Tabs : tab'[u].role = "leading"
        /\ \A u \in Tabs : tab'[u].role = "leading" =>
             source.lastId <= tab'[u].seen /\ source.url <= tab'[u].seen /\ source.after <= tab'[u].seen
    BY <2>1, <2>2 DEF LeaderAgrees
  <2> QED
    BY <1>0, <2>3, <2>4 DEF LeaderAgrees
<1>5. \A u \in Tabs : Alike(u) \/ Fresh(u) \/ Shut(u)
  <2>1. Alike(t)
    BY <1>0, <1>2 DEF Alike, IsOpen
  <2>2. ASSUME NEW u \in Tabs, u # t PROVE Alike(u) \/ Shut(u)
    BY <1>2, <2>2, OtherTabs
  <2> QED
    BY <2>1, <2>2
<1> QED
  BY <1>0, <1>3, <1>4, <1>5, StreamStays, QuietTabsPreserve

(* The first that waits leads once nobody does; there is no stream then.   *)
LEMMA LeadPreserves == ASSUME IInv, NEW t \in Tabs, Lead(t) PROVE IInv'
<1> USE DEF IInv
<1>0. /\ LockIsFree /\ queue # <<>> /\ Head(queue) = t
      /\ queue' = Tail(queue) /\ tab' = [tab EXCEPT ![t].role = "leading"]
      /\ UNCHANGED <<next, writing, logged, rows, cues, conn, opening, source, opens, troubles>>
  BY DEF Lead, server, stream
<1>1. tab \in [Tabs -> TabRecords] /\ queue \in Seq(Tabs)
  BY DEF TypeOK
<1>2. /\ tab'[t].seen = tab[t].seen /\ tab'[t].from = tab[t].from /\ tab'[t].heard = tab[t].heard
      /\ tab'[t].inbox = tab[t].inbox /\ tab'[t].role = "leading"
      /\ \A u \in Tabs : u # t => tab'[u] = tab[u]
      /\ tab' \in [Tabs -> TabRecords] /\ tab[t].seen \in Nat
  BY <1>0, <1>1, IdsAreNumbers DEF TabRecords
<1>3. TypeOK'
  BY <1>0, <1>1, <1>2 DEF TypeOK
<1>4. /\ source = NoSource /\ conn.phase = "closed" /\ Ahead = <<>> /\ ~Reads
      /\ source.state = "none" /\ source.lastId = 0 /\ source.url = 0 /\ source.after = 0
  BY <1>0, NoStreamWithoutLeader, Blank
<1>5. IsOpen(t) /\ \A k \in DOMAIN queue' : tab[queue'[k]].role # "closed" /\ queue'[k] \in Tabs
  <2>1. \A k \in 1..Len(queue) : tab[queue[k]].role # "closed" /\ queue[k] \in Tabs
    BY <1>1 DEF LeaderAgrees
  <2>2. 1 \in 1..Len(queue) /\ queue[1] = t
    BY <1>0, <1>1
  <2>3. DOMAIN queue' = 1..Len(queue') /\ \A k \in 1..Len(queue') : k + 1 \in 1..Len(queue) /\ queue'[k] = queue[k + 1]
    BY <1>0, <1>1
  <2> QED
    BY <2>1, <2>2, <2>3 DEF IsOpen
<1>6. LeaderAgrees'
  <2>1. \A u \in Tabs : tab'[u].role = "leading" => u = t
    BY <1>0, <1>2 DEF LockIsFree
  <2>2. \A k \in DOMAIN queue' : tab'[queue'[k]].role # "closed"
    BY <1>2, <1>5
  <2> QED
    BY <1>0, <1>2, <1>4, <2>1, <2>2 DEF LeaderAgrees
<1>7. /\ LogInOrder' /\ ConnAgrees' /\ PageIsWhole' /\ Rising'
      /\ Ahead' = Ahead /\ (Reads' <=> Reads) /\ Position' = Position
      /\ {conn'.cursor, opening'.last, source'.lastId, source'.url, source'.after} \subseteq Marks
      /\ conn'.page \subseteq rows
  BY <1>0, StreamStays
<1>8. \A u \in Tabs : Alike(u) \/ Fresh(u) \/ Shut(u)
  <2>1. Alike(t)
    BY <1>2, <1>4, <1>5, <1>7 DEF Alike
  <2>2. ASSUME NEW u \in Tabs, u # t PROVE Alike(u) \/ Shut(u)
    BY <1>2, <2>2, OtherTabs
  <2> QED
    BY <2>1, <2>2
<1> QED
  BY <1>0, <1>3, <1>6, <1>7, <1>8, QuietTabsPreserve

(* A tab that opens lacks nothing; it leads if nobody leads or waits.      *)
LEMMA OpenTabPreserves == ASSUME IInv, NEW t \in Tabs, OpenTab(t) PROVE IInv'
<1> USE DEF IInv
<1> DEFINE role == IF LockIsFree /\ queue = <<>> THEN "leading" ELSE "joining"
           new == [ClosedTab EXCEPT !.role = role, !.from = Newest(logged)]
<1>0. /\ tab[t].role = "closed" /\ tab' = [tab EXCEPT ![t] = new]
      /\ opens + troubles < MaxTurns /\ opens' = opens + 1
      /\ UNCHANGED <<next, writing, logged, rows, cues, conn, opening, source, queue, troubles>>
  BY DEF OpenTab, server, stream
<1>1. tab \in [Tabs -> TabRecords] /\ queue \in Seq(Tabs) /\ logged \in SUBSET Ids
  BY DEF TypeOK
<1>2. /\ new.from = Newest(logged) /\ new.seen = 0 /\ new.inbox = <<>> /\ new.role = role
      /\ new \in TabRecords
  <2>1. Newest(logged) \in Ids \cup {0}
    BY <1>1, NewestIsGreatest
  <2>2. /\ ClosedTab \in TabRecords
        /\ ClosedTab.seen = 0 /\ ClosedTab.inbox = <<>>
    BY DEF ClosedTab, TabRecords
  <2>3. role \in {"leading", "joining"}
    OBVIOUS
  <2> HIDE DEF role
  <2> QED
    BY <2>1, <2>2, <2>3 DEF TabRecords
<1> HIDE DEF new
<1>3. /\ tab'[t] = new
      /\ \A u \in Tabs : u # t => tab'[u] = tab[u]
      /\ tab' \in [Tabs -> TabRecords]
  BY <1>0, <1>1, <1>2
<1>4. TypeOK'
  <2>1. opens' \in 0..MaxTurns
    BY <1>0, StreamAssumption DEF TypeOK
  <2> QED
    BY <1>0, <1>3, <2>1 DEF TypeOK
<1>5. LeaderAgrees'
  <2>1. \A k \in DOMAIN queue : queue[k] \in Tabs /\ queue[k] # t /\ tab'[queue[k]].role # "closed"
    BY <1>0, <1>1, <1>3 DEF LeaderAgrees
  <2>2. CASE role = "leading"
    <3>1. LockIsFree
      BY <2>2
    <3>2. source.state = "none" /\ source.lastId = 0 /\ source.url = 0 /\ source.after = 0 /\ conn.phase = "closed"
      BY <3>1, NoStreamWithoutLeader, Blank
    <3>3. \A u \in Tabs : tab'[u].role = "leading" => u = t
      BY <1>3, <3>1 DEF LockIsFree
    <3> QED
      BY <1>0, <1>2, <1>3, <2>1, <3>2, <3>3 DEF LeaderAgrees
  <2>3. CASE role = "joining"
    <3>1. \A u \in Tabs : tab'[u].role = "leading" <=> tab[u].role = "leading"
      BY <1>0, <1>2, <1>3, <2>3
    <3>2. \A u \in Tabs : tab[u].role = "leading" => tab'[u].seen = tab[u].seen
      BY <1>0, <1>3
    <3> HIDE DEF role
    <3> QED
      BY <1>0, <2>1, <3>1, <3>2 DEF LeaderAgrees
  <2> QED
    BY <2>2, <2>3
<1>6. /\ LogInOrder' /\ ConnAgrees' /\ PageIsWhole' /\ Rising'
      /\ Ahead' = Ahead /\ (Reads' <=> Reads) /\ Position' = Position
      /\ {conn'.cursor, opening'.last, source'.lastId, source'.url, source'.after} \subseteq Marks
      /\ conn'.page \subseteq rows
  BY <1>0, StreamStays
<1>7. \A u \in Tabs : Alike(u) \/ Fresh(u) \/ Shut(u)
  <2>1. Fresh(t)
    BY <1>2, <1>3 DEF Fresh
  <2>2. ASSUME NEW u \in Tabs, u # t PROVE Alike(u) \/ Shut(u)
    BY <1>3, <2>2, OtherTabs
  <2> QED
    BY <2>1, <2>2
<1> QED
  BY <1>0, <1>4, <1>5, <1>6, <1>7, QuietTabsPreserve

(* Numbers rise where there are none.                                      *)
LEMMA NothingRises ==
  ASSUME Ahead' = <<>>, ~Reads'
  PROVE  Rising'
<1>1. DOMAIN <<>> = {}
  OBVIOUS
<1> QED
  BY <1>1 DEF Rising

(* The leader opens a stream that resumes from what it has seen.           *)
LEMMA OpenSourcePreserves == ASSUME IInv, NEW t \in Tabs, OpenSource(t) PROVE IInv'
<1> USE DEF IInv
<1>0. /\ tab[t].role = "leading" /\ source.state = "none"
      /\ source' = [NoSource EXCEPT !.state = "waiting", !.url = tab[t].seen]
      /\ UNCHANGED <<next, writing, logged, rows, cues, conn, opening, tab, queue, opens, troubles>>
  BY DEF OpenSource, server, browser
<1>1. /\ tab[t] \in TabRecords /\ tab[t].seen \in Ids \cup {0} /\ tab[t].seen \in Nat
      /\ tab[t].seen \in Marks
  BY IdsAreNumbers, SequencesNow DEF TabRecords, MarksAreLogged
<1>2. source = NoSource /\ conn.phase = "closed" /\ Ahead = <<>> /\ ~Reads
  BY <1>0, NoStreamWithoutLeader
<1>3. /\ source' \in Sources /\ source'.state = "waiting" /\ source'.url = tab[t].seen
      /\ source'.lastId = 0 /\ source'.after = 0
  BY <1>0, <1>1 DEF NoSource, Sources
<1>4. TypeOK'
  BY <1>0, <1>3 DEF TypeOK
<1>5. LogInOrder' /\ PageIsWhole'
  BY <1>0 DEF LogInOrder, PageIsWhole
<1>6. ConnAgrees'
  BY <1>0, <1>2, <1>3 DEF ConnAgrees
<1>7. Ahead' = Ahead /\ (Reads' <=> Reads) /\ Position' = Position
  BY <1>0 DEF Ahead, Reads, Position
<1>8. Rising'
  BY <1>2, <1>7, NothingRises
<1>9. LeaderAgrees'
  <2>1. \A u \in Tabs : tab[u].role = "leading" => u = t
    BY <1>0 DEF LeaderAgrees
  <2>2. 0 <= tab[t].seen /\ tab[t].seen <= tab[t].seen
    BY <1>1
  <2> QED
    BY <1>0, <1>2, <1>3, <2>1, <2>2 DEF LeaderAgrees
<1>10. /\ {conn'.cursor, opening'.last, source'.lastId, source'.url, source'.after} \subseteq Marks
       /\ conn'.page \subseteq rows
  BY <1>0, <1>1, <1>3 DEF MarksAreLogged, Marks
<1>11. \A u \in Tabs : Alike(u) \/ Fresh(u) \/ Shut(u)
  <2>1. \A u \in Tabs : tab'[u] = tab[u]
    BY <1>0
  <2> QED
    BY <2>1, OtherTabs
<1> QED
  BY <1>0, <1>4, <1>5, <1>6, <1>7, <1>8, <1>9, <1>10, <1>11, QuietTabsPreserve

(* A tab that closes takes the stream with it if it leads.                 *)
LEMMA CloseTabPreserves == ASSUME IInv, NEW t \in Tabs, CloseTab(t) PROVE IInv'
<1> USE DEF IInv
<1>0. /\ IsOpen(t) /\ tab' = [tab EXCEPT ![t] = ClosedTab]
      /\ queue' = Without(queue, t)
      /\ UNCHANGED <<next, writing, logged, rows, cues, opens, troubles>>
      /\ IF tab[t].role = "leading"
         THEN conn' = Link!Closed /\ opening' = NotRead /\ source' = NoSource
         ELSE UNCHANGED <<conn, opening, source>>
  BY DEF CloseTab, server, stream
<1>1. tab \in [Tabs -> TabRecords] /\ queue \in Seq(Tabs)
  BY DEF TypeOK
<1>2. ClosedTab \in TabRecords /\ ClosedTab.role = "closed"
  <2>1. <<>> \in Seq(Frames)
    OBVIOUS
  <2> QED
    BY <2>1 DEF ClosedTab, TabRecords
<1>3. /\ tab'[t] = ClosedTab
      /\ \A u \in Tabs : u # t => tab'[u] = tab[u]
      /\ tab' \in [Tabs -> TabRecords]
  BY <1>0, <1>1, <1>2
<1>4. /\ queue' \in Seq(Tabs)
      /\ \A k \in DOMAIN queue' : tab'[queue'[k]].role # "closed"
  <2>1. /\ Without(queue, t) \in Seq(Tabs)
        /\ \A k \in DOMAIN Without(queue, t) : \E m \in DOMAIN queue : Without(queue, t)[k] = queue[m] /\ queue[m] # t
    BY <1>1, WithoutKeepsOthers
  <2>2. \A m \in DOMAIN queue : queue[m] \in Tabs /\ tab[queue[m]].role # "closed"
    BY <1>1 DEF LeaderAgrees
  <2>3. ASSUME NEW k \in DOMAIN queue' PROVE tab'[queue'[k]].role # "closed"
    <3>1. PICK m \in DOMAIN queue : queue'[k] = queue[m] /\ queue[m] # t
      BY <1>0, <2>1
    <3> QED
      BY <1>3, <2>2, <3>1
  <2> QED
    BY <1>0, <2>1, <2>3
<1>5. \A u \in Tabs : Alike(u) \/ Fresh(u) \/ Shut(u)
  <2>1. Shut(t)
    BY <1>2, <1>3 DEF Shut
  <2>2. ASSUME NEW u \in Tabs, u # t PROVE Alike(u) \/ Shut(u)
    BY <1>3, <2>2, OtherTabs
  <2> QED
    BY <2>1, <2>2
<1>6. CASE tab[t].role # "leading"
  <2>1. TypeOK'
    BY <1>0, <1>3, <1>4, <1>6 DEF TypeOK
  <2>2. LeaderAgrees'
    <3>1. \A u \in Tabs : tab'[u].role = "leading" <=> tab[u].role = "leading"
      BY <1>2, <1>3, <1>6
    <3>2. \A u \in Tabs : tab[u].role = "leading" => tab'[u].seen = tab[u].seen
      BY <1>3, <1>6
    <3> QED
      BY <1>0, <1>4, <1>6, <3>1, <3>2 DEF LeaderAgrees
  <2>3. /\ LogInOrder' /\ ConnAgrees' /\ PageIsWhole' /\ Rising'
        /\ Ahead' = Ahead /\ (Reads' <=> Reads) /\ Position' = Position
        /\ {conn'.cursor, opening'.last, source'.lastId, source'.url, source'.after} \subseteq Marks
        /\ conn'.page \subseteq rows
    BY <1>0, <1>6, StreamStays
  <2> QED
    BY <1>0, <1>5, <2>1, <2>2, <2>3, QuietTabsPreserve
<1>7. CASE tab[t].role = "leading"
  <2>1. conn' = Link!Closed /\ opening' = NotRead /\ source' = NoSource
    BY <1>0, <1>7
  <2>2. /\ conn' \in Conns /\ conn'.phase = "closed"
        /\ conn'.wire = <<>> /\ conn'.queue = <<>> /\ conn'.lossy = <<>> /\ conn'.buffer = <<>>
        /\ conn'.reading = "idle" /\ conn'.page = {} /\ conn'.cursor = 0
    <3>1. conn' \in Conns
      BY <2>1, EndedType
    <3> QED
      BY <2>1, <3>1 DEF Link!Closed
  <2>3. TypeOK'
    BY <1>0, <1>3, <1>4, <2>1, <2>2, Blank DEF TypeOK, Conns
  <2>4. LogInOrder'
    BY <1>0 DEF LogInOrder
  <2>5. ConnAgrees'
    <3>1. \A k \in DOMAIN conn'.buffer : conn'.buffer[k].id # 0
      BY <2>2
    <3> QED
      BY <2>1, <2>2, <3>1, Blank DEF ConnAgrees
  <2>6. PageIsWhole'
    <3>1. rows \in SUBSET Ids /\ rows' = rows
      BY <1>0, SequencesNow
    <3>2. Link!LastRead(conn') = 0
      BY <2>2 DEF Link!LastRead
    <3>3. \A j \in rows : ~(0 < j /\ j <= 0)
      BY <3>1, IdsAreNumbers
    <3> QED
      BY <2>2, <3>1, <3>2, <3>3 DEF PageIsWhole
  <2>7. Ahead' = <<>> /\ ~Reads'
    <3>1. <<>> \o <<>> \o <<>> = <<>>
      OBVIOUS
    <3> QED
      BY <2>1, <2>2, <3>1, Blank DEF Ahead, Reads
  <2>8. Rising'
    BY <2>7, NothingRises
  <2>9. LeaderAgrees'
    <3>1. \A u \in Tabs : tab'[u].role # "leading"
      BY <1>2, <1>3, <1>7 DEF LeaderAgrees
    <3> QED
      BY <1>4, <2>1, <2>2, <3>1, Blank DEF LeaderAgrees
  <2>10. /\ {conn'.cursor, opening'.last, source'.lastId, source'.url, source'.after} \subseteq Marks
         /\ conn'.page \subseteq rows
    BY <2>1, <2>2, Blank DEF Marks
  <2> QED
    BY <1>0, <1>5, <2>3, <2>4, <2>5, <2>6, <2>7, <2>8, <2>9, <2>10, QuietTabsPreserve
<1> QED
  BY <1>6, <1>7

-----------------------------------------------------------------------------
(* The first message of a tab and those behind it.                         *)
LEMMA FirstAndRest ==
  ASSUME NEW s \in Seq(Frames), s # <<>>
  PROVE  /\ Head(s) \in Frames /\ Tail(s) \in Seq(Frames) /\ s = <<Head(s)>> \o Tail(s)
         /\ 1 \in DOMAIN s /\ s[1] = Head(s) /\ <<Head(s)>> \in Seq(Frames)
         /\ \A k \in DOMAIN Tail(s) : k + 1 \in DOMAIN s /\ Tail(s)[k] = s[k + 1]
<1> DEFINE f == Head(s)
           rest == Tail(s)
<1>1. /\ f \in Frames /\ rest \in Seq(Frames) /\ Len(s) \in Nat \ {0} /\ Len(rest) = Len(s) - 1
      /\ f = s[1] /\ \A k \in 1..Len(s) - 1 : rest[k] = s[k + 1]
  OBVIOUS
<1>2. /\ \A k \in DOMAIN rest : k + 1 \in DOMAIN s /\ rest[k] = s[k + 1]
      /\ 1 \in DOMAIN s
  <2> HIDE DEF rest
  <2> QED
    BY <1>1
<1>3. s = <<f>> \o rest
  <2>1. <<f>> \o rest \in Seq(Frames) /\ Len(<<f>> \o rest) = Len(s)
    BY <1>1
  <2>2. ASSUME NEW k \in 1..Len(s) PROVE (<<f>> \o rest)[k] = s[k]
    <3> HIDE DEF f, rest
    <3>1. CASE k = 1
      BY <1>1, <3>1
    <3>2. CASE k # 1
      <4>1. k - 1 \in 1..Len(s) - 1 /\ (k - 1) + 1 = k
        BY <1>1, <3>2
      <4>2. (<<f>> \o rest)[k] = rest[k - 1]
        BY <1>1, <3>2, <4>1
      <4> QED
        BY <1>1, <4>1, <4>2
    <3> QED
      BY <3>1, <3>2
  <2> HIDE DEF f, rest
  <2> QED
    BY <1>1, <2>1, <2>2, SeqEqual
<1> QED
  BY <1>1, <1>2, <1>3

(* A tab hears a message.                                                  *)
LEMMA HearPreserves == ASSUME IInv, NEW t \in Tabs, Hear(t) PROVE IInv'
<1> USE DEF IInv
<1> DEFINE r == tab[t]
           f == Head(r.inbox)
           rest == Tail(r.inbox)
           less == [r EXCEPT !.inbox = rest]
           d == Delivered(less, f)
<1>0. /\ r.inbox # <<>> /\ tab' = [tab EXCEPT ![t] = d]
      /\ UNCHANGED <<next, writing, logged, rows, cues, conn, opening, source, queue, opens, troubles>>
  BY DEF Hear, server, stream
<1>1. /\ tab \in [Tabs -> TabRecords] /\ r \in TabRecords /\ r.inbox \in Seq(Frames)
      /\ Known \in SUBSET Ids /\ Ahead \in Seq(Frames)
      /\ \A j \in Known : j \in Nat
  BY SequencesNow, IdsAreNumbers DEF TypeOK
<1>2. /\ f \in Frames /\ rest \in Seq(Frames) /\ r.inbox = <<f>> \o rest
      /\ 1 \in DOMAIN r.inbox /\ r.inbox[1] = f /\ <<f>> \in Seq(Frames)
      /\ \A k \in DOMAIN rest : k + 1 \in DOMAIN r.inbox /\ rest[k] = r.inbox[k + 1]
  BY <1>0, <1>1, FirstAndRest
<1> HIDE DEF f, rest
<1>3. /\ less \in TabRecords /\ less.inbox = rest /\ less.role = r.role
      /\ less.seen = r.seen /\ less.from = r.from /\ less.heard = r.heard
      /\ r.seen <= less.seen /\ r.from <= less.from /\ r.seen \in Nat /\ r.from \in Nat
  <2>1. r \in TabRecords /\ rest \in Seq(Frames)
    BY <1>1, <1>2
  <2> HIDE DEF r
  <2>2. r.seen \in Nat /\ r.from \in Nat
    BY <2>1, IdsAreNumbers DEF TabRecords
  <2>3. /\ less \in TabRecords /\ less.inbox = rest /\ less.role = r.role
        /\ less.seen = r.seen /\ less.from = r.from /\ less.heard = r.heard
    BY <2>1 DEF TabRecords
  <2> HIDE DEF less
  <2> QED
    BY <2>2, <2>3
<1> HIDE DEF less
<1>4. /\ d \in TabRecords /\ d.role = r.role /\ d.inbox = rest
      /\ r.seen <= d.seen /\ r.from <= d.from
      /\ d.seen = r.seen \/ d.seen = f.id
  <2>1. \A k \in 1..Len(<<f>> \o <<>>) : \A j \in {} : FALSE
    OBVIOUS
  <2>2. Sound({}, less, <<f>> \o <<>>)
    BY DEF Sound
  <2>3. <<>> \in Seq(Frames) /\ {} \in SUBSET Ids
    OBVIOUS
  <2>4. /\ d \in TabRecords
        /\ d.role = less.role /\ d.inbox = less.inbox
        /\ less.seen <= d.seen /\ less.from <= d.from
        /\ d.seen \in {less.seen, f.id}
    BY <1>2, <1>3, <2>2, <2>3, DeliveryBrings
  <2> QED
    BY <1>3, <2>4
<1> HIDE DEF r
<1>5. ASSUME NEW s \in Seq(Frames), Sound(Known, r, <<f>> \o s)
      PROVE  /\ \A j \in Known : Has(r, <<f>> \o s, j) => Has(d, s, j)
             /\ Sound(Known, d, s)
             /\ Unskipped(Known, r) => Unskipped(Known, d)
  <2>1. <<f>> \o s \in Seq(Frames)
    BY <1>2
  <2>2. /\ Sound(Known, less, <<f>> \o s)
        /\ \A j \in Known : Has(r, <<f>> \o s, j) => Has(less, <<f>> \o s, j)
    BY <1>1, <1>3, <1>5, <2>1, HasMore
  <2>3. Unskipped(Known, r) => Unskipped(Known, less)
    BY <1>3 DEF Unskipped
  <2>4. /\ \A j \in Known : Has(less, <<f>> \o s, j) => Has(d, s, j)
        /\ Sound(Known, d, s)
        /\ Unskipped(Known, less) => Unskipped(Known, d)
    BY <1>1, <1>2, <1>3, <2>2, DeliveryBrings
  <2> QED
    BY <2>2, <2>3, <2>4
<1> HIDE DEF d
<1>6. /\ tab'[t] = d
      /\ \A u \in Tabs : u # t => tab'[u] = tab[u]
      /\ tab' \in [Tabs -> TabRecords]
      /\ tab[t] = r
  BY <1>0, <1>1, <1>4 DEF r
<1>7. TypeOK'
  BY <1>0, <1>6 DEF TypeOK
<1>8. /\ LogInOrder' /\ ConnAgrees' /\ PageIsWhole' /\ Rising'
      /\ Ahead' = Ahead /\ (Reads' <=> Reads) /\ Position' = Position
  BY <1>0, StreamStays
<1>9. Known' = Known /\ Marks' = Marks
  BY <1>0 DEF Known, Marks
<1>10. \A u \in Tabs : tab'[u].role = tab[u].role
  BY <1>4, <1>6
<1>11. MarksAreLogged'
  <2>1. f.id \in Marks /\ r.seen \in Marks /\ \A k \in DOMAIN r.inbox : r.inbox[k].id \in Marks
    BY <1>2, <1>6 DEF MarksAreLogged
  <2>2. d.seen \in Marks /\ \A k \in DOMAIN rest : rest[k].id \in Marks
    BY <1>2, <1>4, <2>1
  <2>3. ASSUME NEW u \in Tabs
        PROVE  tab'[u].seen \in Marks /\ \A k \in DOMAIN tab'[u].inbox : tab'[u].inbox[k].id \in Marks
    <3>1. CASE u = t
      BY <1>4, <1>6, <2>2, <3>1
    <3>2. CASE u # t
      BY <1>6, <3>2 DEF MarksAreLogged
    <3> QED
      BY <3>1, <3>2
  <2>4. \A k \in DOMAIN Ahead' : Ahead'[k].id \in Marks
    BY <1>8 DEF MarksAreLogged
  <2> QED
    BY <1>0, <1>9, <2>3, <2>4 DEF MarksAreLogged
<1>12. LeaderAgrees'
  <2>1. /\ \A u \in Tabs : tab[u].role = "leading" =>
             source.lastId <= tab'[u].seen /\ source.url <= tab'[u].seen /\ source.after <= tab'[u].seen
    <3>1. SUFFICES ASSUME NEW u \in Tabs, tab[u].role = "leading"
                   PROVE  source.lastId <= tab'[u].seen /\ source.url <= tab'[u].seen /\ source.after <= tab'[u].seen
      OBVIOUS
    <3>2. source.lastId <= tab[u].seen /\ source.url <= tab[u].seen /\ source.after <= tab[u].seen
      BY <3>1 DEF LeaderAgrees
    <3>3. CASE u # t
      BY <1>6, <3>2, <3>3
    <3>4. CASE u = t
      <4>1. {source.lastId, source.url, source.after} \subseteq Nat /\ d.seen \in Nat
        BY <1>4, IdsAreNumbers DEF TypeOK, Sources, TabRecords
      <4> QED
        BY <1>3, <1>4, <1>6, <3>2, <3>4, <4>1
    <3> QED
      BY <3>3, <3>4
  <2> QED
    BY <1>0, <1>10, <2>1 DEF LeaderAgrees
<1>13. NoGaps'
  <2>1. SUFFICES ASSUME NEW u \in Tabs, IsOpen(u)
                 PROVE  /\ Unskipped(Known, tab'[u])
                        /\ Sound(Known, tab'[u], tab'[u].inbox)
                        /\ Sound(Known, tab'[u], Coming(u)')
                        /\ Reads => \A j \in Known : j <= Position \/ j \notin rows => Has(tab'[u], Coming(u)', j)
    BY <1>0, <1>8, <1>9, <1>10 DEF NoGaps, IsOpen
  <2>2. /\ Unskipped(Known, tab[u])
        /\ Sound(Known, tab[u], tab[u].inbox)
        /\ Sound(Known, tab[u], Coming(u))
        /\ Reads => \A j \in Known : j <= Position \/ j \notin rows => Has(tab[u], Coming(u), j)
    BY <2>1 DEF NoGaps
  <2>3. CASE u # t
    <3>1. tab'[u] = tab[u] /\ Coming(u)' = Coming(u)
      BY <1>6, <1>8, <2>3 DEF Coming
    <3> QED
      BY <2>2, <3>1
  <2>4. CASE u = t
    <3>1. Sound(Known, d, rest) /\ Unskipped(Known, d)
      BY <1>2, <1>5, <1>6, <2>2, <2>4
    <3>2. CASE r.role = "leading"
      <4>1. Coming(u) = Ahead /\ Coming(u)' = Ahead
        BY <1>4, <1>6, <1>8, <2>4, <3>2 DEF Coming
      <4>2. /\ Sound(Known, d, Ahead)
            /\ \A j \in Known : Has(r, Ahead, j) => Has(d, Ahead, j)
        <5>1. r \in TabRecords
          BY <1>1, <1>6
        <5> HIDE DEF IInv
        <5> QED
          BY <1>1, <1>4, <1>6, <2>2, <2>4, <4>1, <5>1, HasMore, Zenon
      <4> QED
        BY <1>4, <1>6, <2>2, <2>4, <3>1, <4>1, <4>2
    <3>3. CASE r.role # "leading"
      <4>1. Coming(u) = (<<f>> \o rest) \o Ahead /\ Coming(u)' = rest \o Ahead
        BY <1>2, <1>4, <1>6, <1>8, <2>4, <3>3 DEF Coming
      <4>2. (<<f>> \o rest) \o Ahead = <<f>> \o (rest \o Ahead)
        BY <1>1, <1>2, Associates
      <4>3. rest \o Ahead \in Seq(Frames)
        BY <1>1, <1>2
      <4>4. /\ Sound(Known, d, rest \o Ahead)
            /\ \A j \in Known : Has(r, <<f>> \o (rest \o Ahead), j) => Has(d, rest \o Ahead, j)
        BY <1>5, <1>6, <2>2, <2>4, <4>1, <4>2, <4>3
      <4> QED
        BY <1>4, <1>6, <2>2, <2>4, <3>1, <4>1, <4>2, <4>4
    <3> QED
      BY <3>2, <3>3
  <2> QED
    BY <2>3, <2>4
<1>14. Shared'
  <2>1. SUFFICES ASSUME NEW v \in Tabs, NEW u \in Tabs, IsOpen(v), IsOpen(u), NEW j \in Known,
                        j <= tab'[u].seen \/ \E k \in DOMAIN tab'[u].inbox : j <= tab'[u].inbox[k].id
                 PROVE  Has(tab'[v], tab'[v].inbox, j)
    BY <1>9, <1>10 DEF Shared, IsOpen
  <2>2. j <= tab[u].seen \/ \E k \in DOMAIN tab[u].inbox : j <= tab[u].inbox[k].id
    <3>1. CASE u # t
      BY <1>6, <2>1, <3>1
    <3>2. CASE u = t
      BY <1>2, <1>4, <1>6, <2>1, <3>2
    <3> QED
      BY <3>1, <3>2
  <2>3. Has(tab[v], tab[v].inbox, j)
    BY <2>1, <2>2 DEF Shared
  <2>4. CASE v # t
    BY <1>6, <2>3, <2>4
  <2>5. CASE v = t
    <3>1. Sound(Known, r, <<f>> \o rest)
      BY <1>2, <1>6, <2>1, <2>5 DEF NoGaps
    <3> QED
      BY <1>2, <1>4, <1>5, <1>6, <2>3, <2>5, <3>1
  <2> QED
    BY <2>4, <2>5
<1> QED
  BY <1>7, <1>8, <1>11, <1>12, <1>13, <1>14

(* A frame and what is behind it.                                          *)
LEMMA BehindFirst ==
  ASSUME NEW f \in Frames, NEW s \in Seq(Frames)
  PROVE  /\ <<f>> \o s \in Seq(Frames) /\ Len(<<f>> \o s) = Len(s) + 1 /\ Len(s) \in Nat
         /\ (<<f>> \o s)[1] = f
         /\ \A k \in 1..Len(s) : (<<f>> \o s)[k + 1] = s[k]
  OBVIOUS

(* One more message.                                                       *)
LEMMA AppendIsBehind ==
  ASSUME NEW s \in Seq(Frames), NEW f \in Frames
  PROVE  Append(s, f) = s \o <<f>> /\ s \o <<f>> \in Seq(Frames)
  OBVIOUS

(* The next frame is the first of those that are ahead.                    *)
LEMMA NextFrame ==
  ASSUME IInv, Receive
  PROVE  /\ Head(conn.wire) \in Frames /\ Ahead' \in Seq(Frames)
         /\ Ahead = <<Head(conn.wire)>> \o Ahead'
         /\ conn.phase \notin {"closed", "opening"}
         /\ conn' \in Conns /\ conn' = [conn EXCEPT !.wire = Tail(conn.wire)]
<1> USE DEF IInv
<1> DEFINE f == Head(conn.wire)
           rest == Tail(conn.wire)
<1>0. /\ conn.wire # <<>> /\ conn' = [conn EXCEPT !.wire = rest]
      /\ UNCHANGED opening
  BY DEF Receive
<1>1. conn \in Conns /\ conn.wire \in Seq(Frames) /\ conn.queue \in Seq(Frames)
  BY SequencesNow
<1>2. f \in Frames /\ rest \in Seq(Frames) /\ conn.wire = <<f>> \o rest /\ <<f>> \in Seq(Frames)
  BY <1>0, <1>1, FirstAndRest
<1> HIDE DEF f, rest
<1>3. conn.phase \notin {"closed", "opening"} /\ opening.frames = <<>>
  BY <1>0 DEF ConnAgrees
<1>4. conn' \in Conns /\ conn'.wire = rest /\ conn'.queue = conn.queue
  BY <1>0, <1>1, <1>2 DEF Conns, Link!Connections
<1>5. rest \o conn.queue \in Seq(Frames)
  BY <1>1, <1>2
<1>6. Ahead' = rest \o conn.queue
  <2>1. (rest \o conn.queue) \o <<>> = rest \o conn.queue
    BY <1>5
  <2> QED
    BY <1>0, <1>3, <1>4, <2>1 DEF Ahead
<1>7. Ahead = <<f>> \o (rest \o conn.queue)
  <2>1. (<<f>> \o rest) \o conn.queue = <<f>> \o (rest \o conn.queue)
    BY <1>1, <1>2, Associates
  <2>2. <<f>> \o (rest \o conn.queue) \in Seq(Frames)
    BY <1>2, <1>5
  <2>3. (<<f>> \o (rest \o conn.queue)) \o <<>> = <<f>> \o (rest \o conn.queue)
    BY <2>2
  <2> QED
    BY <1>2, <1>3, <2>1, <2>3 DEF Ahead
<1> QED
  BY <1>0, <1>2, <1>3, <1>4, <1>5, <1>6, <1>7 DEF f, rest

(* The leader is given a frame and posts it.                               *)
LEMMA ReceivePreserves == ASSUME IInv, Receive PROVE IInv'
<1> USE DEF IInv
<1> DEFINE f == Head(conn.wire)
<1>0. /\ source.state = "connected"
      /\ source' = IF f.id = 0 THEN source ELSE [source EXCEPT !.lastId = f.id]
      /\ tab' = [t \in Tabs |->
            CASE tab[t].role = "leading" -> Delivered(tab[t], f)
              [] tab[t].role = "closed" -> tab[t]
              [] OTHER -> [tab[t] EXCEPT !.inbox = Append(@, f)]]
      /\ UNCHANGED <<next, writing, logged, rows, cues, opening, queue, opens, troubles>>
  BY DEF Receive, server
<1>1. /\ f \in Frames /\ Ahead' \in Seq(Frames) /\ Ahead = <<f>> \o Ahead'
      /\ conn.phase \notin {"closed", "opening"} /\ ~opening.read
      /\ conn' \in Conns /\ conn' = [conn EXCEPT !.wire = Tail(conn.wire)]
  BY NextFrame DEF ConnAgrees
<1> HIDE DEF f
<1>2. /\ conn'.phase = conn.phase /\ conn'.queue = conn.queue /\ conn'.reading = conn.reading
      /\ conn'.lossy = conn.lossy /\ conn'.slow = conn.slow /\ conn'.page = conn.page
      /\ conn'.buffer = conn.buffer /\ conn'.cursor = conn.cursor
  BY <1>1, SequencesNow DEF Conns, Link!Connections
<1>3. /\ source' \in Sources /\ source'.state = "connected"
      /\ source'.url = source.url /\ source'.after = source.after
      /\ f.id = 0 => source'.lastId = source.lastId
      /\ f.id # 0 => source'.lastId = f.id
  <2>1. source \in Sources /\ f.id \in Ids \cup {0}
    BY <1>1 DEF TypeOK, Frames
  <2> QED
    BY <1>0, <2>1 DEF Sources
<1>4. PICK l \in Tabs : tab[l].role = "leading"
  BY <1>0 DEF LeaderAgrees
<1> DEFINE d == Delivered(tab[l], f)
           post(u) == [tab[u] EXCEPT !.inbox = Append(@, f)]
<1>5. \A u \in Tabs : tab[u].role = "leading" => u = l
  BY <1>4 DEF LeaderAgrees
<1>6. /\ tab'[l] = d
      /\ \A u \in Tabs : u # l /\ tab[u].role = "closed" => tab'[u] = tab[u]
      /\ \A u \in Tabs : u # l /\ tab[u].role # "closed" => tab'[u] = post(u)
  BY <1>0, <1>4, <1>5
<1>7. /\ \A u \in Tabs : tab[u] \in TabRecords /\ tab[u].inbox \in Seq(Frames)
      /\ Known \in SUBSET Ids /\ Ahead \in Seq(Frames)
      /\ \A j \in Known : j \in Nat
  BY SequencesNow, IdsAreNumbers
<1>8. ASSUME NEW u \in Tabs, u # l, tab[u].role # "closed"
      PROVE  /\ tab'[u] \in TabRecords /\ tab'[u].inbox = Append(tab[u].inbox, f)
             /\ tab'[u].role = tab[u].role /\ tab'[u].seen = tab[u].seen
             /\ tab'[u].from = tab[u].from /\ tab'[u].heard = tab[u].heard
  <2>1. tab[u] \in TabRecords /\ Append(tab[u].inbox, f) \in Seq(Frames)
    BY <1>1, <1>7
  <2>2. tab'[u] = post(u)
    BY <1>6, <1>8
  <2> QED
    BY <2>1, <2>2 DEF TabRecords
<1>9. /\ d \in TabRecords /\ d.role = "leading" /\ d.inbox = tab[l].inbox
      /\ tab[l].seen <= d.seen /\ tab[l].from <= d.from
      /\ d.seen \in {tab[l].seen, f.id} /\ f.id <= d.seen
      /\ \A j \in Known : Has(tab[l], Ahead, j) => Has(d, Ahead', j)
      /\ Sound(Known, d, Ahead')
      /\ Unskipped(Known, d)
  <2>1. IsOpen(l) /\ Coming(l) = Ahead
    BY <1>4 DEF IsOpen, Coming
  <2>2. Sound(Known, tab[l], <<f>> \o Ahead') /\ Unskipped(Known, tab[l])
    BY <1>1, <2>1 DEF NoGaps
  <2>3. /\ d \in TabRecords
        /\ d.role = tab[l].role /\ d.inbox = tab[l].inbox
        /\ tab[l].seen <= d.seen /\ tab[l].from <= d.from
        /\ d.seen \in {tab[l].seen, f.id} /\ f.id <= d.seen
        /\ \A j \in Known : Has(tab[l], <<f>> \o Ahead', j) => Has(d, Ahead', j)
        /\ Sound(Known, d, Ahead')
        /\ Unskipped(Known, tab[l]) => Unskipped(Known, d)
    BY <1>1, <1>7, <2>2, DeliveryBrings
  <2> HIDE DEF d
  <2> QED
    BY <1>1, <1>4, <2>2, <2>3
<1> HIDE DEF d, post
<1>10. TypeOK'
  <2>1. \A u \in Tabs : tab'[u] \in TabRecords
    BY <1>6, <1>7, <1>8, <1>9
  <2>2. tab' \in [Tabs -> TabRecords]
    BY <1>0, <2>1
  <2> QED
    BY <1>0, <1>1, <1>3, <2>2 DEF TypeOK, Conns
<1>11. /\ LogInOrder' /\ PageIsWhole' /\ ConnAgrees'
  BY <1>0, <1>1, <1>2, <1>3 DEF LogInOrder, PageIsWhole, ConnAgrees, Link!LastRead
<1>12. (Reads' <=> Reads) /\ Position' = Position /\ Known' = Known /\ Marks' = Marks
  BY <1>0, <1>2 DEF Reads, Position, Known, Marks
<1>13. \A u \in Tabs : tab'[u].role = tab[u].role
  BY <1>4, <1>6, <1>8, <1>9
<1>14. /\ DOMAIN Ahead = 1..Len(Ahead') + 1 /\ DOMAIN Ahead' = 1..Len(Ahead') /\ Len(Ahead') \in Nat
       /\ Ahead[1] = f
       /\ \A k \in DOMAIN Ahead' : Ahead[k + 1] = Ahead'[k]
  <2>1. /\ <<f>> \o Ahead' \in Seq(Frames) /\ Len(<<f>> \o Ahead') = Len(Ahead') + 1 /\ Len(Ahead') \in Nat
        /\ (<<f>> \o Ahead')[1] = f
        /\ \A k \in 1..Len(Ahead') : (<<f>> \o Ahead')[k + 1] = Ahead'[k]
    BY <1>1, BehindFirst
  <2>2. DOMAIN Ahead' = 1..Len(Ahead') /\ DOMAIN Ahead = 1..Len(Ahead)
    BY <1>1, <1>7
  <2> QED
    BY <1>1, <2>1, <2>2
<1>15. f.id \in Marks /\ \A k \in DOMAIN Ahead' : Ahead'[k].id \in Marks
  <2>1. 1 \in DOMAIN Ahead /\ \A k \in DOMAIN Ahead' : k + 1 \in DOMAIN Ahead
    BY <1>14
  <2> QED
    BY <1>14, <2>1 DEF MarksAreLogged
<1>16. MarksAreLogged'
  <2>1. ASSUME NEW u \in Tabs
        PROVE  tab'[u].seen \in Marks /\ \A k \in DOMAIN tab'[u].inbox : tab'[u].inbox[k].id \in Marks
    <3>0. tab[u].seen \in Marks /\ \A k \in DOMAIN tab[u].inbox : tab[u].inbox[k].id \in Marks
      BY DEF MarksAreLogged
    <3>1. CASE u = l
      BY <1>6, <1>9, <1>15, <3>0, <3>1
    <3>2. CASE u # l /\ tab[u].role = "closed"
      BY <1>6, <3>0, <3>2
    <3>3. CASE u # l /\ tab[u].role # "closed"
      <4>1. \A k \in DOMAIN Append(tab[u].inbox, f) :
              (k \in DOMAIN tab[u].inbox /\ Append(tab[u].inbox, f)[k] = tab[u].inbox[k])
              \/ Append(tab[u].inbox, f)[k] = f
        BY <1>1, <1>7
      <4> QED
        BY <1>8, <1>15, <3>0, <3>3, <4>1
    <3> QED
      BY <3>1, <3>2, <3>3
  <2>2. {source'.lastId, source'.url, source'.after} \subseteq Marks
    BY <1>3, <1>15 DEF MarksAreLogged
  <2> QED
    BY <1>0, <1>2, <1>12, <1>15, <2>1, <2>2 DEF MarksAreLogged
<1>17. LeaderAgrees'
  <2>1. source'.lastId <= d.seen /\ source'.url <= d.seen /\ source'.after <= d.seen
    <3>1. source.lastId <= tab[l].seen /\ source.url <= tab[l].seen /\ source.after <= tab[l].seen
      BY <1>4 DEF LeaderAgrees
    <3>2. /\ {source.lastId, source.url, source.after} \subseteq Nat
          /\ d.seen \in Nat /\ tab[l].seen \in Nat
      BY <1>7, <1>9, IdsAreNumbers DEF TypeOK, Sources, TabRecords
    <3> QED
      BY <1>3, <1>9, <3>1, <3>2
  <2>2. \A u \in Tabs : tab'[u].role = "leading" => u = l
    BY <1>5, <1>13
  <2>3. \A k \in DOMAIN queue' : tab'[queue'[k]].role # "closed"
    <3>1. \A k \in DOMAIN queue : queue[k] \in Tabs
      BY DEF TypeOK
    <3> QED
      BY <1>0, <1>13, <3>1 DEF LeaderAgrees
  <2> QED
    BY <1>1, <1>2, <1>4, <1>6, <1>9, <2>1, <2>2, <2>3 DEF LeaderAgrees
<1>18. ASSUME NEW u \in Tabs, u # l, tab[u].role # "closed"
       PROVE  /\ Coming(u)' = Coming(u) /\ Coming(u) = tab'[u].inbox \o Ahead'
              /\ tab'[u].inbox = tab[u].inbox \o <<f>> /\ <<f>> \in Seq(Frames)
              /\ tab'[u].inbox \in Seq(Frames)
  <2>1. /\ tab'[u].inbox = Append(tab[u].inbox, f) /\ tab'[u].role = tab[u].role /\ tab[u].role # "leading"
    BY <1>5, <1>8, <1>18
  <2>2. <<f>> \in Seq(Frames) /\ tab[u].inbox \in Seq(Frames)
    BY <1>1, <1>7
  <2>3. Append(tab[u].inbox, f) = tab[u].inbox \o <<f>> /\ tab[u].inbox \o <<f>> \in Seq(Frames)
    BY <1>1, <2>2, AppendIsBehind
  <2>4. (tab[u].inbox \o <<f>>) \o Ahead' = tab[u].inbox \o (<<f>> \o Ahead')
    BY <1>1, <2>2, Associates
  <2> QED
    BY <1>1, <2>1, <2>2, <2>3, <2>4 DEF Coming
<1>19. ASSUME NEW u \in Tabs, IsOpen(u)
       PROVE  Sound(Known, tab'[u], tab'[u].inbox)
  <2>0. Sound(Known, tab[u], tab[u].inbox) /\ Sound(Known, tab[u], Coming(u))
    BY <1>19 DEF NoGaps
  <2>1. CASE u = l
    <3>1. tab[l] \in TabRecords /\ tab[l].inbox \in Seq(Frames)
      BY <1>7
    <3>2. Sound(Known, d, tab[l].inbox)
      BY <1>7, <1>9, <2>0, <2>1, <3>1, HasMore
    <3> QED
      BY <1>6, <1>9, <2>1, <3>2
  <2>2. CASE u # l
    <3>1. /\ Coming(u) = tab'[u].inbox \o Ahead' /\ tab'[u].inbox \in Seq(Frames)
      BY <1>18, <1>19, <2>2 DEF IsOpen
    <3>2. /\ tab'[u] \in TabRecords /\ tab'[u].seen = tab[u].seen /\ tab'[u].from = tab[u].from
      BY <1>8, <1>19, <2>2 DEF IsOpen
    <3>3. Sound(Known, tab[u], tab'[u].inbox)
      BY <1>1, <2>0, <3>1, SoundInFront
    <3>4. tab[u].seen <= tab'[u].seen /\ tab[u].from <= tab'[u].from
      BY <3>2, IdsAreNumbers DEF TabRecords
    <3> QED
      BY <1>7, <3>1, <3>2, <3>3, <3>4, HasMore
  <2> QED
    BY <2>1, <2>2
<1>20. NoGaps'
  <2>1. SUFFICES ASSUME NEW u \in Tabs, IsOpen(u)
                 PROVE  /\ Unskipped(Known, tab'[u])
                        /\ Sound(Known, tab'[u], Coming(u)')
                        /\ Reads => \A j \in Known : j <= Position \/ j \notin rows => Has(tab'[u], Coming(u)', j)
    BY <1>0, <1>12, <1>13, <1>19 DEF NoGaps, IsOpen
  <2>2. /\ Unskipped(Known, tab[u])
        /\ Sound(Known, tab[u], Coming(u))
        /\ Reads => \A j \in Known : j <= Position \/ j \notin rows => Has(tab[u], Coming(u), j)
    BY <2>1 DEF NoGaps
  <2>3. CASE u = l
    <3>1. Coming(u) = Ahead /\ Coming(u)' = Ahead' /\ tab'[u] = d
      BY <1>4, <1>6, <1>9, <2>3 DEF Coming
    <3> QED
      BY <1>9, <2>2, <2>3, <3>1
  <2>4. CASE u # l
    <3>1. /\ Coming(u)' = Coming(u) /\ Coming(u) \in Seq(Frames)
      BY <1>18, <2>1, <2>4, SequencesNow DEF IsOpen
    <3>2. /\ tab'[u] \in TabRecords /\ tab'[u].seen = tab[u].seen /\ tab'[u].from = tab[u].from
          /\ tab'[u].heard = tab[u].heard
      BY <1>8, <2>1, <2>4 DEF IsOpen
    <3>3. tab[u].seen <= tab'[u].seen /\ tab[u].from <= tab'[u].from
      BY <3>2, IdsAreNumbers DEF TabRecords
    <3>4. /\ Sound(Known, tab'[u], Coming(u))
          /\ \A j \in Known : Has(tab[u], Coming(u), j) => Has(tab'[u], Coming(u), j)
      BY <1>7, <2>2, <3>1, <3>2, <3>3, HasMore
    <3>5. Unskipped(Known, tab'[u])
      BY <2>2, <3>2 DEF Unskipped
    <3> QED
      BY <2>2, <3>1, <3>4, <3>5
  <2> QED
    BY <2>3, <2>4
<1>21. Shared'
  <2>1. SUFFICES ASSUME NEW v \in Tabs, NEW u \in Tabs, IsOpen(v), IsOpen(u), NEW j \in Known,
                        j <= tab'[u].seen \/ \E k \in DOMAIN tab'[u].inbox : j <= tab'[u].inbox[k].id
                 PROVE  Has(tab'[v], tab'[v].inbox, j)
    BY <1>12, <1>13 DEF Shared, IsOpen
  <2>2. (j <= tab[u].seen \/ \E k \in DOMAIN tab[u].inbox : j <= tab[u].inbox[k].id) \/ j <= f.id
    <3>1. CASE u = l
      BY <1>6, <1>9, <2>1, <3>1
    <3>2. CASE u # l
      <4>1. tab'[u].inbox = Append(tab[u].inbox, f) /\ tab'[u].seen = tab[u].seen
        BY <1>8, <2>1, <3>2 DEF IsOpen
      <4>2. \A k \in DOMAIN Append(tab[u].inbox, f) :
              (k \in DOMAIN tab[u].inbox /\ Append(tab[u].inbox, f)[k] = tab[u].inbox[k])
              \/ Append(tab[u].inbox, f)[k] = f
        BY <1>1, <1>7
      <4> QED
        BY <2>1, <4>1, <4>2
    <3> QED
      BY <3>1, <3>2
  <2>3. CASE j <= tab[u].seen \/ \E k \in DOMAIN tab[u].inbox : j <= tab[u].inbox[k].id
    <3>0. Has(tab[v], tab[v].inbox, j) /\ tab[v] \in TabRecords /\ tab[v].inbox \in Seq(Frames)
      BY <1>7, <2>1, <2>3 DEF Shared
    <3>1. CASE v = l
      <4>1. Has(d, tab[l].inbox, j)
        BY <1>7, <1>9, <3>0, <3>1, HasMore
      <4> QED
        BY <1>6, <1>9, <3>1, <4>1
    <3>2. CASE v # l
      <4>1. /\ tab'[v] \in TabRecords /\ tab'[v].seen = tab[v].seen /\ tab'[v].from = tab[v].from
        BY <1>8, <2>1, <3>2 DEF IsOpen
      <4>2. tab[v].seen <= tab'[v].seen /\ tab[v].from <= tab'[v].from
        BY <4>1, IdsAreNumbers DEF TabRecords
      <4>3. Has(tab'[v], tab[v].inbox, j)
        BY <1>7, <3>0, <4>1, <4>2, HasMore
      <4>4. tab'[v].inbox = tab[v].inbox \o <<f>> /\ <<f>> \in Seq(Frames)
        BY <1>18, <2>1, <3>2 DEF IsOpen
      <4>5. Len(tab[v].inbox) \in 0..Len(tab[v].inbox)
        BY <3>0
      <4> QED
        BY <3>0, <4>3, <4>4, <4>5, HasInFront
    <3> QED
      BY <3>1, <3>2
  <2>4. CASE j <= f.id
    <3>0. f.id \in Nat /\ j \in Nat
      BY <1>1, <1>7, IdsAreNumbers DEF Frames
    <3>1. CASE v = l
      <4>1. d.seen \in Nat
        BY <1>9, IdsAreNumbers DEF TabRecords
      <4>2. j <= d.seen
        BY <1>9, <2>4, <3>0, <4>1
      <4> QED
        BY <1>6, <3>1, <4>2 DEF Has, HasBy
    <3>2. CASE v # l
      <4>1. /\ tab'[v].inbox = tab[v].inbox \o <<f>> /\ tab'[v].inbox \in Seq(Frames)
            /\ Sound(Known, tab'[v], tab'[v].inbox)
        BY <1>18, <1>19, <2>1, <3>2 DEF IsOpen
      <4>2. /\ Len(tab'[v].inbox) \in 1..Len(tab'[v].inbox)
            /\ tab'[v].inbox[Len(tab'[v].inbox)] = f
            /\ Len(tab'[v].inbox) - 1 \in 0..Len(tab'[v].inbox)
        BY <1>1, <1>7, <4>1
      <4>3. CASE j = f.id
        BY <4>2, <4>3 DEF Has, HasBy, Brings
      <4>4. CASE j < f.id
        <5>1. HasBy(tab'[v], tab'[v].inbox, Len(tab'[v].inbox) - 1, j)
          BY <4>1, <4>2, <4>4, Zenon DEF Sound
        <5> QED
          BY <4>1, <4>2, <5>1, HasInFront
      <4> QED
        BY <2>4, <3>0, <4>3, <4>4
    <3> QED
      BY <3>1, <3>2
  <2> QED
    BY <2>2, <2>3, <2>4
<1>22. Rising'
  <2>1. \A k \in DOMAIN Ahead : Ahead[k].id \in Nat /\ k \in Nat
    <3>1. ASSUME NEW k \in 1..Len(Ahead) PROVE Ahead[k].id \in Nat
      <4>1. Ahead[k] \in Frames
        BY <1>7, ElementOfSeq
      <4> QED
        BY <4>1, IdsAreNumbers DEF Frames
    <3>2. DOMAIN Ahead = 1..Len(Ahead) /\ Len(Ahead) \in Nat
      BY <1>7
    <3> QED
      BY <3>1, <3>2
  <2>2. \A k \in DOMAIN Ahead' : k + 1 \in DOMAIN Ahead /\ 1 \in DOMAIN Ahead /\ k \in Nat /\ 1 \in 1..(k + 1) - 1
    BY <1>14
  <2>3. source.lastId \in Nat
    BY IdsAreNumbers DEF TypeOK, Sources
  <2>4. ASSUME NEW k \in DOMAIN Ahead', Ahead'[k].id # 0
        PROVE  /\ source'.lastId < Ahead'[k].id
               /\ \A m \in 1..k - 1 : Ahead'[m].id < Ahead'[k].id
    <3>1. /\ source.lastId < Ahead[k + 1].id
          /\ \A m \in 1..(k + 1) - 1 : Ahead[m].id < Ahead[k + 1].id
      BY <1>14, <2>2, <2>4 DEF Rising
    <3>2. source'.lastId < Ahead'[k].id
      BY <1>3, <1>14, <2>2, <3>1
    <3>3. \A m \in 1..k - 1 : m \in DOMAIN Ahead' /\ m + 1 \in 1..(k + 1) - 1
      BY <1>14, <2>4
    <3>4. \A m \in 1..k - 1 : Ahead'[m].id < Ahead'[k].id
      BY <1>14, <3>1, <3>3
    <3> QED
      BY <3>2, <3>4
  <2>5. ASSUME Reads'
        PROVE  /\ \A k \in DOMAIN Ahead' : Ahead'[k].id <= Position'
               /\ \A j \in rows' : Position' < j => source'.lastId < j
    <3>1. /\ \A k \in DOMAIN Ahead : Ahead[k].id <= Position
          /\ \A j \in rows : Position < j => source.lastId < j
      BY <1>12, <2>5 DEF Rising
    <3>2. f.id <= Position /\ f.id \in Nat
      <4>1. 1 \in DOMAIN Ahead
        BY <1>14
      <4> QED
        BY <1>14, <2>1, <3>1, <4>1
    <3>3. Position \in Nat
      BY IdsAreNumbers, SequencesNow DEF Position, Conns, Link!Connections, TypeOK, Openings
    <3>4. \A j \in rows : j \in Nat
      BY SequencesNow, IdsAreNumbers
    <3>5. \A j \in rows : Position < j => source'.lastId < j
      BY <1>3, <3>1, <3>2, <3>3, <3>4
    <3>6. \A k \in DOMAIN Ahead' : Ahead'[k].id <= Position
      BY <1>14, <2>2, <3>1
    <3> QED
      BY <1>0, <1>12, <3>5, <3>6
  <2> QED
    BY <2>4, <2>5 DEF Rising
<1> QED
  BY <1>10, <1>11, <1>16, <1>17, <1>20, <1>21, <1>22

-----------------------------------------------------------------------------
(* Nothing is there at first.                                              *)
LEMMA InitHolds == Init => IInv
<1> SUFFICES ASSUME Init PROVE IInv
  OBVIOUS
<1>1. /\ next = 1 /\ writing = {} /\ logged = {} /\ rows = {} /\ cues = {}
      /\ conn = Link!Closed /\ opening = NotRead /\ source = NoSource
      /\ tab = [t \in Tabs |-> ClosedTab] /\ queue = <<>>
      /\ opens = 0 /\ troubles = 0
  BY DEF Init
<1>2. /\ conn \in Conns /\ conn.phase = "closed"
      /\ conn.wire = <<>> /\ conn.queue = <<>> /\ conn.lossy = <<>> /\ conn.buffer = <<>>
      /\ conn.reading = "idle" /\ conn.page = {} /\ conn.cursor = 0
  <2>1. conn \in Conns
    BY <1>1, EndedType
  <2> QED
    BY <1>1, <2>1 DEF Link!Closed
<1>3. /\ ClosedTab \in TabRecords /\ ClosedTab.role = "closed" /\ ClosedTab.seen = 0
      /\ ClosedTab.inbox = <<>>
  <2>1. <<>> \in Seq(Frames)
    OBVIOUS
  <2> QED
    BY <2>1 DEF ClosedTab, TabRecords
<1>4. \A t \in Tabs : tab[t] = ClosedTab
  BY <1>1
<1>5. TypeOK
  <2>1. tab \in [Tabs -> TabRecords]
    BY <1>1, <1>3
  <2>2. /\ 1 \in 1..(MaxEvents + 1) /\ 0 \in 0..MaxTurns /\ <<>> \in Seq(Tabs)
    BY StreamAssumption
  <2> QED
    BY <1>1, <1>2, <2>1, <2>2, Blank DEF TypeOK, Conns
<1>6. DOMAIN <<>> = {}
  OBVIOUS
<1>7. LogInOrder
  BY <1>1 DEF LogInOrder
<1>8. ConnAgrees
  BY <1>1, <1>2, <1>6, Blank DEF ConnAgrees
<1>9. Ahead = <<>> /\ ~Reads
  <2>1. <<>> \o <<>> \o <<>> = <<>>
    OBVIOUS
  <2> QED
    BY <1>1, <1>2, <2>1, Blank DEF Ahead, Reads
<1>10. MarksAreLogged
  BY <1>1, <1>2, <1>3, <1>4, <1>6, <1>9, Blank DEF MarksAreLogged, Marks
<1>11. LeaderAgrees
  BY <1>1, <1>2, <1>3, <1>4, <1>6, Blank DEF LeaderAgrees
<1>12. PageIsWhole
  BY <1>1, <1>2 DEF PageIsWhole
<1>13. NoGaps /\ Shared
  BY <1>3, <1>4 DEF NoGaps, Shared, IsOpen
<1>14. Rising
  BY <1>6, <1>9 DEF Rising
<1> QED
  BY <1>5, <1>7, <1>8, <1>10, <1>11, <1>12, <1>13, <1>14 DEF IInv

(* Every step keeps the invariant.                                         *)
LEMMA NextPreserves == IInv /\ Next => IInv'
<1> SUFFICES ASSUME IInv, Next PROVE IInv'
  OBVIOUS
<1>1. CASE Log
  <2>1. CASE Draw
    BY <2>1, DrawPreserves
  <2>2. CASE Prune
    BY <2>2, PrunePreserves
  <2>3. CASE \E i \in Ids : Commit(i) \/ Abort(i) \/ PublishCue(i) \/ LoseCue(i)
    <3>1. PICK i \in Ids : Commit(i) \/ Abort(i) \/ PublishCue(i) \/ LoseCue(i)
      BY <2>3
    <3> QED
      BY <3>1, CommitPreserves, AbortPreserves, PublishCuePreserves, LoseCuePreserves
  <2> QED
    BY <1>1, <2>1, <2>2, <2>3 DEF Log
<1>2. CASE Serve
  <2>1. CASE Respond
    BY <2>1, ConnectPreserves, ReadOpeningPreserves, GoLivePreserves DEF Respond
  <2>2. CASE ReadPage \/ TakePage \/ ReadFails
    BY <2>2, ReadPagePreserves, TakePagePreserves, ReadFailsPreserves
  <2>3. CASE OpeningFails \/ Drain \/ Retire \/ ComeBack \/ Break
    BY <2>3, OpeningFailsPreserves, DrainPreserves, RetirePreserves, ComeBackPreserves, BreakPreserves
  <2> QED
    BY <1>2, <2>1, <2>2, <2>3 DEF Serve
<1>3. CASE Browse
  <2>1. CASE Receive
    BY <2>1, ReceivePreserves
  <2>2. CASE \E t \in Tabs : \/ Hear(t) \/ OpenTab(t) \/ JoinQueue(t) \/ Lead(t)
                             \/ OpenSource(t) \/ CloseTab(t)
    <3>1. PICK t \in Tabs : \/ Hear(t) \/ OpenTab(t) \/ JoinQueue(t) \/ Lead(t)
                            \/ OpenSource(t) \/ CloseTab(t)
      BY <2>2
    <3> QED
      BY <3>1, HearPreserves, OpenTabPreserves, JoinQueuePreserves, LeadPreserves,
         OpenSourcePreserves, CloseTabPreserves
  <2> QED
    BY <1>3, <2>1, <2>2 DEF Browse
<1> QED
  BY <1>1, <1>2, <1>3 DEF Next

(* So does a step of something else.                                       *)
LEMMA StutteringPreserves == IInv /\ UNCHANGED vars => IInv'
<1> SUFFICES ASSUME IInv, UNCHANGED vars PROVE IInv'
  OBVIOUS
<1>1. UNCHANGED <<next, writing, logged, rows, cues, conn, opening, source, tab, queue, opens, troubles>>
  BY DEF vars, server, stream, browser
<1>2. TypeOK' /\ LogInOrder'
  BY <1>1 DEF IInv, TypeOK, LogInOrder
<1> QED
  BY <1>1, <1>2, OnlyTheLogPreserves

(* The conditions hold in every state.                                     *)
THEOREM Inductive == Spec => []IInv
<1>1. Init => IInv
  BY InitHolds
<1>2. IInv /\ [Next]_vars => IInv'
  BY NextPreserves, StutteringPreserves
<1> QED
  BY <1>1, <1>2, PTL DEF Spec

(* The log, the stream, the browser and its tabs have their types.         *)
THEOREM TypeCorrect == Spec => []TypeOK
<1>1. IInv => TypeOK
  BY DEF IInv
<1> QED
  BY <1>1, Inductive, PTL

(* No tab goes past an event that its handlers were not given, whatever    *)
(* is announced late, twice, out of order or not at all, and whichever tab *)
(* leads: pages of the log, replays and refetches make it good.            *)
THEOREM SkipsNothing == Spec => []NothingIsSkipped
<1>1. IInv => NothingIsSkipped
  BY DEF IInv, NoGaps, Unskipped, Known, NothingIsSkipped
<1> QED
  BY <1>1, Inductive, PTL

(* What is written and what waits is in the order of the log.              *)
LEMMA InOrderNow == IInv => StreamIsInOrder
<1>1. ASSUME IInv PROVE StreamIsInOrder
  <2> DEFINE frames == conn.wire \o conn.queue
  <2>1. frames \in Seq(Frames) /\ opening.frames \in Seq(Frames) /\ Ahead = frames \o opening.frames
    BY <1>1, SequencesNow DEF IInv, Ahead
  <2> HIDE DEF frames
  <2>2. \A k \in DOMAIN frames : k \in DOMAIN Ahead /\ Ahead[k] = frames[k] /\ \A m \in 1..k - 1 : Ahead[m] = frames[m]
    BY <2>1
  <2>3. \A k \in DOMAIN Ahead : Ahead[k].id # 0 =>
          /\ source.lastId < Ahead[k].id
          /\ \A m \in 1..k - 1 : Ahead[m].id < Ahead[k].id
    BY <1>1 DEF IInv, Rising
  <2>4. \A k \in DOMAIN frames : frames[k].id # 0 =>
          /\ source.lastId < frames[k].id
          /\ \A m \in 1..k - 1 : frames[m].id < frames[k].id
    BY <2>2, <2>3
  <2> QED
    BY <2>4 DEF StreamIsInOrder, frames
<1> QED
  BY <1>1

(* A stream never repeats a number and never goes back.                    *)
THEOREM StreamRises == Spec => []StreamIsInOrder
  BY InOrderNow, Inductive, PTL

-----------------------------------------------------------------------------
(* The connections of a video's stream, the frames of a sequence, and the  *)
(* frames that a connection was given to send and that wait in it.         *)
Streams == Video!Link!Connections(Video!Frames, Video!Ids)
FramesIn(s) == {s[k] : k \in DOMAIN s}
Held(c) == FramesIn(c.wire) \cup FramesIn(c.lossy) \cup FramesIn(c.queue)
OnWay(c) == Held(c) \cup FramesIn(c.buffer)

(* The ticks of a sequence go up; those of t are above those of s.         *)
Climbs(s) == \A k \in DOMAIN s : s[k].tick > 0 => \A j \in 1..k - 1 : s[j].tick < s[k].tick
Under(s, t) == \A f \in FramesIn(s) : \A g \in FramesIn(t) : g.tick > 0 => f.tick < g.tick

(* Only the ticks of an upload may be lost; an end carries no number.      *)
Fits(k, f) ==
  /\ f.lossy <=> (k = "upload" /\ f.tick > 0)
  /\ f.tick > 0 => f.kind = "tick"
  /\ f.kind = "ended" => f.id = 0

(* What waits behind a slow reader of a video of kind k.                   *)
Tidy(k, c) ==
  /\ \A f \in Held(c) : Fits(k, f)
  /\ Len(c.lossy) <= 1
  /\ \A f \in FramesIn(c.lossy) : f.lossy
  /\ \A f \in FramesIn(c.queue) : ~f.lossy
  /\ c.slow \/ (c.lossy = <<>> /\ c.queue = <<>>)
  /\ Climbs(c.wire) /\ Climbs(c.queue)
  /\ Under(c.wire, c.lossy) /\ Under(c.wire, c.queue)

(* A connection of such a stream, in whatever phase.                       *)
StreamFits(k, c) ==
  /\ Tidy(k, c)
  /\ c.phase = "opening" => c.wire = <<>> /\ c.lossy = <<>> /\ c.queue = <<>>
  /\ c.phase # "opening" => c.buffer = <<>>
  /\ \A f \in FramesIn(c.buffer) : Fits(k, f)
  /\ Climbs(c.buffer)

(* An opening has no tick, nothing that may be lost and no end to tell.    *)
Opens(f) == f.tick = 0 /\ ~f.lossy /\ f.kind # "ended"

(* The connection, the EventSource at the other end of it, the opening.    *)
LinkFits ==
  /\ StreamFits(kind, conn)
  /\ source.state = "connected" <=> conn.phase # "closed"
  /\ \A f \in FramesIn(opening.frames) : Opens(f)

(* A tick on its way was published and is newer than what the page shows.  *)
TicksFit ==
  /\ page.tick <= ticks
  /\ \A f \in OnWay(conn) : f.tick <= ticks /\ (f.tick > 0 => page.tick < f.tick)

(* What a stream is owed is the latest tick, and is shown or on its way.   *)
OwedFits ==
  /\ conn.phase = "closed" => owed.tick = 0 /\ ~owed.ended
  /\ Video!Hears /\ owed.tick > 0 =>
       /\ owed.tick = ticks
       /\ owed.tick = page.tick \/ \E f \in OnWay(conn) : f.tick = owed.tick /\ f.id = 0
  /\ kind = "live" /\ owed.ended /\ Video!Hears => \E f \in OnWay(conn) : f.kind = "ended"

(* A row is a tick's, published or not, or says that the video is ready.   *)
RowsFit ==
  /\ ticks + Cardinality(unsent) <= Video!Most
  /\ Len(rows) <= ticks + Cardinality(unsent) + (IF status = "READY" THEN 1 ELSE 0)
  /\ kind = "live" => unsent = {} /\ Len(rows) <= (IF status = "READY" THEN 1 ELSE 0)

VInv == Video!TypeOK /\ RowsFit /\ LinkFits /\ TicksFit /\ OwedFits

-----------------------------------------------------------------------------
(* The frames of sequences that are put behind one another.                *)
LEMMA FramesInBoth ==
  ASSUME NEW s \in Seq(Video!Frames), NEW t \in Seq(Video!Frames)
  PROVE  /\ FramesIn(s \o t) = FramesIn(s) \cup FramesIn(t)
         /\ FramesIn(s) \subseteq Video!Frames
<1>1. FramesIn(s) \subseteq Video!Frames
  BY DEF FramesIn
<1>2. ASSUME NEW k \in DOMAIN (s \o t) PROVE (s \o t)[k] \in FramesIn(s) \cup FramesIn(t)
  <2>1. CASE k \in DOMAIN s
    BY <2>1 DEF FramesIn
  <2>2. CASE k \notin DOMAIN s
    <3>1. k - Len(s) \in DOMAIN t /\ (s \o t)[k] = t[k - Len(s)]
      BY <2>2
    <3> QED
      BY <3>1 DEF FramesIn
  <2> QED
    BY <2>1, <2>2
<1>3. ASSUME NEW k \in DOMAIN s PROVE s[k] \in FramesIn(s \o t)
  <2>1. k \in DOMAIN (s \o t) /\ (s \o t)[k] = s[k]
    OBVIOUS
  <2> QED
    BY <2>1, Zenon DEF FramesIn
<1>4. ASSUME NEW k \in DOMAIN t PROVE t[k] \in FramesIn(s \o t)
  <2>1. k + Len(s) \in DOMAIN (s \o t) /\ (s \o t)[k + Len(s)] = t[k]
    OBVIOUS
  <2> QED
    BY <2>1, Zenon DEF FramesIn
<1>5. FramesIn(s \o t) \subseteq FramesIn(s) \cup FramesIn(t)
  BY <1>2 DEF FramesIn
<1>6. FramesIn(s) \subseteq FramesIn(s \o t) /\ FramesIn(t) \subseteq FramesIn(s \o t)
  <2>1. FramesIn(s) \subseteq FramesIn(s \o t)
    BY <1>3 DEF FramesIn
  <2>2. FramesIn(t) \subseteq FramesIn(s \o t)
    BY <1>4 DEF FramesIn
  <2> QED
    BY <2>1, <2>2
<1> QED
  BY <1>1, <1>5, <1>6

(* Their ticks go up if those of both do, and the second is above.         *)
LEMMA ClimbsBoth ==
  ASSUME NEW s \in Seq(Video!Frames), NEW t \in Seq(Video!Frames)
  PROVE  Climbs(s \o t) <=> Climbs(s) /\ Climbs(t) /\ Under(s, t)
<1> DEFINE u == s \o t
<1>1. /\ Len(s) \in Nat /\ Len(t) \in Nat /\ DOMAIN s = 1..Len(s) /\ DOMAIN t = 1..Len(t)
      /\ DOMAIN u = 1..(Len(s) + Len(t))
      /\ \A k \in 1..Len(s) : u[k] = s[k]
      /\ \A k \in 1..Len(t) : u[Len(s) + k] = t[k]
  OBVIOUS
<1> HIDE DEF u
<1>2. ASSUME Climbs(u) PROVE Climbs(s) /\ Climbs(t) /\ Under(s, t)
  <2>1. \A k \in DOMAIN u : u[k].tick > 0 => \A j \in 1..k - 1 : u[j].tick < u[k].tick
    BY <1>2 DEF Climbs
  <2>2. ASSUME NEW k \in DOMAIN s, s[k].tick > 0, NEW j \in 1..k - 1 PROVE s[j].tick < s[k].tick
    <3>1. k \in DOMAIN u /\ k \in 1..Len(s) /\ j \in 1..Len(s)
      BY <1>1
    <3> QED
      BY <1>1, <2>1, <2>2, <3>1
  <2>3. ASSUME NEW k \in DOMAIN t, t[k].tick > 0, NEW j \in 1..k - 1 PROVE t[j].tick < t[k].tick
    <3>1. /\ Len(s) + k \in DOMAIN u /\ k \in 1..Len(t) /\ j \in 1..Len(t)
          /\ Len(s) + j \in 1..(Len(s) + k) - 1
      BY <1>1
    <3> QED
      BY <1>1, <2>1, <2>3, <3>1
  <2>4. ASSUME NEW j \in DOMAIN s, NEW k \in DOMAIN t, t[k].tick > 0 PROVE s[j].tick < t[k].tick
    <3>1. /\ Len(s) + k \in DOMAIN u /\ k \in 1..Len(t) /\ j \in 1..Len(s)
          /\ j \in 1..(Len(s) + k) - 1
      BY <1>1
    <3> QED
      BY <1>1, <2>1, <2>4, <3>1
  <2> QED
    BY <2>2, <2>3, <2>4 DEF Climbs, Under, FramesIn
<1>3. ASSUME Climbs(s), Climbs(t), Under(s, t) PROVE Climbs(u)
  <2>1. \A j \in DOMAIN s, k \in DOMAIN t : t[k].tick > 0 => s[j].tick < t[k].tick
    BY <1>3 DEF Under, FramesIn
  <2>2. ASSUME NEW k \in DOMAIN u, u[k].tick > 0, NEW j \in 1..k - 1 PROVE u[j].tick < u[k].tick
    <3>1. CASE k \in 1..Len(s)
      <4>1. k \in DOMAIN s /\ u[k] = s[k] /\ j \in 1..Len(s) /\ u[j] = s[j]
        BY <1>1, <3>1
      <4> QED
        BY <1>3, <2>2, <4>1 DEF Climbs
    <3>2. CASE k \notin 1..Len(s)
      <4> DEFINE m == k - Len(s)
      <4>1. m \in 1..Len(t) /\ k = Len(s) + m
        BY <1>1, <3>2
      <4>2. u[k] = t[m]
        BY <1>1, <4>1
      <4>3. CASE j \in 1..Len(s)
        <5>1. j \in DOMAIN s /\ u[j] = s[j] /\ m \in DOMAIN t
          BY <1>1, <4>1, <4>3
        <5> HIDE DEF m
        <5> QED
          BY <2>1, <2>2, <4>2, <5>1
      <4>4. CASE j \notin 1..Len(s)
        <5> DEFINE i == j - Len(s)
        <5>1. i \in 1..m - 1 /\ j = Len(s) + i /\ i \in 1..Len(t) /\ m \in DOMAIN t
          BY <1>1, <4>1, <4>4
        <5>2. u[j] = t[i]
          BY <1>1, <5>1
        <5> HIDE DEF m, i
        <5> QED
          BY <1>3, <2>2, <4>2, <5>1, <5>2 DEF Climbs
      <4> QED
        BY <4>3, <4>4
    <3> QED
      BY <3>1, <3>2
  <2> QED
    BY <2>2 DEF Climbs
<1> QED
  BY <1>2, <1>3 DEF u

(* A sequence of one frame, and of none.                                   *)
LEMMA FewFrames ==
  /\ FramesIn(<<>>) = {} /\ Climbs(<<>>)
  /\ \A f \in Video!Frames : FramesIn(<<f>>) = {f} /\ Climbs(<<f>>) /\ <<f>> \in Seq(Video!Frames)
  /\ \A s \in Seq(Video!Frames) : Len(s) <= 1 => Climbs(s)
  /\ \A s : Under(<<>>, s) /\ Under(s, <<>>)
<1>1. FramesIn(<<>>) = {} /\ Climbs(<<>>)
  BY DEF FramesIn, Climbs
<1>2. ASSUME NEW f \in Video!Frames
      PROVE  FramesIn(<<f>>) = {f} /\ Climbs(<<f>>) /\ <<f>> \in Seq(Video!Frames)
  BY DEF FramesIn, Climbs
<1>3. ASSUME NEW s \in Seq(Video!Frames), Len(s) <= 1 PROVE Climbs(s)
  BY <1>3 DEF Climbs
<1>4. ASSUME NEW s PROVE Under(<<>>, s) /\ Under(s, <<>>)
  BY <1>1 DEF Under
<1> QED
  BY <1>1, <1>2, <1>3, <1>4

(* A frame behind others.                                                  *)
LEMMA OneMore ==
  ASSUME NEW s \in Seq(Video!Frames), NEW f \in Video!Frames
  PROVE  /\ Append(s, f) = s \o <<f>> /\ Append(s, f) \in Seq(Video!Frames)
         /\ FramesIn(s \o <<f>>) = FramesIn(s) \cup {f}
         /\ (Climbs(s) /\ \A g \in FramesIn(s) : f.tick > 0 => g.tick < f.tick) => Climbs(s \o <<f>>)
<1>1. Append(s, f) = s \o <<f>> /\ Append(s, f) \in Seq(Video!Frames) /\ <<f>> \in Seq(Video!Frames)
  OBVIOUS
<1>2. FramesIn(<<f>>) = {f} /\ Climbs(<<f>>)
  BY FewFrames
<1>3. FramesIn(s \o <<f>>) = FramesIn(s) \cup {f}
  BY <1>1, <1>2, FramesInBoth
<1>4. ASSUME Climbs(s), \A g \in FramesIn(s) : f.tick > 0 => g.tick < f.tick PROVE Climbs(s \o <<f>>)
  <2>1. Under(s, <<f>>)
    BY <1>2, <1>4 DEF Under
  <2> QED
    BY <1>1, <1>2, <1>4, <2>1, ClimbsBoth
<1> QED
  BY <1>1, <1>3, <1>4

-----------------------------------------------------------------------------
(* What writing changes of a connection, and what it leaves alone: the     *)
(* frames go on the wire, and a wire that is full makes it slow.           *)
Puts(c, d, frames) ==
  /\ d.phase = c.phase /\ d.buffer = c.buffer /\ d.lossy = c.lossy /\ d.queue = c.queue
  /\ d.wire = c.wire \o frames
  /\ c.slow \/ (frames # <<>> /\ Len(d.wire) >= WireLimit) => d.slow

(* The parts of a connection.                                              *)
LEMMA StreamParts ==
  ASSUME NEW c \in Streams
  PROVE  /\ c.wire \in Seq(Video!Frames) /\ c.lossy \in Seq(Video!Frames) /\ c.queue \in Seq(Video!Frames)
         /\ c.buffer \in Seq(Video!Frames) /\ c.slow \in BOOLEAN /\ c.written \in Seq(Video!Ids)
         /\ c.phase \in {"closed", "opening", "live", "ended"}
  BY DEF Streams, Video!Link!Connections, Video!Link!Phases

(* A connection that is closed, was just registered, or ended.             *)
LEMMA EndedTidy ==
  /\ Video!Link!Closed \in Streams /\ Video!Link!Registered \in Streams
  /\ Video!Link!Closed.phase = "closed" /\ Video!Link!Registered.phase = "opening"
  /\ \A c \in {Video!Link!Closed, Video!Link!Registered} :
       c.wire = <<>> /\ c.lossy = <<>> /\ c.queue = <<>> /\ c.buffer = <<>>
  /\ \A c \in Streams : LET d == Video!Link!Ended(c) IN
       /\ d \in Streams /\ d.phase = "ended" /\ d.wire = c.wire
       /\ d.lossy = <<>> /\ d.queue = <<>> /\ d.buffer = <<>>
<1>1. Video!Link!Closed \in Streams
  BY DEF Video!Link!Closed, Streams, Video!Link!Connections, Video!Link!Phases, Video!Link!ReadStates
<1>2. Video!Link!Registered \in Streams
  BY <1>1 DEF Video!Link!Registered, Streams, Video!Link!Connections, Video!Link!Phases
<1>3. Video!Link!Closed.phase = "closed" /\ Video!Link!Registered.phase = "opening"
  BY DEF Video!Link!Closed, Video!Link!Registered
<1>4. \A c \in {Video!Link!Closed, Video!Link!Registered} :
        c.wire = <<>> /\ c.lossy = <<>> /\ c.queue = <<>> /\ c.buffer = <<>>
  BY DEF Video!Link!Closed, Video!Link!Registered
<1>5. ASSUME NEW c \in Streams PROVE
        /\ Video!Link!Ended(c) \in Streams /\ Video!Link!Ended(c).phase = "ended"
        /\ Video!Link!Ended(c).wire = c.wire
        /\ Video!Link!Ended(c).lossy = <<>> /\ Video!Link!Ended(c).queue = <<>>
        /\ Video!Link!Ended(c).buffer = <<>>
  <2>1. c.wire \in Seq(Video!Frames)
    BY StreamParts
  <2>2. Video!Link!Ended(c) \in Streams
    BY <1>1, <2>1 DEF Video!Link!Ended, Streams, Video!Link!Connections, Video!Link!Phases
  <2>3. /\ Video!Link!Ended(c).phase = "ended" /\ Video!Link!Ended(c).wire = c.wire
        /\ Video!Link!Ended(c).lossy = <<>> /\ Video!Link!Ended(c).queue = <<>>
        /\ Video!Link!Ended(c).buffer = <<>>
    BY DEF Video!Link!Ended, Video!Link!Closed
  <2> QED
    BY <2>2, <2>3
<1> QED
  BY <1>1, <1>2, <1>3, <1>4, <1>5

(* One frame written.                                                      *)
LEMMA WritePuts ==
  ASSUME NEW c \in Streams, NEW f \in Video!Frames
  PROVE  Video!Link!Write(c, f) \in Streams /\ Puts(c, Video!Link!Write(c, f), <<f>>)
<1>1. Video!Link!RememberWritten(c.written, f) \in Seq(Video!Ids)
  <2>1. c.written \in Seq(Video!Ids) /\ f.id \in Video!Ids \cup {0}
    BY StreamParts DEF Video!Frames
  <2>2. CASE f.id = 0
    BY <2>1, <2>2 DEF Video!Link!RememberWritten
  <2>3. CASE f.id # 0
    <3> DEFINE s == Append(c.written, f.id)
    <3>1. s \in Seq(Video!Ids) /\ Remembered \in Nat
      BY <2>1, <2>3, VideoAssumption
    <3> HIDE DEF s
    <3>2. ASSUME ~(Len(s) <= Remembered) PROVE SubSeq(s, Len(s) - Remembered + 1, Len(s)) \in Seq(Video!Ids)
      <4>1. Len(s) \in Nat /\ Len(s) - Remembered + 1 \in 1..(Len(s) + 1)
        BY <3>1, <3>2
      <4> QED
        BY <3>1, <4>1
    <3>3. Video!Link!Newest(s, Remembered) \in Seq(Video!Ids)
      BY <3>1, <3>2 DEF Video!Link!Newest
    <3> QED
      BY <2>1, <3>3 DEF Video!Link!RememberWritten, s
  <2> QED
    BY <2>2, <2>3
<1>2. /\ c.wire \in Seq(Video!Frames) /\ c.slow \in BOOLEAN
      /\ Append(c.wire, f) \in Seq(Video!Frames) /\ Append(c.wire, f) = c.wire \o <<f>>
      /\ Len(Append(c.wire, f)) = Len(c.wire) + 1
  <2>1. c.wire \in Seq(Video!Frames) /\ c.slow \in BOOLEAN
    BY StreamParts
  <2> QED
    BY <2>1
<1>3. (c.slow \/ Len(c.wire) + 1 >= WireLimit) \in BOOLEAN
  BY <1>2
<1>4. Video!Link!Write(c, f) \in Streams
  BY <1>1, <1>2, <1>3 DEF Video!Link!Write, Streams, Video!Link!Connections
<1>5. Puts(c, Video!Link!Write(c, f), <<f>>)
  BY <1>2 DEF Video!Link!Write, Streams, Video!Link!Connections, Puts
<1> QED
  BY <1>4, <1>5

(* Frames put behind one another.                                          *)
LEMMA Regroups ==
  ASSUME NEW s \in Seq(Video!Frames), NEW t \in Seq(Video!Frames), NEW u \in Seq(Video!Frames)
  PROVE  (s \o t) \o u = s \o (t \o u)
  OBVIOUS

(* The frames of AllWritten are written one after the other.               *)
LEMMA PutInTurn ==
  ASSUME NEW c \in Streams, NEW frames \in Seq(Video!Frames)
  PROVE  \E h \in [0..Len(frames) -> Streams] :
           /\ h[0] = c
           /\ \A i \in 1..Len(frames) : h[i] = Video!Link!Write(h[i - 1], frames[i])
           /\ Video!Link!AllWritten(c, frames) = h[Len(frames)]
<1> DEFINE n == Len(frames)
           F(g) == [i \in 0..n |-> IF i = 0 THEN c ELSE Video!Link!Write(g[i - 1], frames[i])]
           after == CHOOSE g : g = F(g)
           step == [d \in Streams |-> [i \in 1..n |-> Video!Link!Write(d, frames[i])]]
<1>1. n \in Nat /\ \A i \in 1..n : frames[i] \in Video!Frames
  OBVIOUS
<1>2. step \in [Streams -> [1..n -> Streams]]
  <2> HIDE DEF n
  <2> QED
    BY <1>1, WritePuts
<1>3. \E h : IsTrace(h, Streams, c, n, step)
  <2> HIDE DEF step, n
  <2> QED
    BY <1>1, <1>2, Trace
<1>4. PICK h \in [0..n -> Streams] : h[0] = c /\ \A i \in 1..n : h[i] = step[h[i - 1]][i]
  <2> HIDE DEF step, n, F, after
  <2> QED
    BY <1>3 DEF IsTrace
<1>5. ASSUME NEW i \in 1..n PROVE h[i] = Video!Link!Write(h[i - 1], frames[i])
  <2>1. i - 1 \in 0..n /\ h[i - 1] \in Streams
    BY <1>1, <1>4
  <2>2. step[h[i - 1]][i] = Video!Link!Write(h[i - 1], frames[i])
    BY <2>1
  <2> QED
    BY <1>4, <2>2
<1>6. h = F(h)
  BY <1>1, <1>4, <1>5
<1>7. after = F(after)
  BY <1>6
<1>8. Video!Link!AllWritten(c, frames) = after[n]
  BY DEF Video!Link!AllWritten
<1> HIDE DEF after
<1>9. after[0] = c
  BY <1>1, <1>7
<1>10. ASSUME NEW i \in 1..n PROVE after[i] = Video!Link!Write(after[i - 1], frames[i])
  <2>1. i \in 0..n /\ i # 0
    BY <1>1
  <2>2. F(after)[i] = Video!Link!Write(after[i - 1], frames[i])
    BY <2>1
  <2> QED
    BY <1>7, <2>2
<1> HIDE DEF n, F, step
<1> DEFINE S == {i \in 0..n : after[i] \in Streams}
<1>11. 0 \in S
  BY <1>1, <1>9
<1>12. ASSUME NEW i \in 1..n, i - 1 \in S PROVE i \in S
  <2>1. after[i - 1] \in Streams
    BY <1>12
  <2>2. Video!Link!Write(after[i - 1], frames[i]) \in Streams
    BY <1>1, <2>1, WritePuts
  <2> QED
    BY <1>1, <1>10, <2>2
<1>13. \A i \in 0..n : i \in S
  <2>1. n \in Nat /\ \A i \in 1..n : i - 1 \in S => i \in S
    BY <1>1, <1>12
  <2> HIDE DEF S
  <2> QED
    BY <2>1, <1>11, UpTo, Zenon
<1>14. after \in [0..n -> Streams]
  BY <1>7, <1>13 DEF F
<1> QED
  BY <1>8, <1>9, <1>10, <1>14 DEF n

(* All of them are on the wire then, in their order.                       *)
LEMMA AllWrittenPuts ==
  ASSUME NEW c \in Streams, NEW frames \in Seq(Video!Frames)
  PROVE  Video!Link!AllWritten(c, frames) \in Streams /\ Puts(c, Video!Link!AllWritten(c, frames), frames)
<1> DEFINE n == Len(frames)
<1>1. PICK h \in [0..n -> Streams] :
        /\ h[0] = c
        /\ \A i \in 1..n : h[i] = Video!Link!Write(h[i - 1], frames[i])
        /\ Video!Link!AllWritten(c, frames) = h[n]
  BY PutInTurn
<1>2. n \in Nat /\ c.wire \in Seq(Video!Frames) /\ SubSeq(frames, 1, n) = frames
  BY DEF Streams, Video!Link!Connections
<1> HIDE DEF n
<1> DEFINE S == {i \in 0..n : Puts(c, h[i], SubSeq(frames, 1, i))}
<1>3. 0 \in S
  <2>1. SubSeq(frames, 1, 0) = <<>> /\ c.wire \o <<>> = c.wire
    BY <1>2
  <2>2. Puts(c, c, <<>>)
    BY <2>1 DEF Puts
  <2>3. Puts(c, h[0], SubSeq(frames, 1, 0))
    BY <1>1, <2>1, <2>2, Zenon
  <2> QED
    BY <1>2, <2>3
<1>4. ASSUME NEW i \in 1..n, i - 1 \in S PROVE i \in S
  <2>1. h[i - 1] \in Streams /\ frames[i] \in Video!Frames
    BY <1>1, <1>2 DEF n
  <2>2. Puts(c, h[i - 1], SubSeq(frames, 1, i - 1)) /\ Puts(h[i - 1], h[i], <<frames[i]>>)
    BY <1>1, <1>4, <2>1, WritePuts
  <2>3. /\ SubSeq(frames, 1, i) = SubSeq(frames, 1, i - 1) \o <<frames[i]>>
        /\ SubSeq(frames, 1, i - 1) \in Seq(Video!Frames)
    BY <1>2 DEF n
  <2>4. (c.wire \o SubSeq(frames, 1, i - 1)) \o <<frames[i]>> = c.wire \o SubSeq(frames, 1, i)
    <3> DEFINE p == SubSeq(frames, 1, i - 1)
               e == <<frames[i]>>
    <3>1. p \in Seq(Video!Frames) /\ e \in Seq(Video!Frames) /\ SubSeq(frames, 1, i) = p \o e
      BY <2>1, <2>3
    <3> HIDE DEF p, e
    <3>2. (c.wire \o p) \o e = c.wire \o (p \o e)
      BY <1>2, <3>1, Regroups
    <3> QED
      BY <3>1, <3>2 DEF p, e
  <2>5. Puts(c, h[i], SubSeq(frames, 1, i))
    BY <2>2, <2>4 DEF Puts
  <2> QED
    BY <2>5
<1>5. \A i \in 0..n : i \in S
  <2>1. \A i \in 1..n : i - 1 \in S => i \in S
    BY <1>4
  <2> HIDE DEF S
  <2> QED
    BY <1>2, <1>3, <2>1, UpTo, Zenon
<1>6. n \in 0..n
  BY <1>2
<1> QED
  BY <1>1, <1>2, <1>5, <1>6

-----------------------------------------------------------------------------
(* A stream that is live, or was until its backlog was at its limit.       *)
Served == {c \in Streams : c.phase \in {"live", "ended"} /\ c.buffer = <<>>}

(* What a frame that is handed on changes: it waits with the others, takes *)
(* the place of a lossy one, was written before or costs the stream.       *)
Adds(c, d, f) ==
  /\ Held(d) \subseteq Held(c) \cup {f}
  /\ d.phase = "live" =>
       /\ c.phase = "live"
       /\ f.id = 0 => f \in Held(d)
       /\ \A g \in Held(c) : g \in Held(d) \/ (f.lossy /\ g.lossy /\ f \in Held(d))

(* A frame that is newer than what waits.                                  *)
Newer(c, f) == \A g \in Held(c) : f.tick > 0 => g.tick < f.tick

(* One frame handed on.                                                    *)
LEMMA DispatchTidy ==
  ASSUME NEW k, NEW c \in Served, Tidy(k, c), NEW f \in Video!Frames, Fits(k, f), Newer(c, f)
  PROVE  /\ Video!Link!Dispatch(c, f) \in Served /\ Tidy(k, Video!Link!Dispatch(c, f))
         /\ Adds(c, Video!Link!Dispatch(c, f), f)
<1>1. /\ c \in Streams /\ c.phase \in {"live", "ended"} /\ c.buffer = <<>>
      /\ c.wire \in Seq(Video!Frames) /\ c.lossy \in Seq(Video!Frames) /\ c.queue \in Seq(Video!Frames)
      /\ c.slow \in BOOLEAN
  BY StreamParts DEF Served
<1>2. /\ \A g \in FramesIn(c.wire) \cup FramesIn(c.lossy) \cup FramesIn(c.queue) : Fits(k, g)
      /\ Len(c.lossy) <= 1
      /\ \A g \in FramesIn(c.lossy) : g.lossy
      /\ \A g \in FramesIn(c.queue) : ~g.lossy
      /\ c.slow \/ (c.lossy = <<>> /\ c.queue = <<>>)
      /\ Climbs(c.wire) /\ Climbs(c.queue)
      /\ Under(c.wire, c.lossy) /\ Under(c.wire, c.queue)
  BY DEF Tidy, Held
<1>3. /\ \A g \in FramesIn(c.wire) \cup FramesIn(c.lossy) \cup FramesIn(c.queue) :
           f.tick > 0 => g.tick < f.tick
  BY DEF Newer, Held
<1>4. CASE c.phase # "live"
  <2>1. Video!Link!Dispatch(c, f) = c
    BY <1>4 DEF Video!Link!Dispatch
  <2>2. Adds(c, c, f)
    BY <1>4 DEF Adds
  <2> QED
    BY <2>1, <2>2
<1>5. CASE c.phase = "live" /\ ~c.slow
  <2> DEFINE d == Video!Link!Write(c, f)
  <2>1. Video!Link!Dispatch(c, f) = d
    BY <1>5 DEF Video!Link!Dispatch
  <2>2. d \in Streams /\ Puts(c, d, <<f>>)
    BY <1>1, WritePuts
  <2> HIDE DEF d
  <2>3. c.lossy = <<>> /\ c.queue = <<>>
    BY <1>2, <1>5
  <2>4. /\ d.phase = c.phase /\ d.buffer = c.buffer /\ d.lossy = <<>> /\ d.queue = <<>>
        /\ d.wire = c.wire \o <<f>>
    BY <2>2, <2>3 DEF Puts
  <2>5. FramesIn(d.wire) = FramesIn(c.wire) \cup {f} /\ Climbs(d.wire)
    BY <1>1, <1>2, <1>3, <2>4, OneMore
  <2>6. Tidy(k, d)
    BY <1>2, <2>4, <2>5, FewFrames DEF Tidy, Held
  <2>7. Adds(c, d, f)
    BY <1>5, <2>3, <2>4, <2>5, FewFrames DEF Adds, Held
  <2>8. d \in Served
    BY <1>1, <2>2, <2>4 DEF Served
  <2> QED
    BY <2>1, <2>6, <2>7, <2>8
<1>6. CASE c.phase = "live" /\ c.slow /\ f.lossy
  <2> DEFINE d == [c EXCEPT !.lossy = <<f>>]
  <2>1. Video!Link!Dispatch(c, f) = d
    BY <1>6 DEF Video!Link!Dispatch
  <2>2. <<f>> \in Seq(Video!Frames) /\ FramesIn(<<f>>) = {f} /\ Len(<<f>>) = 1
    BY FewFrames
  <2>3. d \in Streams
    BY <1>1, <2>2 DEF Streams, Video!Link!Connections
  <2>4. /\ d.phase = c.phase /\ d.buffer = c.buffer /\ d.lossy = <<f>> /\ d.queue = c.queue
        /\ d.wire = c.wire /\ d.slow = c.slow
    BY <1>1 DEF Streams, Video!Link!Connections
  <2> HIDE DEF d
  <2>5. Under(c.wire, <<f>>)
    BY <1>3, <2>2 DEF Under
  <2>6. Tidy(k, d)
    BY <1>2, <1>6, <2>2, <2>4, <2>5 DEF Tidy, Held
  <2>7. Adds(c, d, f)
    BY <1>2, <1>6, <2>2, <2>4 DEF Adds, Held
  <2>8. d \in Served
    BY <1>1, <2>3, <2>4 DEF Served
  <2> QED
    BY <2>1, <2>6, <2>7, <2>8
<1>7. CASE c.phase = "live" /\ c.slow /\ ~f.lossy /\ Len(c.queue) < MaxWaiting
  <2> DEFINE d == [c EXCEPT !.queue = Append(@, f)]
  <2>1. Video!Link!Dispatch(c, f) = d
    BY <1>7 DEF Video!Link!Dispatch
  <2>2. /\ Append(c.queue, f) \in Seq(Video!Frames)
        /\ FramesIn(Append(c.queue, f)) = FramesIn(c.queue) \cup {f}
        /\ Climbs(Append(c.queue, f))
    BY <1>1, <1>2, <1>3, OneMore
  <2>3. d \in Streams
    BY <1>1, <2>2 DEF Streams, Video!Link!Connections
  <2>4. /\ d.phase = c.phase /\ d.buffer = c.buffer /\ d.lossy = c.lossy
        /\ d.queue = Append(c.queue, f) /\ d.wire = c.wire /\ d.slow = c.slow
    BY <1>1 DEF Streams, Video!Link!Connections
  <2> HIDE DEF d
  <2>5. Under(c.wire, d.queue)
    BY <1>2, <1>3, <2>2, <2>4 DEF Under
  <2>6. Tidy(k, d)
    <3>1. Climbs(d.queue) /\ FramesIn(d.queue) = FramesIn(c.queue) \cup {f}
      BY <2>2, <2>4
    <3> QED
      BY <1>2, <1>7, <2>4, <2>5, <3>1 DEF Tidy, Held
  <2>7. Adds(c, d, f)
    BY <1>7, <2>2, <2>4 DEF Adds, Held
  <2>8. d \in Served
    BY <1>1, <2>3, <2>4 DEF Served
  <2> QED
    BY <2>1, <2>6, <2>7, <2>8
<1>8. CASE c.phase = "live" /\ c.slow /\ ~f.lossy /\ ~(Len(c.queue) < MaxWaiting)
  <2> DEFINE d == Video!Link!Ended(c)
  <2>1. Video!Link!Dispatch(c, f) = d
    BY <1>8 DEF Video!Link!Dispatch
  <2>2. /\ d \in Streams /\ d.phase = "ended" /\ d.wire = c.wire
        /\ d.lossy = <<>> /\ d.queue = <<>> /\ d.buffer = <<>>
    BY <1>1, EndedTidy
  <2> HIDE DEF d
  <2>3. Tidy(k, d)
    BY <1>2, <2>2, FewFrames DEF Tidy, Held
  <2>4. Adds(c, d, f)
    BY <2>2, FewFrames DEF Adds, Held
  <2>5. d \in Served
    BY <2>2 DEF Served
  <2> QED
    BY <2>1, <2>3, <2>4, <2>5
<1> QED
  BY <1>1, <1>4, <1>5, <1>6, <1>7, <1>8

(* One frame taken; one whose number was written before is dropped.        *)
LEMMA TakeTidy ==
  ASSUME NEW k, NEW c \in Served, Tidy(k, c), NEW f \in Video!Frames, Fits(k, f), Newer(c, f)
  PROVE  /\ Video!Link!Take(c, f) \in Served /\ Tidy(k, Video!Link!Take(c, f))
         /\ Adds(c, Video!Link!Take(c, f), f)
<1>1. Video!Link!Take(c, f) = Video!Link!Dispatch(c, f) \/ (f.id # 0 /\ Video!Link!Take(c, f) = c)
  BY DEF Video!Link!Take
<1>2. CASE Video!Link!Take(c, f) = Video!Link!Dispatch(c, f)
  BY <1>2, DispatchTidy
<1>3. CASE f.id # 0 /\ Video!Link!Take(c, f) = c
  <2>1. Adds(c, c, f)
    BY <1>3 DEF Adds
  <2> QED
    BY <1>3, <2>1
<1> QED
  BY <1>1, <1>2, <1>3

(* Whatever is handed on, the stream is live or has ended.                 *)
LEMMA TakeServes ==
  ASSUME NEW c \in Served, NEW f \in Video!Frames
  PROVE  Video!Link!Take(c, f) \in Served
<1>1. /\ c \in Streams /\ c.phase \in {"live", "ended"} /\ c.buffer = <<>>
      /\ c.queue \in Seq(Video!Frames)
  BY StreamParts DEF Served
<1>2. Video!Link!Take(c, f) \in {c, Video!Link!Write(c, f), [c EXCEPT !.lossy = <<f>>],
                          [c EXCEPT !.queue = Append(@, f)], Video!Link!Ended(c)}
  BY DEF Video!Link!Take, Video!Link!Dispatch
<1>3. Video!Link!Write(c, f) \in Served
  BY <1>1, WritePuts DEF Served, Puts
<1>4. [c EXCEPT !.lossy = <<f>>] \in Served
  <2>1. <<f>> \in Seq(Video!Frames)
    OBVIOUS
  <2> QED
    BY <1>1, <2>1 DEF Served, Streams, Video!Link!Connections
<1>5. [c EXCEPT !.queue = Append(@, f)] \in Served
  <2>1. Append(c.queue, f) \in Seq(Video!Frames)
    BY <1>1
  <2> QED
    BY <1>1, <2>1 DEF Served, Streams, Video!Link!Connections
<1>6. Video!Link!Ended(c) \in Served
  BY <1>1, EndedTidy DEF Served
<1> QED
  BY <1>2, <1>3, <1>4, <1>5, <1>6

(* The frames of AllTaken are taken one after the other.                   *)
LEMMA InTurnTaken ==
  ASSUME NEW c \in Served, NEW frames \in Seq(Video!Frames)
  PROVE  \E h \in [0..Len(frames) -> Served] :
           /\ h[0] = c
           /\ \A i \in 1..Len(frames) : h[i] = Video!Link!Take(h[i - 1], frames[i])
           /\ Video!Link!AllTaken(c, frames) = h[Len(frames)]
<1> DEFINE n == Len(frames)
           F(g) == [i \in 0..n |-> IF i = 0 THEN c ELSE Video!Link!Take(g[i - 1], frames[i])]
           after == CHOOSE g : g = F(g)
           step == [d \in Served |-> [i \in 1..n |-> Video!Link!Take(d, frames[i])]]
<1>1. n \in Nat /\ \A i \in 1..n : frames[i] \in Video!Frames
  OBVIOUS
<1>2. step \in [Served -> [1..n -> Served]]
  <2> HIDE DEF n
  <2> QED
    BY <1>1, TakeServes
<1>3. \E h : IsTrace(h, Served, c, n, step)
  <2> HIDE DEF step, n
  <2> QED
    BY <1>1, <1>2, Trace
<1>4. PICK h \in [0..n -> Served] : h[0] = c /\ \A i \in 1..n : h[i] = step[h[i - 1]][i]
  <2> HIDE DEF step, n, F, after
  <2> QED
    BY <1>3 DEF IsTrace
<1>5. ASSUME NEW i \in 1..n PROVE h[i] = Video!Link!Take(h[i - 1], frames[i])
  <2>1. i - 1 \in 0..n /\ h[i - 1] \in Served
    BY <1>1, <1>4
  <2>2. step[h[i - 1]][i] = Video!Link!Take(h[i - 1], frames[i])
    BY <2>1
  <2> QED
    BY <1>4, <2>2
<1>6. h = F(h)
  BY <1>1, <1>4, <1>5
<1>7. after = F(after)
  BY <1>6
<1>8. Video!Link!AllTaken(c, frames) = after[n]
  BY DEF Video!Link!AllTaken
<1> HIDE DEF after
<1>9. after[0] = c
  BY <1>1, <1>7
<1>10. ASSUME NEW i \in 1..n PROVE after[i] = Video!Link!Take(after[i - 1], frames[i])
  <2>1. i \in 0..n /\ i # 0
    BY <1>1
  <2>2. F(after)[i] = Video!Link!Take(after[i - 1], frames[i])
    BY <2>1
  <2> QED
    BY <1>7, <2>2
<1> HIDE DEF n, F, step
<1> DEFINE S == {i \in 0..n : after[i] \in Served}
<1>11. 0 \in S
  BY <1>1, <1>9
<1>12. ASSUME NEW i \in 1..n, i - 1 \in S PROVE i \in S
  <2>1. after[i - 1] \in Served
    BY <1>12
  <2>2. Video!Link!Take(after[i - 1], frames[i]) \in Served
    BY <1>1, <2>1, TakeServes
  <2> QED
    BY <1>1, <1>10, <2>2
<1>13. \A i \in 0..n : i \in S
  <2>1. n \in Nat /\ \A i \in 1..n : i - 1 \in S => i \in S
    BY <1>1, <1>12
  <2> HIDE DEF S
  <2> QED
    BY <2>1, <1>11, UpTo, Zenon
<1>14. after \in [0..n -> Served]
  BY <1>7, <1>13 DEF F
<1> QED
  BY <1>8, <1>9, <1>10, <1>14 DEF n

(* Frames that fit and climb, taken one after the other by a stream that   *)
(* holds no tick: it stays tidy, and while it is live holds each frame     *)
(* that has no number, or a newer tick in its place.                       *)
LEMMA AllTakenTidy ==
  ASSUME NEW k, NEW c \in Served, Tidy(k, c), \A g \in Held(c) : g.tick = 0,
         NEW frames \in Seq(Video!Frames), \A f \in FramesIn(frames) : Fits(k, f), Climbs(frames)
  PROVE  LET d == Video!Link!AllTaken(c, frames) IN
         /\ d \in Served /\ Tidy(k, d)
         /\ Held(d) \subseteq Held(c) \cup FramesIn(frames)
         /\ d.phase = "live" => \A f \in FramesIn(frames) : f.id = 0 =>
              f \in Held(d) \/ (f.lossy /\ \E g \in FramesIn(frames) : f.tick < g.tick)
<1> DEFINE n == Len(frames)
           Until(i) == {frames[j] : j \in 1..i}
           Over(j) == frames[j].lossy /\ \E m \in 1..n : frames[j].tick < frames[m].tick
<1>1. PICK h \in [0..n -> Served] :
        /\ h[0] = c
        /\ \A i \in 1..n : h[i] = Video!Link!Take(h[i - 1], frames[i])
        /\ Video!Link!AllTaken(c, frames) = h[n]
  BY InTurnTaken
<1>2. /\ n \in Nat /\ \A i \in 1..n : frames[i] \in Video!Frames /\ Fits(k, frames[i])
      /\ FramesIn(frames) = Until(n)
      /\ \A i \in 1..n : frames[i].tick > 0 => \A j \in 1..i - 1 : frames[j].tick < frames[i].tick
      /\ \A i \in 1..n : frames[i].tick \in Nat
  <2>1. DOMAIN frames = 1..n /\ n \in Nat /\ \A i \in 1..n : frames[i] \in Video!Frames
    OBVIOUS
  <2>2. \A f \in Video!Frames : f.tick \in Nat
    BY DEF Video!Frames
  <2> HIDE DEF n
  <2> QED
    BY <2>1, <2>2 DEF FramesIn, Climbs
<1> HIDE DEF n
<1> DEFINE S == {i \in 0..n :
                   /\ Tidy(k, h[i]) /\ Held(h[i]) \subseteq Held(c) \cup Until(i)
                   /\ h[i].phase = "live" => \A j \in 1..i : frames[j].id = 0 =>
                        frames[j] \in Held(h[i]) \/ Over(j)}
<1>3. 0 \in S
  <2>1. 0 \in 0..n /\ 1..0 = {}
    BY <1>2
  <2> QED
    BY <1>1, <2>1
<1>4. ASSUME NEW i \in 1..n, i - 1 \in S PROVE i \in S
  <2> DEFINE a == h[i - 1]
             d == h[i]
             f == frames[i]
  <2>1. /\ i - 1 \in 0..n /\ i \in 0..n /\ a \in Served /\ d = Video!Link!Take(a, f)
        /\ f \in Video!Frames /\ Fits(k, f) /\ f.tick \in Nat
    BY <1>1, <1>2
  <2>2. /\ Tidy(k, a) /\ Held(a) \subseteq Held(c) \cup Until(i - 1)
        /\ a.phase = "live" => \A j \in 1..i - 1 : frames[j].id = 0 =>
             frames[j] \in Held(a) \/ Over(j)
    BY <1>4
  <2>3. Newer(a, f)
    <3>1. ASSUME NEW g \in Held(a), f.tick > 0 PROVE g.tick < f.tick
      <4>1. CASE g \in Held(c)
        BY <2>1, <3>1, <4>1
      <4>2. CASE g \in Until(i - 1)
        BY <1>2, <3>1, <4>2
      <4> QED
        BY <2>2, <4>1, <4>2
    <3> QED
      BY <3>1 DEF Newer
  <2> HIDE DEF S
  <2>4. Tidy(k, d) /\ Adds(a, d, f)
    <3> HIDE DEF a, d, f
    <3> QED
      BY <2>1, <2>2, <2>3, TakeTidy
  <2>5. Held(d) \subseteq Held(c) \cup Until(i)
    <3>1. Until(i - 1) \subseteq Until(i) /\ f \in Until(i)
      BY <1>2
    <3> HIDE DEF a, d, f, Until
    <3> QED
      BY <2>2, <2>4, <3>1 DEF Adds
  <2>6. ASSUME d.phase = "live", NEW j \in 1..i, frames[j].id = 0
        PROVE  frames[j] \in Held(d) \/ Over(j)
    <3>1. CASE j = i
      <4>1. f = frames[j] /\ f.id = 0
        BY <2>6, <3>1
      <4> HIDE DEF a, d, f, Over
      <4> QED
        BY <2>4, <2>6, <4>1 DEF Adds
    <3>2. CASE j # i
      <4>1. j \in 1..i - 1
        BY <1>2, <3>2
      <4>2. a.phase = "live" /\ (frames[j] \in Held(a) =>
              frames[j] \in Held(d) \/ (f.lossy /\ frames[j].lossy))
        <5> HIDE DEF a, d, f, Over
        <5> QED
          BY <2>4, <2>6 DEF Adds
      <4>3. CASE Over(j)
        BY <4>3
      <4>4. CASE frames[j] \in Held(a) /\ f.lossy /\ frames[j].lossy
        <5>1. f.tick > 0
          <6> HIDE DEF a, d, f
          <6> QED
            BY <2>1, <4>4 DEF Fits
        <5>2. frames[j].tick < frames[i].tick
          BY <1>2, <4>1, <5>1
        <5> QED
          BY <4>4, <5>2
      <4>5. frames[j] \in Held(a) \/ Over(j)
        <5> HIDE DEF a, d, f, Over
        <5> QED
          BY <2>2, <2>6, <4>1, <4>2
      <4> QED
        BY <4>2, <4>3, <4>4, <4>5
    <3> QED
      BY <3>1, <3>2
  <2>7. i \in 0..n /\ Tidy(k, h[i]) /\ Held(h[i]) \subseteq Held(c) \cup Until(i)
    BY <2>1, <2>4, <2>5
  <2> HIDE DEF Over, Until
  <2> QED
    BY <2>6, <2>7 DEF S
<1>5. \A i \in 0..n : i \in S
  <2>1. \A i \in 1..n : i - 1 \in S => i \in S
    BY <1>4
  <2> HIDE DEF S
  <2> QED
    BY <1>2, <1>3, <2>1, UpTo, Zenon
<1>6. n \in S /\ n \in 0..n
  <2> HIDE DEF S
  <2> QED
    BY <1>2, <1>5
<1>7. h[n].phase = "live" => \A f \in FramesIn(frames) : f.id = 0 =>
        f \in Held(h[n]) \/ (f.lossy /\ \E g \in FramesIn(frames) : f.tick < g.tick)
  <2>1. ASSUME h[n].phase = "live", NEW f \in FramesIn(frames), f.id = 0
        PROVE  f \in Held(h[n]) \/ (f.lossy /\ \E g \in FramesIn(frames) : f.tick < g.tick)
    <3>1. PICK j \in 1..n : f = frames[j]
      BY <1>2, <2>1
    <3>2. f \in Held(h[n]) \/ Over(j)
      BY <1>6, <2>1, <3>1
    <3> QED
      BY <1>2, <3>1, <3>2
  <2> QED
    BY <2>1
<1>8. h[n] \in Served /\ Tidy(k, h[n]) /\ Held(h[n]) \subseteq Held(c) \cup FramesIn(frames)
  BY <1>1, <1>2, <1>6
<1> HIDE DEF S, Until, Over
<1> QED
  BY <1>1, <1>7, <1>8

(* A published message, whatever the phase of the stream.                  *)
LEMMA LiveEventFits ==
  ASSUME NEW k, NEW c \in Streams, StreamFits(k, c), NEW f \in Video!Frames, Fits(k, f),
         \A g \in OnWay(c) : f.tick > 0 => g.tick < f.tick
  PROVE  LET d == Video!Link!LiveEvent(c, f) IN
         /\ d \in Streams /\ StreamFits(k, d)
         /\ d.phase = c.phase \/ (c.phase = "live" /\ d.phase = "ended")
         /\ OnWay(d) \subseteq OnWay(c) \cup {f}
         /\ d.phase \in {"opening", "live"} =>
              /\ f.id = 0 => f \in OnWay(d)
              /\ \A g \in OnWay(c) : g \in OnWay(d) \/ (f.lossy /\ g.lossy /\ f \in OnWay(d))
<1> DEFINE d == Video!Link!LiveEvent(c, f)
<1>1. /\ c.buffer \in Seq(Video!Frames) /\ c.phase \in {"closed", "opening", "live", "ended"}
  BY StreamParts
<1>2. /\ Tidy(k, c)
      /\ c.phase = "opening" => c.wire = <<>> /\ c.lossy = <<>> /\ c.queue = <<>>
      /\ c.phase # "opening" => c.buffer = <<>>
      /\ \A g \in FramesIn(c.buffer) : Fits(k, g)
      /\ Climbs(c.buffer)
  BY DEF StreamFits
<1>3. CASE c.phase = "opening"
  <2> DEFINE e == [c EXCEPT !.buffer = Append(@, f)]
  <2>1. d = e
    BY <1>3 DEF Video!Link!LiveEvent
  <2>2. /\ Append(c.buffer, f) \in Seq(Video!Frames)
        /\ FramesIn(Append(c.buffer, f)) = FramesIn(c.buffer) \cup {f}
        /\ Climbs(Append(c.buffer, f))
    <3>1. \A g \in FramesIn(c.buffer) : f.tick > 0 => g.tick < f.tick
      BY DEF OnWay
    <3> QED
      BY <1>1, <1>2, <3>1, OneMore
  <2>3. e \in Streams
    BY <2>2 DEF Streams, Video!Link!Connections
  <2>4. /\ e.phase = c.phase /\ e.buffer = Append(c.buffer, f) /\ e.lossy = c.lossy
        /\ e.queue = c.queue /\ e.wire = c.wire /\ e.slow = c.slow
    BY DEF Streams, Video!Link!Connections
  <2> HIDE DEF d, e
  <2>5. Held(e) = Held(c) /\ OnWay(e) = OnWay(c) \cup {f}
    BY <2>2, <2>4 DEF OnWay, Held
  <2>6. Tidy(k, e)
    BY <1>2, <2>4, <2>5 DEF Tidy
  <2>7. StreamFits(k, e)
    BY <1>2, <1>3, <2>2, <2>4, <2>6 DEF StreamFits
  <2> QED
    BY <2>1, <2>3, <2>4, <2>5, <2>7 DEF d
<1>4. CASE c.phase = "live"
  <2>1. d = Video!Link!Take(c, f)
    BY <1>4 DEF Video!Link!LiveEvent
  <2>2. c \in Served /\ Newer(c, f)
    BY <1>2, <1>4 DEF Served, Newer, OnWay
  <2>3. d \in Served /\ Tidy(k, d) /\ Adds(c, d, f)
    <3> HIDE DEF d
    <3> QED
      BY <1>2, <2>1, <2>2, TakeTidy
  <2> HIDE DEF d
  <2>4. OnWay(c) = Held(c) /\ OnWay(d) = Held(d) /\ d.buffer = <<>> /\ c.buffer = <<>>
    BY <2>2, <2>3, FewFrames DEF OnWay, Served
  <2>5. StreamFits(k, d)
    BY <2>3, <2>4, FewFrames DEF StreamFits, Served
  <2> QED
    BY <1>4, <2>3, <2>4, <2>5 DEF d, Served, Adds
<1>5. CASE c.phase \notin {"opening", "live"}
  <2>1. d = c
    BY <1>5 DEF Video!Link!LiveEvent
  <2> HIDE DEF d
  <2> QED
    BY <1>5, <2>1 DEF d
<1> QED
  BY <1>1, <1>3, <1>4, <1>5

(* The opening is sent, and what was held meanwhile handed on.             *)
LEMMA WentLiveFits ==
  ASSUME NEW k, NEW c \in Streams, StreamFits(k, c), c.phase = "opening",
         NEW frames \in Seq(Video!Frames), \A f \in FramesIn(frames) : Opens(f)
  PROVE  LET d == Video!Link!WentLive(c, frames, 0) IN
         /\ d \in Streams /\ StreamFits(k, d) /\ d.phase \in {"live", "ended"}
         /\ OnWay(d) \subseteq FramesIn(frames) \cup OnWay(c)
         /\ d.phase = "live" => \A f \in OnWay(c) : f.id = 0 =>
              f \in OnWay(d) \/ (f.lossy /\ \E g \in OnWay(c) : f.tick < g.tick)
<1> DEFINE opened == Video!Link!AllWritten(c, frames)
           live == [opened EXCEPT !.phase = "live", !.cursor = 0, !.buffer = <<>>]
           d == Video!Link!AllTaken(live, c.buffer)
<1>1. /\ c.wire = <<>> /\ c.lossy = <<>> /\ c.queue = <<>> /\ c.buffer \in Seq(Video!Frames)
      /\ \A f \in FramesIn(c.buffer) : Fits(k, f)
      /\ Climbs(c.buffer)
  BY StreamParts DEF StreamFits
<1>2. OnWay(c) = FramesIn(c.buffer)
  BY <1>1, FewFrames DEF OnWay, Held
<1>3. opened \in Streams /\ Puts(c, opened, frames)
  BY AllWrittenPuts
<1>4. Video!Link!WentLive(c, frames, 0) = d
  BY DEF Video!Link!WentLive
<1> HIDE DEF d, opened
<1>5. /\ live \in Streams /\ live.phase = "live" /\ live.buffer = <<>> /\ live.wire = opened.wire
      /\ live.lossy = opened.lossy /\ live.queue = opened.queue /\ live.slow = opened.slow
  <2>1. <<>> \in Seq(Video!Frames)
    OBVIOUS
  <2> QED
    BY <1>3, <2>1 DEF Streams, Video!Link!Connections, Video!Link!Phases
<1> HIDE DEF live
<1>6. live.lossy = <<>> /\ live.queue = <<>> /\ live.wire = frames
  <2>1. <<>> \o frames = frames
    OBVIOUS
  <2> QED
    BY <1>1, <1>3, <1>5, <2>1 DEF Puts
<1>7. live \in Served /\ Held(live) = FramesIn(frames)
  BY <1>5, <1>6, FewFrames DEF Served, Held
<1>8. Tidy(k, live)
  <2>1. \A f \in Held(live) : Fits(k, f) /\ f.tick = 0
    <3>1. \A f \in Video!Frames : Opens(f) => Fits(k, f) /\ f.tick = 0
      BY DEF Opens, Fits, Video!Frames
    <3> QED
      BY <1>7, <3>1, FramesInBoth
  <2>2. Climbs(live.wire)
    BY <1>6 DEF Climbs, FramesIn, Opens
  <2> QED
    BY <1>6, <2>1, <2>2, FewFrames DEF Tidy
<1>9. /\ d \in Served /\ Tidy(k, d)
      /\ Held(d) \subseteq Held(live) \cup FramesIn(c.buffer)
      /\ d.phase = "live" => \A f \in FramesIn(c.buffer) : f.id = 0 =>
           f \in Held(d) \/ (f.lossy /\ \E g \in FramesIn(c.buffer) : f.tick < g.tick)
  <2>1. \A g \in Held(live) : g.tick = 0
    BY <1>7 DEF Opens
  <2> QED
    BY <1>1, <1>7, <1>8, <2>1, AllTakenTidy DEF d
<1>10. OnWay(d) = Held(d) /\ d.buffer = <<>>
  BY <1>9, FewFrames DEF OnWay, Served
<1>11. StreamFits(k, d)
  BY <1>9, <1>10, FewFrames DEF StreamFits, Served
<1>12. d \in Streams /\ d.phase \in {"live", "ended"}
  BY <1>9 DEF Served
<1> QED
  BY <1>2, <1>4, <1>7, <1>9, <1>10, <1>11, <1>12

(* A slow reader catches up: everything stays on its way, in its order.    *)
LEMMA DrainedFits ==
  ASSUME NEW k, NEW c \in Streams, StreamFits(k, c), c.phase = "live", c.wire = <<>>
  PROVE  LET d == Video!Link!Drained(c) IN
         /\ d \in Streams /\ StreamFits(k, d) /\ d.phase = "live" /\ OnWay(d) = OnWay(c)
<1> DEFINE calm == [c EXCEPT !.slow = FALSE, !.lossy = <<>>]
           flushed == Video!Link!AllWritten(calm, c.lossy)
           room == IF flushed.slow THEN 0 ELSE WireLimit - Len(flushed.wire)
           n == IF room < Len(c.queue) THEN room ELSE Len(c.queue)
           p == SubSeq(c.queue, 1, n)
           r == SubSeq(c.queue, n + 1, Len(c.queue))
           rest == [flushed EXCEPT !.queue = r]
           d == Video!Link!AllWritten(rest, p)
<1>1. c.lossy \in Seq(Video!Frames) /\ c.queue \in Seq(Video!Frames) /\ c.buffer = <<>>
  BY StreamParts DEF StreamFits
<1>2. /\ \A f \in FramesIn(c.lossy) \cup FramesIn(c.queue) : Fits(k, f)
      /\ Len(c.lossy) <= 1
      /\ \A f \in FramesIn(c.lossy) : f.lossy
      /\ \A f \in FramesIn(c.queue) : ~f.lossy
      /\ Climbs(c.queue)
  BY DEF StreamFits, Tidy, Held
<1>3. /\ calm \in Streams /\ calm.phase = "live" /\ calm.buffer = <<>> /\ calm.wire = <<>>
      /\ calm.lossy = <<>> /\ calm.queue = c.queue /\ calm.slow = FALSE
  BY <1>1 DEF Streams, Video!Link!Connections
<1>4. flushed \in Streams /\ Puts(calm, flushed, c.lossy)
  <2> HIDE DEF calm
  <2> QED
    BY <1>1, <1>3, AllWrittenPuts
<1> HIDE DEF calm
<1>5. Video!Link!Drained(c) = d
  <2>1. flushed.queue = c.queue
    BY <1>3, <1>4 DEF Puts
  <2> HIDE DEF flushed
  <2> QED
    BY <2>1 DEF Video!Link!Drained, flushed, calm
<1> HIDE DEF flushed, d
<1>6. /\ flushed.wire = c.lossy /\ flushed.lossy = <<>> /\ flushed.queue = c.queue
      /\ flushed.phase = "live" /\ flushed.buffer = <<>>
      /\ flushed.slow \in BOOLEAN
      /\ ~flushed.slow => c.lossy = <<>> \/ Len(c.lossy) < WireLimit
  <2>1. <<>> \o c.lossy = c.lossy /\ Len(c.lossy) \in Nat
    BY <1>1
  <2>2. WireLimit \in Nat
    BY StreamAssumption
  <2>3. flushed.slow \in BOOLEAN
    BY <1>4, StreamParts
  <2> QED
    BY <1>3, <1>4, <2>1, <2>2, <2>3 DEF Puts
<1>7. room \in Nat
  <2>1. WireLimit \in Nat /\ Len(c.lossy) \in Nat /\ (c.lossy = <<>> => Len(c.lossy) = 0)
    BY <1>1, StreamAssumption
  <2> QED
    BY <1>6, <2>1
<1>8. n \in 0..Len(c.queue) /\ Len(c.queue) \in Nat
  <2> HIDE DEF room
  <2> QED
    BY <1>1, <1>7
<1>9. n = room \/ n = Len(c.queue)
  OBVIOUS
<1> HIDE DEF n
<1>10. /\ p \in Seq(Video!Frames) /\ r \in Seq(Video!Frames) /\ c.queue = p \o r /\ Len(p) = n
       /\ (n = Len(c.queue) => r = <<>>)
  <2>1. c.queue = p \o r
    BY <1>1, <1>8, Halves
  <2>2. p \in Seq(Video!Frames) /\ Len(p) = n
    BY <1>1, <1>8
  <2>3. r \in Seq(Video!Frames) /\ Len(r) = Len(c.queue) - n
    BY <1>1, <1>8
  <2> HIDE DEF p, r
  <2>4. n = Len(c.queue) => r = <<>>
    BY <1>8, <2>3
  <2> QED
    BY <2>1, <2>2, <2>3, <2>4
<1> HIDE DEF p, r
<1>11. /\ rest \in Streams /\ rest.phase = "live" /\ rest.buffer = <<>> /\ rest.wire = c.lossy
       /\ rest.lossy = <<>> /\ rest.queue = r /\ rest.slow = flushed.slow
  BY <1>4, <1>6, <1>10 DEF Streams, Video!Link!Connections
<1> HIDE DEF rest
<1>12. d \in Streams /\ Puts(rest, d, p)
  BY <1>10, <1>11, AllWrittenPuts DEF d
<1>13. /\ d.phase = "live" /\ d.buffer = <<>> /\ d.lossy = <<>> /\ d.queue = r
       /\ d.wire = c.lossy \o p
  BY <1>11, <1>12 DEF Puts
<1>14. d.slow \/ d.queue = <<>>
  <2>1. SUFFICES ASSUME n = room, r # <<>> PROVE d.slow
    BY <1>9, <1>10, <1>13
  <2>2. CASE flushed.slow
    BY <1>11, <1>12, <2>2 DEF Puts
  <2>3. CASE ~flushed.slow
    <3>1. n = WireLimit - Len(c.lossy) /\ Len(c.lossy) \in Nat /\ WireLimit \in Nat \ {0}
      BY <1>1, <1>6, <2>1, <2>3, StreamAssumption
    <3>2. Len(c.lossy \o p) = WireLimit
      BY <1>1, <1>10, <3>1
    <3>3. p # <<>>
      <4>1. n # 0
        <5>1. c.lossy = <<>> => Len(c.lossy) = 0
          OBVIOUS
        <5> QED
          BY <1>6, <2>3, <3>1, <5>1
      <4> QED
        BY <1>10, <4>1
    <3>4. Len(d.wire) >= WireLimit
      BY <1>13, <3>1, <3>2
    <3> QED
      BY <1>12, <3>3, <3>4 DEF Puts
  <2> QED
    BY <1>6, <2>2, <2>3
<1>15. Climbs(p) /\ Climbs(r) /\ Under(p, r) /\ FramesIn(c.queue) = FramesIn(p) \cup FramesIn(r)
  BY <1>2, <1>10, ClimbsBoth, FramesInBoth
<1>16. Under(c.lossy, c.queue)
  <2>1. ASSUME NEW f \in FramesIn(c.lossy), NEW g \in FramesIn(c.queue), g.tick > 0 PROVE FALSE
    BY <1>2, <2>1 DEF Fits
  <2> QED
    BY <2>1 DEF Under
<1>17. Under(c.lossy, p) /\ Under(c.lossy, r)
  BY <1>15, <1>16 DEF Under
<1>18. Climbs(d.wire) /\ FramesIn(d.wire) = FramesIn(c.lossy) \cup FramesIn(p)
  BY <1>1, <1>2, <1>10, <1>13, <1>15, <1>17, ClimbsBoth, FramesInBoth, FewFrames
<1>19. Under(d.wire, r)
  BY <1>15, <1>17, <1>18 DEF Under
<1>20. Held(d) = Held(c) /\ OnWay(d) = OnWay(c)
  BY <1>1, <1>13, <1>15, <1>18, FewFrames DEF Held, OnWay
<1>21. Tidy(k, d)
  <2>1. \A f \in Held(d) : Fits(k, f)
    BY <1>20 DEF StreamFits, Tidy
  <2>2. \A f \in FramesIn(d.queue) : ~f.lossy
    BY <1>2, <1>13, <1>15
  <2>3. Len(d.lossy) <= 1 /\ \A f \in FramesIn(d.lossy) : f.lossy
    BY <1>13, FewFrames
  <2> QED
    BY <1>13, <1>14, <1>15, <1>18, <1>19, <2>1, <2>2, <2>3, FewFrames DEF Tidy
<1>22. StreamFits(k, d)
  BY <1>13, <1>21, FewFrames DEF StreamFits
<1> QED
  BY <1>5, <1>12, <1>13, <1>20, <1>22

-----------------------------------------------------------------------------
(* The frames and the beginnings have their types.                         *)
LEMMA FrameTypes ==
  /\ Video!Nothing \in [ended : BOOLEAN, tick : Nat] /\ Video!Nothing.tick = 0
  /\ Video!Nothing.ended = FALSE
  /\ Video!NotRead \in [at : {"latest", "rows", "ready"}, frames : Seq(Video!Frames)]
  /\ Video!NotRead.frames = <<>>
  /\ \A i \in Video!Ids \cup {0} :
       /\ \A s \in Video!Statuses \cup {"none"} :
            Video!Snapshot(i, s) \in Video!Frames /\ Opens(Video!Snapshot(i, s))
       /\ Video!StatusFrame(i) \in Video!Frames /\ Opens(Video!StatusFrame(i))
       /\ \A n \in Nat, l \in BOOLEAN : Video!TickFrame(i, n, l) \in Video!Frames
       /\ Opens(Video!TickFrame(i, 0, FALSE))
  /\ Video!EndedFrame \in Video!Frames
<1>1. /\ Video!Nothing \in [ended : BOOLEAN, tick : Nat] /\ Video!Nothing.tick = 0
      /\ Video!Nothing.ended = FALSE
  BY DEF Video!Nothing
<1>2. /\ Video!NotRead \in [at : {"latest", "rows", "ready"}, frames : Seq(Video!Frames)]
      /\ Video!NotRead.frames = <<>>
  <2>1. <<>> \in Seq(Video!Frames)
    OBVIOUS
  <2> QED
    BY <2>1 DEF Video!NotRead
<1>3. 0 \in Video!Ids \cup {0}
  OBVIOUS
<1>4. Video!EndedFrame \in Video!Frames
  BY <1>3 DEF Video!EndedFrame, Video!Frames
<1>5. ASSUME NEW i \in Video!Ids \cup {0}
      PROVE  /\ \A s \in Video!Statuses \cup {"none"} :
                  Video!Snapshot(i, s) \in Video!Frames /\ Opens(Video!Snapshot(i, s))
             /\ Video!StatusFrame(i) \in Video!Frames /\ Opens(Video!StatusFrame(i))
             /\ \A n \in Nat, l \in BOOLEAN : Video!TickFrame(i, n, l) \in Video!Frames
             /\ Opens(Video!TickFrame(i, 0, FALSE))
  <2>1. "READY" \in Video!Statuses
    BY DEF Video!Statuses
  <2> QED
    BY <2>1 DEF Video!Snapshot, Video!StatusFrame, Video!TickFrame, Opens, Video!Frames
<1> QED
  BY <1>1, <1>2, <1>4, <1>5

(* There are few rows, and few of them unsent.                             *)
LEMMA FewRows ==
  ASSUME Video!TypeOK, RowsFit
  PROVE  /\ MaxTicks \in Nat /\ Video!Most \in Nat
         /\ IsFiniteSet(unsent) /\ Cardinality(unsent) \in Nat
         /\ Len(rows) \in Nat /\ Len(rows) <= MaxTicks + 1 /\ DOMAIN rows = 1..Len(rows)
         /\ DOMAIN rows \subseteq Video!Ids /\ Len(rows) \in Video!Ids \cup {0}
         /\ ticks \in Nat
<1>1. /\ kind \in {"upload", "live"} /\ rows \in Seq({"tick", "ready"})
      /\ ticks \in 0..Video!Most /\ unsent \subseteq DOMAIN rows
  BY DEF Video!TypeOK
<1>2. Len(rows) \in Nat /\ DOMAIN rows = 1..Len(rows)
  BY <1>1
<1>3. IsFiniteSet(unsent) /\ Cardinality(unsent) \in Nat
  <2>1. IsFiniteSet(1..Len(rows))
    BY <1>2, FS_Interval
  <2> QED
    BY <1>1, <1>2, <2>1, FS_Subset, FS_CardinalityType
<1>4. MaxTicks \in Nat /\ Video!Most \in Nat /\ ticks \in Nat /\ (kind = "upload" => Video!Most = MaxTicks)
  BY <1>1, VideoAssumption DEF Video!Most
<1>5. Len(rows) <= MaxTicks + 1
  BY <1>1, <1>2, <1>3, <1>4 DEF RowsFit
<1> QED
  BY <1>2, <1>3, <1>4, <1>5 DEF Video!Ids

(* Nothing happens to the stream.                                          *)
LEMMA QuietFits ==
  ASSUME VInv, UNCHANGED <<kind, ticks, session, conn, opening, source, page, owed>>
  PROVE  LinkFits' /\ TicksFit' /\ OwedFits'
<1>1. LinkFits'
  BY DEF VInv, LinkFits
<1>2. TicksFit'
  BY DEF VInv, TicksFit
<1>3. OwedFits'
  BY DEF VInv, OwedFits, Video!Hears
<1> QED
  BY <1>1, <1>2, <1>3

(* A message is published.                                                 *)
LEMMA PublishFits ==
  ASSUME VInv, NEW f \in Video!Frames, Fits(kind, f), Video!Publish(f),
         UNCHANGED <<kind, opening, source, page>>, ticks' \in Nat,
         ticks <= ticks', f.tick <= ticks', f.tick > 0 => ticks < f.tick
  PROVE  /\ conn' \in Streams /\ LinkFits' /\ TicksFit'
         /\ Video!Hears' => Video!Hears
         /\ conn'.phase = "closed" <=> conn.phase = "closed"
         /\ Video!Hears' =>
              /\ f.id = 0 => f \in OnWay(conn')
              /\ \A g \in OnWay(conn) : g \in OnWay(conn') \/ (f.lossy /\ g.lossy)
<1>1. /\ conn \in Streams /\ StreamFits(kind, conn) /\ ticks \in Nat /\ page.tick \in Nat
      /\ source.state = "connected" <=> conn.phase # "closed"
      /\ \A g \in FramesIn(opening.frames) : Opens(g)
      /\ page.tick <= ticks
      /\ \A g \in OnWay(conn) : g.tick <= ticks /\ (g.tick > 0 => page.tick < g.tick)
  <2>1. conn \in Streams /\ page.tick \in Nat
    BY DEF VInv, Video!TypeOK, Streams
  <2>2. ticks \in Nat
    BY FewRows DEF VInv
  <2> QED
    BY <2>1, <2>2 DEF VInv, LinkFits, TicksFit
<1>2. \A g \in OnWay(conn) : g \in Video!Frames /\ g.tick \in Nat
  <2>1. FramesIn(conn.wire) \subseteq Video!Frames /\ FramesIn(conn.lossy) \subseteq Video!Frames
        /\ FramesIn(conn.queue) \subseteq Video!Frames /\ FramesIn(conn.buffer) \subseteq Video!Frames
    BY <1>1, StreamParts, FramesInBoth
  <2>2. \A g \in Video!Frames : g.tick \in Nat
    BY DEF Video!Frames
  <2> QED
    BY <2>1, <2>2 DEF OnWay, Held
<1>3. f.tick \in Nat
  BY DEF Video!Frames
<1>4. \A g \in OnWay(conn) : f.tick > 0 => g.tick < f.tick
  BY <1>1, <1>2, <1>3
<1>5. conn' = Video!Link!LiveEvent(conn, f)
  BY DEF Video!Publish
<1>6. /\ conn' \in Streams /\ StreamFits(kind, conn')
      /\ conn'.phase = conn.phase \/ (conn.phase = "live" /\ conn'.phase = "ended")
      /\ OnWay(conn') \subseteq OnWay(conn) \cup {f}
      /\ conn'.phase \in {"opening", "live"} =>
           /\ f.id = 0 => f \in OnWay(conn')
           /\ \A g \in OnWay(conn) : g \in OnWay(conn') \/ (f.lossy /\ g.lossy /\ f \in OnWay(conn'))
  BY <1>1, <1>4, <1>5, LiveEventFits
<1>7. LinkFits'
  BY <1>1, <1>6 DEF LinkFits
<1>8. TicksFit'
  <2>1. page' = page /\ page.tick <= ticks'
    BY <1>1
  <2>2. ASSUME NEW g \in OnWay(conn') PROVE g.tick <= ticks' /\ (g.tick > 0 => page.tick < g.tick)
    <3>1. CASE g \in OnWay(conn)
      BY <1>1, <1>2, <3>1
    <3>2. CASE g = f
      BY <1>1, <1>3, <3>2
    <3> QED
      BY <1>6, <3>1, <3>2
  <2> QED
    BY <2>1, <2>2 DEF TicksFit
<1> QED
  BY <1>6, <1>7, <1>8 DEF Video!Hears

-----------------------------------------------------------------------------
(* The ticks that a video has left.                                        *)
LEMMA TicksLeft == Video!MoreTicks <=> ticks + Cardinality(unsent) < Video!Most
<1>1. Video!Cardinality(unsent) = Cardinality(unsent)
  BY DEF Video!Cardinality, Cardinality
<1> QED
  BY <1>1 DEF Video!MoreTicks

(* A tick that has no number.                                              *)
LEMMA TickKeepsOrder == ASSUME VInv, Video!Tick PROVE VInv'
<1> DEFINE f == Video!TickFrame(0, ticks + 1, kind = "upload")
<1>1. /\ Video!TypeOK /\ RowsFit /\ LinkFits /\ TicksFit /\ OwedFits
      /\ ticks + Cardinality(unsent) < Video!Most /\ ticks' = ticks + 1 /\ Video!Publish(f)
      /\ owed' = IF Video!Hears THEN [owed EXCEPT !.tick = ticks + 1] ELSE owed
      /\ UNCHANGED <<kind, status, rows, unsent, notice, session, opening, source, page, troubles>>
  BY TicksLeft DEF VInv, Video!Tick
<1>2. ticks \in Nat /\ Cardinality(unsent) \in Nat /\ Video!Most \in Nat /\ Len(rows) \in Nat
  BY <1>1, FewRows
<1>3. /\ f \in Video!Frames /\ f.id = 0 /\ f.tick = ticks + 1 /\ (f.lossy <=> kind = "upload")
      /\ f.kind = "tick"
  <2>1. (kind = "upload") \in BOOLEAN /\ 0 \in Video!Ids \cup {0} /\ ticks + 1 \in Nat
    BY <1>2
  <2>2. f \in Video!Frames
    BY <2>1, FrameTypes, Zenon
  <2> QED
    BY <2>2 DEF Video!TickFrame
<1> HIDE DEF f
<1>4. Fits(kind, f)
  BY <1>2, <1>3 DEF Fits
<1>5. /\ conn' \in Streams /\ LinkFits' /\ TicksFit'
      /\ Video!Hears' => Video!Hears
      /\ conn'.phase = "closed" <=> conn.phase = "closed"
      /\ Video!Hears' => /\ f \in OnWay(conn')
                   /\ \A g \in OnWay(conn) : g \in OnWay(conn') \/ (f.lossy /\ g.lossy)
  <2>1. ticks' \in Nat /\ ticks <= ticks' /\ f.tick <= ticks' /\ (f.tick > 0 => ticks < f.tick)
    BY <1>1, <1>2, <1>3
  <2> QED
    BY <1>1, <1>3, <1>4, <2>1, PublishFits
<1>6. owed \in [ended : BOOLEAN, tick : Nat] /\ owed' \in [ended : BOOLEAN, tick : Nat]
  BY <1>1, <1>2 DEF Video!TypeOK
<1>7. Video!TypeOK'
  <2>1. ticks' \in 0..Video!Most
    BY <1>1, <1>2
  <2> QED
    BY <1>1, <1>5, <1>6, <2>1 DEF Video!TypeOK, Video!Running, Video!Most, Streams
<1>8. RowsFit'
  BY <1>1, <1>2 DEF RowsFit, Video!Most
<1>9. OwedFits'
  <2>1. conn'.phase = "closed" => owed'.tick = 0 /\ ~owed'.ended
    BY <1>1, <1>5 DEF OwedFits, Video!Hears
  <2>2. ASSUME Video!Hears' PROVE owed'.tick = ticks' /\ owed'.ended = owed.ended
    BY <1>1, <1>5, <1>6, <2>2
  <2>3. Video!Hears' => f \in OnWay(conn') /\ f.tick = ticks' /\ f.id = 0
    BY <1>1, <1>3, <1>5
  <2>4. ASSUME kind = "live", owed'.ended, Video!Hears' PROVE \E g \in OnWay(conn') : g.kind = "ended"
    <3>1. ~f.lossy
      BY <1>3, <2>4
    <3> QED
      BY <1>1, <1>5, <2>2, <2>4, <3>1 DEF OwedFits
  <2> QED
    BY <1>1, <2>1, <2>2, <2>3, <2>4 DEF OwedFits
<1> QED
  BY <1>5, <1>7, <1>8, <1>9 DEF VInv

(* The tick of a row.                                                      *)
LEMMA SendTickKeepsOrder == ASSUME VInv, NEW i \in Video!Ids, Video!SendTick(i) PROVE VInv'
<1> DEFINE f == Video!TickFrame(i, ticks + 1, TRUE)
<1>1. /\ Video!TypeOK /\ RowsFit /\ LinkFits /\ TicksFit /\ OwedFits
      /\ i \in unsent /\ unsent' = unsent \ {i} /\ ticks' = ticks + 1 /\ Video!Publish(f)
      /\ owed' = [owed EXCEPT !.tick = 0]
      /\ UNCHANGED <<kind, status, rows, notice, session, opening, source, page, troubles>>
  BY DEF VInv, Video!SendTick
<1>2. /\ ticks \in Nat /\ Cardinality(unsent) \in Nat /\ Video!Most \in Nat /\ Len(rows) \in Nat
      /\ IsFiniteSet(unsent)
  BY <1>1, FewRows
<1>3. kind = "upload" /\ ticks + Cardinality(unsent) <= Video!Most
  BY <1>1 DEF RowsFit, Video!TypeOK
<1>4. f \in Video!Frames /\ f.tick = ticks + 1 /\ f.lossy /\ f.kind = "tick"
  <2>1. TRUE \in BOOLEAN /\ i \in Video!Ids \cup {0} /\ ticks + 1 \in Nat
    BY <1>2
  <2>2. f \in Video!Frames
    BY <2>1, FrameTypes, Zenon
  <2> QED
    BY <2>2 DEF Video!TickFrame
<1> HIDE DEF f
<1>5. Fits(kind, f)
  BY <1>2, <1>3, <1>4 DEF Fits
<1>6. /\ conn' \in Streams /\ LinkFits' /\ TicksFit'
      /\ conn'.phase = "closed" <=> conn.phase = "closed"
  <2>1. ticks' \in Nat /\ ticks <= ticks' /\ f.tick <= ticks' /\ (f.tick > 0 => ticks < f.tick)
    BY <1>1, <1>2, <1>4
  <2> QED
    BY <1>1, <1>4, <1>5, <2>1, PublishFits
<1>7. Cardinality(unsent') = Cardinality(unsent) - 1
  BY <1>1, <1>2, FS_RemoveElement
<1>8. Video!TypeOK'
  <2>1. ticks' \in 0..Video!Most
    <3>1. Cardinality(unsent') \in Nat
      BY <1>1, <1>2, FS_RemoveElement, FS_CardinalityType
    <3> QED
      BY <1>1, <1>2, <1>3, <1>7, <3>1
  <2>2. owed' \in [ended : BOOLEAN, tick : Nat]
    BY <1>1 DEF Video!TypeOK
  <2>3. unsent' \subseteq DOMAIN rows
    BY <1>1 DEF Video!TypeOK
  <2> QED
    BY <1>1, <1>6, <2>1, <2>2, <2>3 DEF Video!TypeOK, Video!Running, Video!Most, Streams
<1>9. RowsFit'
  BY <1>1, <1>2, <1>3, <1>7 DEF RowsFit, Video!Most
<1>10. OwedFits'
  <2>1. owed'.tick = 0 /\ owed'.ended = owed.ended
    <3>1. owed \in [ended : BOOLEAN, tick : Nat]
      BY <1>1 DEF Video!TypeOK
    <3> QED
      BY <1>1, <3>1
  <2> QED
    BY <1>1, <1>3, <1>6, <2>1 DEF OwedFits
<1> QED
  BY <1>6, <1>8, <1>9, <1>10 DEF VInv

(* The end is published.                                                   *)
LEMMA NoticePublishKeepsOrder == ASSUME VInv, Video!NoticePublish PROVE VInv'
<1> DEFINE f == IF kind = "live" THEN Video!EndedFrame ELSE Video!StatusFrame(notice.id)
<1>1. /\ Video!TypeOK /\ RowsFit /\ LinkFits /\ TicksFit /\ OwedFits
      /\ Video!Publish(f) /\ owed' = [owed EXCEPT !.ended = Video!Hears]
      /\ notice' \in {[at |-> "sent", id |-> 0], [at |-> "due", id |-> 0]}
      /\ troubles' = troubles \/ (troubles < MaxTroubles /\ troubles' = troubles + 1)
      /\ UNCHANGED <<kind, status, rows, ticks, unsent, session, opening, source, page>>
  BY DEF VInv, Video!NoticePublish, Video!Trouble, Video!NoTrouble
<1>2. /\ f \in Video!Frames /\ f.tick = 0 /\ ~f.lossy /\ Fits(kind, f)
      /\ kind = "live" => f.id = 0 /\ f.kind = "ended"
  <2>1. notice.id \in Video!Ids \cup {0}
    BY <1>1 DEF Video!TypeOK
  <2>2. Video!EndedFrame \in Video!Frames /\ Video!StatusFrame(notice.id) \in Video!Frames
    BY <2>1, FrameTypes
  <2> QED
    BY <2>2 DEF Video!EndedFrame, Video!StatusFrame, Fits
<1> HIDE DEF f
<1>3. /\ conn' \in Streams /\ LinkFits' /\ TicksFit'
      /\ Video!Hears' => Video!Hears
      /\ conn'.phase = "closed" <=> conn.phase = "closed"
      /\ Video!Hears' => /\ f.id = 0 => f \in OnWay(conn')
                   /\ \A g \in OnWay(conn) : g \in OnWay(conn')
  <2>1. ticks \in Nat
    BY <1>1, FewRows
  <2>2. ticks' \in Nat /\ ticks <= ticks' /\ f.tick <= ticks' /\ (f.tick > 0 => ticks < f.tick)
    BY <1>1, <1>2, <2>1
  <2> QED
    BY <1>1, <1>2, <2>2, PublishFits
<1>4. /\ owed \in [ended : BOOLEAN, tick : Nat] /\ Video!Hears \in BOOLEAN
      /\ owed' \in [ended : BOOLEAN, tick : Nat]
      /\ owed'.tick = owed.tick /\ (owed'.ended <=> Video!Hears)
  <2>1. owed \in [ended : BOOLEAN, tick : Nat]
    BY <1>1 DEF Video!TypeOK
  <2>2. Video!Hears \in BOOLEAN
    BY DEF Video!Hears
  <2>3. ASSUME NEW b \in BOOLEAN, owed' = [owed EXCEPT !.ended = b]
        PROVE  owed' \in [ended : BOOLEAN, tick : Nat] /\ owed'.tick = owed.tick /\ owed'.ended = b
    BY <2>1, <2>3
  <2> QED
    BY <1>1, <2>1, <2>2, <2>3, Zenon
<1>5. Video!TypeOK'
  <2>1. troubles' \in 0..MaxTroubles
    BY <1>1, VideoAssumption DEF Video!TypeOK
  <2>2. notice' \in [at : {"none", "due", "read", "sent"}, id : Video!Ids \cup {0}]
    BY <1>1
  <2> QED
    BY <1>1, <1>3, <1>4, <2>1, <2>2 DEF Video!TypeOK, Video!Running, Video!Most, Streams
<1>6. RowsFit'
  BY <1>1 DEF RowsFit, Video!Most
<1>7. OwedFits'
  <2>1. ASSUME conn'.phase = "closed" PROVE owed'.tick = 0 /\ ~owed'.ended
    BY <1>1, <1>3, <1>4, <2>1 DEF OwedFits, Video!Hears
  <2>2. ASSUME Video!Hears', owed'.tick > 0
        PROVE  /\ owed'.tick = ticks
               /\ owed'.tick = page.tick \/ \E g \in OnWay(conn') : g.tick = owed'.tick /\ g.id = 0
    BY <1>1, <1>3, <1>4, <2>2 DEF OwedFits
  <2>3. kind = "live" /\ Video!Hears' => \E g \in OnWay(conn') : g.kind = "ended"
    BY <1>2, <1>3
  <2> QED
    BY <1>1, <2>1, <2>2, <2>3 DEF OwedFits
<1> QED
  BY <1>3, <1>5, <1>6, <1>7 DEF VInv

(* The log and what is told of the end.                                    *)
LEMMA LogKeepsOrder == ASSUME VInv, Video!LogTick \/ Video!Finish PROVE VInv'
<1>1. Video!TypeOK /\ RowsFit
  BY DEF VInv
<1>2. /\ ticks \in Nat /\ Cardinality(unsent) \in Nat /\ Video!Most \in Nat /\ Len(rows) \in Nat
      /\ IsFiniteSet(unsent) /\ DOMAIN rows = 1..Len(rows)
      /\ rows \in Seq({"tick", "ready"}) /\ unsent \subseteq DOMAIN rows
      /\ ticks + Cardinality(unsent) <= Video!Most
      /\ Len(rows) <= ticks + Cardinality(unsent) + (IF status = "READY" THEN 1 ELSE 0)
      /\ kind = "live" => unsent = {} /\ Len(rows) <= (IF status = "READY" THEN 1 ELSE 0)
  BY <1>1, FewRows DEF Video!TypeOK, RowsFit
<1>3. UNCHANGED <<kind, ticks, session, conn, opening, source, page, owed>>
  BY DEF Video!LogTick, Video!Finish, Video!stream
<1>4. LinkFits' /\ TicksFit' /\ OwedFits'
  BY <1>3, QuietFits
<1>5. CASE Video!LogTick
  <2>1. /\ kind = "upload" /\ ticks + Cardinality(unsent) < Video!Most
        /\ rows' = Append(rows, "tick") /\ unsent' = unsent \cup {Len(rows) + 1}
        /\ UNCHANGED <<status, notice, troubles>>
    BY <1>5, TicksLeft DEF Video!LogTick
  <2>2. /\ rows' \in Seq({"tick", "ready"}) /\ Len(rows') = Len(rows) + 1
        /\ DOMAIN rows' = 1..(Len(rows) + 1)
    BY <1>2, <2>1
  <2>3. unsent' \subseteq DOMAIN rows'
    BY <1>2, <2>1, <2>2
  <2>4. Cardinality(unsent') = Cardinality(unsent) + 1
    <3>1. Len(rows) + 1 \notin unsent
      BY <1>2
    <3> QED
      BY <1>2, <2>1, <3>1, FS_AddElement
  <2>5. Video!TypeOK'
    BY <1>1, <1>3, <2>1, <2>2, <2>3 DEF Video!TypeOK, Video!Running, Video!Most
  <2>6. RowsFit'
    BY <1>2, <1>3, <2>1, <2>2, <2>4 DEF RowsFit, Video!Most
  <2> QED
    BY <1>4, <2>5, <2>6 DEF VInv
<1>6. CASE Video!Finish
  <2>1. /\ status = Video!Running /\ status' = "READY" /\ rows' = Append(rows, "ready")
        /\ notice' = [notice EXCEPT !.at = "due"]
        /\ UNCHANGED <<unsent, troubles>>
    BY <1>6 DEF Video!Finish
  <2>2. /\ rows' \in Seq({"tick", "ready"}) /\ Len(rows') = Len(rows) + 1
        /\ DOMAIN rows' = 1..(Len(rows) + 1)
    BY <1>2, <2>1
  <2>3. unsent' \subseteq DOMAIN rows'
    BY <1>2, <2>1, <2>2
  <2>4. notice' \in [at : {"none", "due", "read", "sent"}, id : Video!Ids \cup {0}]
    BY <1>1, <2>1 DEF Video!TypeOK
  <2>5. Video!TypeOK'
    BY <1>1, <1>3, <2>1, <2>2, <2>3, <2>4 DEF Video!TypeOK, Video!Running, Video!Most
  <2>6. RowsFit'
    <3>1. status # "READY"
      BY <2>1 DEF Video!Running
    <3> QED
      BY <1>2, <1>3, <2>1, <2>2, <3>1 DEF RowsFit, Video!Most
  <2> QED
    BY <1>4, <2>5, <2>6 DEF VInv
<1> QED
  BY <1>5, <1>6

(* The worker reads for what it tells, or what it tells is lost.           *)
LEMMA NoticeKeepsOrder == ASSUME VInv, Video!NoticeRead \/ Video!NoticeLost PROVE VInv'
<1>1. Video!TypeOK /\ RowsFit
  BY DEF VInv
<1>2. UNCHANGED <<kind, status, rows, ticks, unsent, session, conn, opening, source, page, owed>>
  BY DEF Video!NoticeRead, Video!NoticeLost, Video!stream
<1>3. LinkFits' /\ TicksFit' /\ OwedFits'
  BY <1>2, QuietFits
<1>4. troubles' \in 0..MaxTroubles
  <2>1. troubles' = troubles \/ (troubles < MaxTroubles /\ troubles' = troubles + 1)
    BY DEF Video!NoticeRead, Video!NoticeLost, Video!Trouble, Video!NoTrouble
  <2> QED
    BY <1>1, <2>1, VideoAssumption DEF Video!TypeOK
<1>5. notice' \in [at : {"none", "due", "read", "sent"}, id : Video!Ids \cup {0}]
  <2>1. Len(rows) \in Video!Ids \cup {0}
    BY <1>1, FewRows
  <2> QED
    BY <2>1 DEF Video!NoticeRead, Video!NoticeLost
<1>6. Video!TypeOK'
  BY <1>1, <1>2, <1>4, <1>5 DEF Video!TypeOK, Video!Running, Video!Most
<1>7. RowsFit'
  BY <1>1, <1>2 DEF RowsFit, Video!Most
<1> QED
  BY <1>3, <1>6, <1>7 DEF VInv

-----------------------------------------------------------------------------
(* The parts of the stream's own state.                                    *)
LEMMA ViewerParts ==
  ASSUME VInv
  PROVE  /\ Video!TypeOK /\ RowsFit /\ LinkFits /\ TicksFit /\ OwedFits
         /\ session \in Video!Statuses \cup {"none"} /\ conn \in Streams
         /\ opening.at \in {"latest", "rows", "ready"} /\ opening.frames \in Seq(Video!Frames)
         /\ opening \in [at : {"latest", "rows", "ready"}, frames : Seq(Video!Frames)]
         /\ source \in [state : {"waiting", "asking", "connected", "closed"}, lastId : Video!Ids \cup {0}]
         /\ source.lastId \in Video!Ids \cup {0}
         /\ page \in [shows : Video!Statuses \cup {"none", "ENDED"}, tick : Nat] /\ page.tick \in Nat
         /\ owed \in [ended : BOOLEAN, tick : Nat]
         /\ troubles \in 0..MaxTroubles /\ MaxTroubles \in Nat
  BY VideoAssumption DEF VInv, Video!TypeOK, Streams

(* A step of the stream that leaves the video alone.                       *)
LEMMA ServingKeepsOrder ==
  ASSUME VInv, UNCHANGED Video!video,
         session' \in Video!Statuses \cup {"none"}, conn' \in Streams,
         opening' \in [at : {"latest", "rows", "ready"}, frames : Seq(Video!Frames)],
         source' \in [state : {"waiting", "asking", "connected", "closed"}, lastId : Video!Ids \cup {0}],
         page' \in [shows : Video!Statuses \cup {"none", "ENDED"}, tick : Nat],
         owed' \in [ended : BOOLEAN, tick : Nat],
         UNCHANGED troubles \/ Video!Trouble,
         LinkFits', TicksFit', OwedFits'
  PROVE  VInv'
<1>1. UNCHANGED <<kind, status, rows, ticks, unsent, notice>> /\ Video!TypeOK /\ RowsFit
  BY DEF VInv, Video!video
<1>2. RowsFit'
  BY <1>1 DEF RowsFit, Video!Most
<1>3. troubles' \in 0..MaxTroubles
  BY ViewerParts DEF Video!Trouble
<1>4. Video!TypeOK'
  BY <1>1, <1>3 DEF Video!TypeOK, Video!Running, Video!Most, Streams
<1> QED
  BY <1>2, <1>4 DEF VInv

(* Only what is asked, read or kept for the opening changes.               *)
LEMMA AskingKeepsOrder ==
  ASSUME VInv, UNCHANGED <<Video!video, conn, page, owed>>,
         session' \in Video!Statuses \cup {"none"},
         opening' \in [at : {"latest", "rows", "ready"}, frames : Seq(Video!Frames)],
         \A f \in FramesIn(opening'.frames) : Opens(f),
         source' \in [state : {"waiting", "asking", "connected", "closed"}, lastId : Video!Ids \cup {0}],
         source'.state = "connected" <=> source.state = "connected",
         UNCHANGED troubles \/ Video!Trouble
  PROVE  VInv'
<1>1. UNCHANGED <<kind, ticks>>
  BY DEF Video!video
<1>2. LinkFits'
  BY <1>1, ViewerParts DEF LinkFits
<1>3. TicksFit'
  BY <1>1, ViewerParts DEF TicksFit
<1>4. OwedFits'
  BY <1>1, ViewerParts DEF OwedFits, Video!Hears
<1> QED
  BY <1>2, <1>3, <1>4, ViewerParts, ServingKeepsOrder

(* The stream is gone, and with it what it was owed.                       *)
LEMMA ClearingKeepsOrder ==
  ASSUME VInv, UNCHANGED Video!video, session' \in Video!Statuses \cup {"none"},
         conn' = Video!Link!Closed, opening' \in {opening, Video!NotRead}, owed' = Video!Nothing,
         source' \in [state : {"waiting", "asking", "connected", "closed"}, lastId : Video!Ids \cup {0}],
         source'.state # "connected",
         page' \in [shows : Video!Statuses \cup {"none", "ENDED"}, tick : Nat], page'.tick <= ticks,
         UNCHANGED troubles \/ Video!Trouble
  PROVE  VInv'
<1>1. UNCHANGED <<kind, ticks>>
  BY DEF Video!video
<1>2. /\ conn' \in Streams /\ conn'.phase = "closed" /\ conn'.wire = <<>> /\ conn'.lossy = <<>>
      /\ conn'.queue = <<>> /\ conn'.buffer = <<>>
  BY EndedTidy
<1>3. OnWay(conn') = {} /\ Held(conn') = {}
  BY <1>2, FewFrames DEF OnWay, Held
<1>4. StreamFits(kind, conn')
  BY <1>2, <1>3, FewFrames DEF StreamFits, Tidy
<1>5. /\ opening' \in [at : {"latest", "rows", "ready"}, frames : Seq(Video!Frames)]
      /\ \A f \in FramesIn(opening'.frames) : Opens(f)
  BY ViewerParts, FrameTypes, FewFrames DEF LinkFits
<1>6. LinkFits'
  BY <1>1, <1>2, <1>4, <1>5 DEF LinkFits
<1>7. TicksFit'
  BY <1>1, <1>3 DEF TicksFit
<1>8. OwedFits' /\ owed' \in [ended : BOOLEAN, tick : Nat]
  BY <1>2, FrameTypes DEF OwedFits, Video!Hears
<1> QED
  BY <1>2, <1>5, <1>6, <1>7, <1>8, ServingKeepsOrder

(* The request, and the reads for its opening.                             *)
LEMMA AuthoriseKeepsOrder == ASSUME VInv, Video!Authorise PROVE VInv'
<1>1. /\ source.state = "waiting" /\ session' = status
      /\ source' = [source EXCEPT !.state = "asking"]
      /\ UNCHANGED <<Video!video, conn, opening, page, owed, troubles>>
  BY DEF Video!Authorise
<1>2. status \in Video!Statuses
  BY DEF VInv, Video!TypeOK, Video!Statuses, Video!Running
<1>3. \A f \in FramesIn(opening'.frames) : Opens(f)
  BY <1>1, ViewerParts DEF LinkFits
<1>4. /\ source' \in [state : {"waiting", "asking", "connected", "closed"}, lastId : Video!Ids \cup {0}]
      /\ source'.state = "asking"
  BY <1>1, ViewerParts
<1> QED
  BY <1>1, <1>2, <1>3, <1>4, ViewerParts, AskingKeepsOrder

(* A stream that is registered holds no frame yet, and nothing is owed     *)
(* to it: whatever is published from here on passes through it.            *)
LEMMA RegisterKeepsOrder == ASSUME VInv, Video!Register PROVE VInv'
<1>1. /\ source.state = "asking" /\ conn' = Video!Link!Registered
      /\ source' = [source EXCEPT !.state = "connected"]
      /\ UNCHANGED <<Video!video, session, opening, page, owed, troubles>>
      /\ UNCHANGED <<kind, ticks>>
  BY DEF Video!Register, Video!video
<1>2. /\ conn' \in Streams /\ conn'.phase = "opening" /\ conn'.wire = <<>> /\ conn'.lossy = <<>>
      /\ conn'.queue = <<>> /\ conn'.buffer = <<>>
  BY <1>1, EndedTidy
<1>3. OnWay(conn') = {} /\ Held(conn') = {}
  BY <1>2, FewFrames DEF OnWay, Held
<1>4. StreamFits(kind, conn')
  BY <1>2, <1>3, FewFrames DEF StreamFits, Tidy
<1>5. /\ source' \in [state : {"waiting", "asking", "connected", "closed"}, lastId : Video!Ids \cup {0}]
      /\ source'.state = "connected"
  BY <1>1, ViewerParts
<1>6. LinkFits'
  BY <1>1, <1>2, <1>4, <1>5, ViewerParts DEF LinkFits
<1>7. TicksFit'
  BY <1>1, <1>3, ViewerParts DEF TicksFit
<1>8. owed.tick = 0 /\ ~owed.ended
  BY <1>1, ViewerParts DEF OwedFits, LinkFits
<1>9. OwedFits'
  BY <1>1, <1>2, <1>8 DEF OwedFits
<1> QED
  BY <1>1, <1>2, <1>5, <1>6, <1>7, <1>9, ViewerParts, ServingKeepsOrder

(* The snapshot of the opening numbers no tick, whichever row it finds.    *)
LEMMA ReadLatestKeepsOrder == ASSUME VInv, Video!ReadLatest PROVE VInv'
<1>1. PICK i \in {Len(rows), 0} :
        /\ opening' = [at |-> IF source.lastId = 0 THEN "ready" ELSE "rows",
                       frames |-> <<Video!Snapshot(i, session)>>]
        /\ UNCHANGED troubles \/ Video!Trouble
  BY DEF Video!ReadLatest, Video!NoTrouble
<1>2. UNCHANGED <<Video!video, session, conn, source, page, owed>>
  BY DEF Video!ReadLatest
<1>3. i \in Video!Ids \cup {0}
  BY <1>1, FewRows, ViewerParts
<1> DEFINE f == Video!Snapshot(i, session)
<1>4. f \in Video!Frames /\ Opens(f)
  BY <1>3, FrameTypes, ViewerParts
<1> HIDE DEF f
<1>5. <<f>> \in Seq(Video!Frames) /\ FramesIn(<<f>>) = {f}
  BY <1>4, FewFrames
<1>6. opening'.frames = <<f>> /\ opening'.at \in {"ready", "rows"}
  BY <1>1 DEF f
<1>7. opening' \in [at : {"latest", "rows", "ready"}, frames : Seq(Video!Frames)]
  <2>1. ASSUME NEW a \in {"ready", "rows"}, opening' = [at |-> a, frames |-> <<f>>]
        PROVE  opening' \in [at : {"latest", "rows", "ready"}, frames : Seq(Video!Frames)]
    BY <1>5, <2>1
  <2>2. (IF source.lastId = 0 THEN "ready" ELSE "rows") \in {"ready", "rows"}
    OBVIOUS
  <2> QED
    BY <1>1, <2>1, <2>2, Zenon DEF f
<1>8. \A g \in FramesIn(opening'.frames) : Opens(g)
  BY <1>4, <1>5, <1>6
<1> QED
  BY <1>1, <1>2, <1>7, <1>8, ViewerParts, AskingKeepsOrder

(* Nor do the rows that the opening replays after a reconnection.          *)
LEMMA ReadRowsKeepsOrder == ASSUME VInv, Video!ReadRows PROVE VInv'
<1> DEFINE missed == [k \in 1..(Len(rows) - source.lastId) |-> Video!RowFrame(source.lastId + k)]
<1>1. /\ opening' = [opening EXCEPT !.at = "ready", !.frames = opening.frames \o missed]
      /\ UNCHANGED <<Video!video, session, conn, source, page, owed, troubles>>
  BY DEF Video!ReadRows
<1>2. /\ Len(rows) \in Nat /\ DOMAIN rows = 1..Len(rows) /\ DOMAIN rows \subseteq Video!Ids
      /\ source.lastId \in Nat
  BY FewRows, ViewerParts DEF Video!Ids
<1>3. ASSUME NEW i \in DOMAIN rows PROVE Video!RowFrame(i) \in Video!Frames /\ Opens(Video!RowFrame(i))
  <2>1. i \in Video!Ids \cup {0}
    BY <1>2
  <2>2. Video!StatusFrame(i) \in Video!Frames /\ Opens(Video!StatusFrame(i))
    BY <2>1, FrameTypes
  <2>3. Video!TickFrame(i, 0, FALSE) \in Video!Frames /\ Opens(Video!TickFrame(i, 0, FALSE))
    BY <2>1, FrameTypes
  <2> QED
    BY <2>2, <2>3 DEF Video!RowFrame
<1>4. missed \in Seq(Video!Frames) /\ \A f \in FramesIn(missed) : Opens(f)
  <2> DEFINE n == Len(rows) - source.lastId
  <2>1. CASE n \in Nat
    <3>1. ASSUME NEW k \in 1..n PROVE source.lastId + k \in DOMAIN rows
      BY <1>2, <2>1
    <3>2. missed \in [1..n -> Video!Frames] /\ \A k \in 1..n : Opens(missed[k])
      BY <1>3, <3>1
    <3> HIDE DEF missed, n
    <3>3. missed \in Seq(Video!Frames) /\ DOMAIN missed = 1..n
      BY <2>1, <3>2
    <3> QED
      BY <3>2, <3>3 DEF FramesIn
  <2>2. CASE n \notin Nat
    <3>1. 1..n = {}
      BY <1>2, <2>2
    <3>2. missed = <<>>
      BY <3>1
    <3> HIDE DEF missed
    <3>3. <<>> \in Seq(Video!Frames)
      OBVIOUS
    <3> QED
      BY <3>2, <3>3, FewFrames
  <2> QED
    BY <2>1, <2>2
<1> HIDE DEF missed
<1>5. /\ opening.frames \in Seq(Video!Frames) /\ opening.at \in {"latest", "rows", "ready"}
      /\ opening \in [at : {"latest", "rows", "ready"}, frames : Seq(Video!Frames)]
      /\ \A f \in FramesIn(opening.frames) : Opens(f)
  BY ViewerParts DEF LinkFits
<1>6. /\ opening.frames \o missed \in Seq(Video!Frames)
      /\ \A f \in FramesIn(opening.frames \o missed) : Opens(f)
  <2>1. opening.frames \o missed \in Seq(Video!Frames)
    BY <1>4, <1>5
  <2> QED
    BY <1>4, <1>5, <2>1, FramesInBoth
<1>7. /\ opening' \in [at : {"latest", "rows", "ready"}, frames : Seq(Video!Frames)]
      /\ opening'.frames = opening.frames \o missed
  BY <1>1, <1>5, <1>6
<1> QED
  BY <1>1, <1>6, <1>7, ViewerParts, AskingKeepsOrder

(* The request fails, the link breaks, the viewer comes back.              *)
LEMMA LosingKeepsOrder == ASSUME VInv, Video!OpeningFails \/ Video!Break \/ Video!ComeBack PROVE VInv'
<1>1. /\ conn' = Video!Link!Closed /\ opening' \in {opening, Video!NotRead} /\ owed' = Video!Nothing
      /\ session' \in {session, "none"} /\ UNCHANGED <<Video!video, page>>
      /\ UNCHANGED troubles \/ Video!Trouble
      /\ source' \in {[source EXCEPT !.state = "closed"], [source EXCEPT !.state = "waiting"]}
  BY DEF Video!OpeningFails, Video!Break, Video!ComeBack
<1>2. /\ source' \in [state : {"waiting", "asking", "connected", "closed"}, lastId : Video!Ids \cup {0}]
      /\ source'.state # "connected"
  BY <1>1, ViewerParts
<1>3. page.tick <= ticks /\ session' \in Video!Statuses \cup {"none"}
  BY <1>1, ViewerParts DEF TicksFit
<1> QED
  BY <1>1, <1>2, <1>3, ViewerParts, ClearingKeepsOrder

(* The opening is sent and the stream is live.                             *)
LEMMA GoLiveKeepsOrder == ASSUME VInv, Video!GoLive PROVE VInv'
<1>1. /\ conn.phase = "opening" /\ conn' = Video!Link!WentLive(conn, opening.frames, 0)
      /\ opening' = Video!NotRead /\ session' = "none"
      /\ owed' = IF conn'.phase = "live" THEN owed ELSE Video!Nothing
      /\ UNCHANGED <<Video!video, source, page, troubles>> /\ UNCHANGED <<kind, ticks>>
  BY DEF Video!GoLive, Video!video
<1>2. /\ opening.frames \in Seq(Video!Frames) /\ \A f \in FramesIn(opening.frames) : Opens(f)
      /\ conn \in Streams /\ StreamFits(kind, conn) /\ source.state = "connected"
      /\ page.tick <= ticks /\ page.tick \in Nat /\ ticks \in Nat
      /\ \A f \in OnWay(conn) : f.tick <= ticks /\ (f.tick > 0 => page.tick < f.tick)
  BY <1>1, ViewerParts, FewRows DEF LinkFits, TicksFit
<1>3. /\ conn' \in Streams /\ StreamFits(kind, conn') /\ conn'.phase \in {"live", "ended"}
      /\ OnWay(conn') \subseteq FramesIn(opening.frames) \cup OnWay(conn)
      /\ conn'.phase = "live" => \A f \in OnWay(conn) : f.id = 0 =>
           f \in OnWay(conn') \/ (f.lossy /\ \E g \in OnWay(conn) : f.tick < g.tick)
  BY <1>1, <1>2, WentLiveFits
<1>4. LinkFits'
  BY <1>1, <1>2, <1>3, FrameTypes, FewFrames DEF LinkFits
<1>5. TicksFit'
  <2>1. \A f \in OnWay(conn') : f.tick <= ticks /\ (f.tick > 0 => page.tick < f.tick)
    BY <1>2, <1>3 DEF Opens
  <2> QED
    BY <1>1, <1>2, <2>1 DEF TicksFit
<1>6. OwedFits'
  <2>1. CASE conn'.phase = "ended"
    BY <2>1 DEF OwedFits, Video!Hears
  <2>2. CASE conn'.phase = "live"
    <3>1. owed' = owed /\ Video!Hears
      BY <1>1, <2>2 DEF Video!Hears
    <3>2. \A f \in OnWay(conn) : f.tick \in Nat
      <4>1. FramesIn(conn.wire) \subseteq Video!Frames /\ FramesIn(conn.lossy) \subseteq Video!Frames
            /\ FramesIn(conn.queue) \subseteq Video!Frames /\ FramesIn(conn.buffer) \subseteq Video!Frames
        BY <1>2, StreamParts, FramesInBoth
      <4>2. \A g \in Video!Frames : g.tick \in Nat
        BY DEF Video!Frames
      <4> QED
        BY <4>1, <4>2 DEF OnWay, Held
    <3>3. ASSUME owed.tick > 0
          PROVE  /\ owed.tick = ticks
                 /\ owed.tick = page.tick \/ \E f \in OnWay(conn') : f.tick = owed.tick /\ f.id = 0
      <4>1. /\ owed.tick = ticks
            /\ owed.tick = page.tick \/ \E f \in OnWay(conn) : f.tick = owed.tick /\ f.id = 0
        BY <3>1, <3>3, ViewerParts DEF OwedFits
      <4>2. ASSUME NEW f \in OnWay(conn), f.tick = owed.tick, f.id = 0 PROVE f \in OnWay(conn')
        BY <1>2, <1>3, <2>2, <3>2, <4>1, <4>2
      <4> QED
        BY <4>1, <4>2
    <3>4. ASSUME kind = "live", owed.ended PROVE \E f \in OnWay(conn') : f.kind = "ended"
      <4>1. PICK f \in OnWay(conn) : f.kind = "ended"
        BY <3>1, <3>4, ViewerParts DEF OwedFits
      <4>2. Fits("live", f)
        BY <1>2, <3>4 DEF StreamFits, Tidy, OnWay
      <4>3. f.id = 0 /\ ~f.lossy
        BY <4>1, <4>2 DEF Fits
      <4> QED
        BY <1>3, <2>2, <4>1, <4>3
    <3> QED
      BY <1>1, <2>2, <3>1, <3>3, <3>4 DEF OwedFits
  <2> QED
    BY <1>3, <2>1, <2>2
<1>7. owed' \in [ended : BOOLEAN, tick : Nat]
  BY <1>1, ViewerParts, FrameTypes
<1> QED
  BY <1>1, <1>3, <1>4, <1>5, <1>6, <1>7, ViewerParts, FrameTypes, ServingKeepsOrder

(* The socket takes what waits, or the stream's time is over.              *)
LEMMA LiveKeepsOrder == ASSUME VInv, Video!Drain \/ Video!Retire PROVE VInv'
<1>1. /\ conn.phase = "live"
      /\ UNCHANGED <<Video!video, session, opening, source, page, owed, troubles>>
      /\ UNCHANGED <<kind, ticks>>
  BY DEF Video!Drain, Video!Retire, Video!video
<1>2. conn \in Streams /\ StreamFits(kind, conn) /\ source.state = "connected"
  BY <1>1, ViewerParts DEF LinkFits
<1>3. /\ conn' \in Streams /\ StreamFits(kind, conn') /\ OnWay(conn') \subseteq OnWay(conn)
      /\ \/ conn'.phase = "live" /\ OnWay(conn') = OnWay(conn)
         \/ conn'.phase = "ended"
  <2>1. CASE Video!Drain
    BY <1>1, <1>2, <2>1, DrainedFits DEF Video!Drain
  <2>2. CASE Video!Retire
    <3>1. conn' = Video!Link!Ended(conn)
      BY <2>2 DEF Video!Retire
    <3>2. /\ conn' \in Streams /\ conn'.phase = "ended" /\ conn'.wire = conn.wire
          /\ conn'.lossy = <<>> /\ conn'.queue = <<>> /\ conn'.buffer = <<>>
      BY <1>2, <3>1, EndedTidy
    <3>3. Held(conn') = FramesIn(conn.wire) /\ OnWay(conn') = FramesIn(conn.wire)
      BY <3>2, FewFrames DEF Held, OnWay
    <3>4. Tidy(kind, conn')
      BY <1>2, <3>2, <3>3, FewFrames DEF StreamFits, Tidy, Held
    <3>5. StreamFits(kind, conn')
      BY <3>2, <3>4, FewFrames DEF StreamFits
    <3> QED
      BY <3>2, <3>3, <3>5 DEF OnWay, Held
  <2> QED
    BY <2>1, <2>2
<1>4. LinkFits'
  BY <1>1, <1>2, <1>3, ViewerParts DEF LinkFits
<1>5. TicksFit'
  BY <1>1, <1>3, ViewerParts DEF TicksFit
<1>6. OwedFits'
  <2>1. CASE conn'.phase = "ended"
    BY <2>1 DEF OwedFits, Video!Hears
  <2>2. CASE conn'.phase = "live" /\ OnWay(conn') = OnWay(conn)
    BY <1>1, <2>2, ViewerParts DEF OwedFits, Video!Hears
  <2> QED
    BY <1>3, <2>1, <2>2
<1> QED
  BY <1>1, <1>3, <1>4, <1>5, <1>6, ViewerParts, ServingKeepsOrder

(* The first frame of the wire is the oldest.                              *)
LEMMA FirstIsOldest ==
  ASSUME NEW k, NEW c \in Streams, StreamFits(k, c), c.wire # <<>>
  PROVE  LET d == [c EXCEPT !.wire = Tail(@)]
             f == Head(c.wire) IN
         /\ d \in Streams /\ StreamFits(k, d) /\ d.phase = c.phase /\ c.phase # "opening"
         /\ f \in Video!Frames /\ Fits(k, f) /\ OnWay(c) = {f} \cup OnWay(d)
         /\ \A g \in OnWay(d) : g.tick > 0 => f.tick < g.tick
<1> DEFINE t == Tail(c.wire)
           d == [c EXCEPT !.wire = t]
           f == Head(c.wire)
<1>1. c.wire \in Seq(Video!Frames) /\ t \in Seq(Video!Frames) /\ f \in Video!Frames /\ c.wire = <<f>> \o t
  <2>1. c.wire \in Seq(Video!Frames)
    BY StreamParts
  <2> QED
    BY <2>1
<1>2. /\ Tidy(k, c) /\ c.phase # "opening" /\ c.buffer = <<>>
      /\ Climbs(c.wire) /\ Under(c.wire, c.lossy) /\ Under(c.wire, c.queue)
      /\ \A g \in Held(c) : Fits(k, g)
  BY DEF StreamFits, Tidy
<1> HIDE DEF t, f
<1>3. /\ d \in Streams /\ d.phase = c.phase /\ d.buffer = c.buffer /\ d.lossy = c.lossy
      /\ d.queue = c.queue /\ d.wire = t /\ d.slow = c.slow
  BY <1>1 DEF Streams, Video!Link!Connections
<1> HIDE DEF d
<1>4. /\ FramesIn(c.wire) = {f} \cup FramesIn(t) /\ Climbs(t) /\ Under(<<f>>, t)
      /\ FramesIn(<<f>>) = {f}
  <2>1. <<f>> \in Seq(Video!Frames) /\ FramesIn(<<f>>) = {f}
    BY <1>1, FewFrames
  <2>2. FramesIn(<<f>> \o t) = FramesIn(<<f>>) \cup FramesIn(t)
    BY <1>1, <2>1, FramesInBoth
  <2>3. Climbs(<<f>> \o t) <=> Climbs(<<f>>) /\ Climbs(t) /\ Under(<<f>>, t)
    BY <1>1, <2>1, ClimbsBoth
  <2> QED
    BY <1>1, <1>2, <2>1, <2>2, <2>3, Zenon
<1>5. Held(c) = {f} \cup Held(d) /\ OnWay(c) = {f} \cup OnWay(d) /\ OnWay(d) = Held(d)
  BY <1>2, <1>3, <1>4, FewFrames DEF Held, OnWay
<1>6. Under(t, c.lossy) /\ Under(t, c.queue)
  BY <1>2, <1>4 DEF Under
<1>7. Tidy(k, d)
  BY <1>2, <1>3, <1>4, <1>5, <1>6 DEF Tidy
<1>8. StreamFits(k, d)
  BY <1>2, <1>3, <1>7, FewFrames DEF StreamFits
<1>9. \A g \in Held(d) : g.tick > 0 => f.tick < g.tick
  BY <1>2, <1>3, <1>4 DEF Held, Under
<1>10. Fits(k, f)
  BY <1>2, <1>5
<1> QED
  BY <1>1, <1>2, <1>3, <1>5, <1>8, <1>9, <1>10 DEF d, f, t

(* A frame reaches the page.                                               *)
LEMMA ReceiveKeepsOrder == ASSUME VInv, Video!Receive PROVE VInv'
<1> DEFINE f == Head(conn.wire)
           d == [conn EXCEPT !.wire = Tail(@)]
<1>1. /\ source.state = "connected" /\ conn.wire # <<>> /\ page' = Video!Shown(f)
      /\ \/ /\ page'.shows = "ENDED" /\ conn' = Video!Link!Closed /\ owed' = Video!Nothing
            /\ source' = [source EXCEPT !.state = "closed"]
         \/ /\ page'.shows # "ENDED" /\ conn' = d /\ owed' = owed
            /\ source' = IF f.id = 0 THEN source ELSE [source EXCEPT !.lastId = f.id]
      /\ UNCHANGED <<Video!video, session, opening, troubles>> /\ UNCHANGED <<kind, ticks>>
  BY DEF Video!Receive, Video!video
<1>2. conn \in Streams /\ StreamFits(kind, conn) /\ conn.phase # "closed"
  BY <1>1, ViewerParts DEF LinkFits
<1>3. /\ d \in Streams /\ StreamFits(kind, d) /\ d.phase = conn.phase
      /\ f \in Video!Frames /\ Fits(kind, f) /\ OnWay(conn) = {f} \cup OnWay(d)
      /\ \A g \in OnWay(d) : g.tick > 0 => f.tick < g.tick
  BY <1>1, <1>2, FirstIsOldest
<1> HIDE DEF f, d
<1>4. /\ f.tick \in Nat /\ f.id \in Video!Ids \cup {0} /\ f.says \in Video!Statuses \cup {"none"}
  BY <1>3 DEF Video!Frames
<1>5. /\ page.tick \in Nat /\ ticks \in Nat /\ page.tick <= ticks
      /\ page \in [shows : Video!Statuses \cup {"none", "ENDED"}, tick : Nat]
      /\ f.tick <= ticks /\ (f.tick > 0 => page.tick < f.tick)
      /\ \A g \in OnWay(d) : g.tick <= ticks /\ (g.tick > 0 => page.tick < g.tick)
  BY <1>3, ViewerParts, FewRows DEF TicksFit
<1>6. /\ page' \in [shows : Video!Statuses \cup {"none", "ENDED"}, tick : Nat]
      /\ page'.tick = IF f.tick > 0 THEN f.tick ELSE page.tick
      /\ kind = "live" /\ f.kind = "ended" => page'.shows = "ENDED"
  <2>1. CASE f.tick > 0
    <3>1. page' = [page EXCEPT !.tick = f.tick] /\ f.kind # "ended"
      BY <1>1, <1>3, <1>4, <2>1 DEF Video!Shown, Fits
    <3> QED
      BY <1>4, <1>5, <2>1, <3>1
  <2>2. CASE ~(f.tick > 0)
    <3>1. PICK s \in Video!Statuses \cup {"none", "ENDED"} :
            /\ page' = page \/ page' = [page EXCEPT !.shows = s]
            /\ kind = "live" /\ f.kind = "ended" => page' = [page EXCEPT !.shows = s] /\ s = "ENDED"
      <4>1. CASE kind = "live" /\ f.kind = "ended"
        BY <1>1, <2>2, <4>1 DEF Video!Shown
      <4>2. CASE kind = "upload" /\ f.kind \in {"snapshot", "status"} /\ ~(kind = "live" /\ f.kind = "ended")
        BY <1>1, <1>4, <2>2, <4>2 DEF Video!Shown
      <4>3. CASE /\ ~(kind = "upload" /\ f.kind \in {"snapshot", "status"})
                 /\ ~(kind = "live" /\ f.kind = "ended")
        BY <1>1, <2>2, <4>3 DEF Video!Shown
      <4> QED
        BY <4>1, <4>2, <4>3
    <3> QED
      BY <1>4, <1>5, <2>2, <3>1
  <2> QED
    BY <2>1, <2>2
<1>7. CASE page'.shows = "ENDED"
  <2>1. /\ source' \in [state : {"waiting", "asking", "connected", "closed"}, lastId : Video!Ids \cup {0}]
        /\ source'.state # "connected" /\ conn' = Video!Link!Closed /\ owed' = Video!Nothing
    BY <1>1, <1>7, ViewerParts
  <2>2. page'.tick <= ticks
    BY <1>5, <1>6
  <2> QED
    BY <1>1, <1>6, <2>1, <2>2, ViewerParts, ClearingKeepsOrder
<1>8. CASE page'.shows # "ENDED"
  <2>1. /\ source' \in [state : {"waiting", "asking", "connected", "closed"}, lastId : Video!Ids \cup {0}]
        /\ source'.state = "connected" /\ conn' = d /\ owed' = owed
    BY <1>1, <1>4, <1>8, ViewerParts
  <2>2. LinkFits'
    BY <1>1, <1>2, <1>3, <2>1, ViewerParts DEF LinkFits
  <2>3. TicksFit'
    BY <1>1, <1>3, <1>4, <1>5, <1>6, <2>1 DEF TicksFit
  <2>4. OwedFits'
    <3>1. /\ Video!Hears' <=> Video!Hears
          /\ owed.tick \in Nat
      BY <1>3, <2>1, ViewerParts DEF Video!Hears
    <3>2. ASSUME Video!Hears, owed.tick > 0
          PROVE  /\ owed.tick = ticks
                 /\ owed.tick = page'.tick \/ \E g \in OnWay(d) : g.tick = owed.tick /\ g.id = 0
      <4>1. /\ owed.tick = ticks
            /\ owed.tick = page.tick \/ \E g \in OnWay(conn) : g.tick = owed.tick /\ g.id = 0
        BY <3>2, ViewerParts DEF OwedFits
      <4>2. CASE owed.tick = page.tick
        BY <1>4, <1>5, <1>6, <4>1, <4>2
      <4>3. CASE \E g \in OnWay(conn) : g.tick = owed.tick /\ g.id = 0
        BY <1>3, <1>6, <3>2, <4>1, <4>3
      <4> QED
        BY <4>1, <4>2, <4>3
    <3>3. ASSUME kind = "live", owed.ended, Video!Hears PROVE \E g \in OnWay(d) : g.kind = "ended"
      <4>1. PICK g \in OnWay(conn) : g.kind = "ended"
        BY <3>3, ViewerParts DEF OwedFits
      <4>2. g # f
        BY <1>6, <1>8, <3>3, <4>1
      <4> QED
        BY <1>3, <4>1, <4>2
    <3> QED
      BY <1>1, <1>2, <1>3, <2>1, <3>1, <3>2, <3>3 DEF OwedFits
  <2> QED
    BY <1>1, <1>3, <1>6, <2>1, <2>2, <2>3, <2>4, ViewerParts, ServingKeepsOrder
<1> QED
  BY <1>7, <1>8

-----------------------------------------------------------------------------
(* A page that opens its stream.                                           *)
LEMMA OpenedInOrder == Video!Init => VInv
<1> SUFFICES ASSUME Video!Init PROVE VInv
  OBVIOUS
<1>1. /\ kind \in {"upload", "live"} /\ status = Video!Running
      /\ rows = <<>> /\ ticks = 0 /\ unsent = {} /\ notice = [at |-> "none", id |-> 0]
      /\ session = "none" /\ conn = Video!Link!Closed /\ opening = Video!NotRead
      /\ source = [state |-> "waiting", lastId |-> 0]
      /\ page = [shows |-> Video!Running, tick |-> 0]
      /\ owed = Video!Nothing /\ troubles = 0
  BY DEF Video!Init
<1>2. /\ conn \in Streams /\ conn.phase = "closed" /\ conn.wire = <<>> /\ conn.lossy = <<>>
      /\ conn.queue = <<>> /\ conn.buffer = <<>>
  BY <1>1, EndedTidy
<1>3. OnWay(conn) = {} /\ Held(conn) = {}
  BY <1>2, FewFrames DEF OnWay, Held
<1>4. StreamFits(kind, conn)
  BY <1>2, <1>3, FewFrames DEF StreamFits, Tidy
<1>5. LinkFits
  BY <1>1, <1>2, <1>4, FrameTypes, FewFrames DEF LinkFits
<1>6. TicksFit
  BY <1>1, <1>3 DEF TicksFit
<1>7. OwedFits
  BY <1>1, <1>2, FrameTypes DEF OwedFits, Video!Hears
<1>8. Video!Most \in Nat /\ MaxTroubles \in Nat
  BY VideoAssumption DEF Video!Most
<1>9. RowsFit
  <2>1. Cardinality(unsent) = 0 /\ Len(rows) = 0
    BY <1>1, FS_EmptySet
  <2> QED
    BY <1>1, <1>8, <2>1 DEF RowsFit
<1>10. Video!TypeOK
  <2>1. rows \in Seq({"tick", "ready"}) /\ unsent \subseteq DOMAIN rows
    BY <1>1
  <2>2. Video!Running \in Video!Statuses
    BY DEF Video!Running, Video!Statuses
  <2>3. /\ notice \in [at : {"none", "due", "read", "sent"}, id : Video!Ids \cup {0}]
        /\ source \in [state : {"waiting", "asking", "connected", "closed"}, lastId : Video!Ids \cup {0}]
        /\ page \in [shows : Video!Statuses \cup {"none", "ENDED"}, tick : Nat]
    BY <1>1, <2>2
  <2> QED
    BY <1>1, <1>2, <1>8, <2>1, <2>3, FrameTypes DEF Video!TypeOK, Streams
<1> QED
  BY <1>5, <1>6, <1>7, <1>9, <1>10 DEF VInv

(* Every step of the video, of its stream and of the page.                 *)
LEMMA VideoStepsKeepOrder == VInv /\ Video!Next => VInv'
<1> SUFFICES ASSUME VInv, Video!Next PROVE VInv'
  OBVIOUS
<1>1. CASE Video!Work
  <2>1. CASE \E i \in Video!Ids : Video!SendTick(i)
    BY <2>1, SendTickKeepsOrder
  <2> QED
    BY <1>1, <2>1, TickKeepsOrder, LogKeepsOrder, NoticeKeepsOrder, NoticePublishKeepsOrder DEF Video!Work
<1>2. CASE Video!Serve
  <2>1. CASE Video!Respond
    BY <2>1, AuthoriseKeepsOrder, RegisterKeepsOrder, ReadLatestKeepsOrder, ReadRowsKeepsOrder,
       GoLiveKeepsOrder DEF Video!Respond
  <2> QED
    BY <1>2, <2>1, LosingKeepsOrder, LiveKeepsOrder DEF Video!Serve
<1>3. CASE Video!Receive
  BY <1>3, ReceiveKeepsOrder
<1> QED
  BY <1>1, <1>2, <1>3 DEF Video!Next

(* So does a step of something else.                                       *)
LEMMA OthersKeepOrder == VInv /\ UNCHANGED Video!vars => VInv'
<1> SUFFICES ASSUME VInv, UNCHANGED Video!vars PROVE VInv'
  OBVIOUS
<1>1. /\ UNCHANGED <<kind, status, rows, ticks, unsent, notice>>
      /\ UNCHANGED <<session, conn, opening, source, page, owed, troubles>>
  BY DEF Video!vars, Video!video, Video!stream
<1>2. LinkFits' /\ TicksFit' /\ OwedFits'
  BY <1>1, QuietFits
<1>3. Video!TypeOK'
  BY <1>1, ViewerParts DEF Video!TypeOK, Video!Running, Video!Most
<1>4. RowsFit'
  BY <1>1, ViewerParts DEF RowsFit, Video!Most
<1> QED
  BY <1>2, <1>3, <1>4 DEF VInv

(* The frames of four sequences.                                           *)
LEMMA FramesInAll ==
  ASSUME NEW b \in Seq(Video!Frames), NEW w \in Seq(Video!Frames), NEW l \in Seq(Video!Frames),
         NEW q \in Seq(Video!Frames)
  PROVE  /\ FramesIn(b \o w) = FramesIn(b) \cup FramesIn(w)
         /\ FramesIn((b \o w) \o l) = FramesIn(b) \cup FramesIn(w) \cup FramesIn(l)
         /\ FramesIn(((b \o w) \o l) \o q)
              = FramesIn(b) \cup FramesIn(w) \cup FramesIn(l) \cup FramesIn(q)
<1>1. b \o w \in Seq(Video!Frames) /\ (b \o w) \o l \in Seq(Video!Frames)
  OBVIOUS
<1>2. FramesIn(b \o w) = FramesIn(b) \cup FramesIn(w)
  BY FramesInBoth
<1> DEFINE s == b \o w
           t == s \o l
<1>3. s \in Seq(Video!Frames) /\ t \in Seq(Video!Frames)
  BY <1>1
<1> HIDE DEF s
<1>4. FramesIn(t) = FramesIn(s) \cup FramesIn(l)
  BY <1>3, FramesInBoth
<1> HIDE DEF t
<1>5. FramesIn(t \o q) = FramesIn(t) \cup FramesIn(q)
  BY <1>3, FramesInBoth
<1> QED
  BY <1>2, <1>4, <1>5 DEF s, t

(* What is on its way is in the order in which it was published.           *)
LEMMA OrderOfTicks == VInv => Video!TicksInOrder
<1> SUFFICES ASSUME VInv PROVE Video!TicksInOrder
  OBVIOUS
<1> DEFINE b == conn.buffer
           w == conn.wire
           l == conn.lossy
           q == conn.queue
<1>1. /\ b \in Seq(Video!Frames) /\ w \in Seq(Video!Frames) /\ l \in Seq(Video!Frames)
      /\ q \in Seq(Video!Frames)
  BY ViewerParts, StreamParts
<1>2. StreamFits(kind, conn) /\ Tidy(kind, conn)
  BY ViewerParts DEF LinkFits, StreamFits
<1>3. Under(l, q)
  <2>1. ASSUME NEW f \in FramesIn(l), NEW g \in FramesIn(q), g.tick > 0 PROVE FALSE
    BY <1>2, <2>1 DEF Tidy, Held, Fits
  <2> QED
    BY <2>1 DEF Under
<1>4. /\ Climbs(b) /\ Climbs(w) /\ Climbs(l) /\ Climbs(q) /\ Under(w, l) /\ Under(w, q)
      /\ b = <<>> \/ (w = <<>> /\ l = <<>> /\ q = <<>>)
  BY <1>1, <1>2, FewFrames DEF StreamFits, Tidy
<1>5. \A f \in FramesIn(b) \cup FramesIn(w) \cup FramesIn(l) \cup FramesIn(q) :
        f.tick > 0 => page.tick < f.tick
  BY ViewerParts DEF TicksFit, OnWay, Held
<1>6. Video!OnItsWay = ((b \o w) \o l) \o q
  BY DEF Video!OnItsWay
<1>7. /\ b \o w \in Seq(Video!Frames) /\ (b \o w) \o l \in Seq(Video!Frames)
      /\ ((b \o w) \o l) \o q \in Seq(Video!Frames)
  BY <1>1
<1> HIDE DEF b, w, l, q
<1>8. /\ FramesIn(b \o w) = FramesIn(b) \cup FramesIn(w)
      /\ FramesIn((b \o w) \o l) = FramesIn(b) \cup FramesIn(w) \cup FramesIn(l)
      /\ FramesIn(((b \o w) \o l) \o q) = FramesIn(b) \cup FramesIn(w) \cup FramesIn(l) \cup FramesIn(q)
  BY <1>1, FramesInAll
<1>9. Under(b, w) /\ Under(b, l) /\ Under(b, q)
  BY <1>4, FewFrames
<1>10. Under(b \o w, l) /\ Under((b \o w) \o l, q)
  BY <1>3, <1>4, <1>8, <1>9 DEF Under
<1>11. Climbs(Video!OnItsWay)
  BY <1>1, <1>4, <1>6, <1>7, <1>9, <1>10, ClimbsBoth
<1>12. \A k \in DOMAIN Video!OnItsWay : Video!OnItsWay[k] \in FramesIn(Video!OnItsWay)
  BY DEF FramesIn
<1> QED
  BY <1>5, <1>6, <1>8, <1>11, <1>12 DEF Video!TicksInOrder, Climbs

(* The latest tick is shown or on its way, the end of a broadcast too.     *)
LEMMA OwedIsKept == VInv => Video!LatestTickIsKept /\ Video!EndIsDelivered
<1> SUFFICES ASSUME VInv PROVE Video!LatestTickIsKept /\ Video!EndIsDelivered
  OBVIOUS
<1> DEFINE b == conn.buffer
           w == conn.wire
           l == conn.lossy
           q == conn.queue
<1>1. /\ b \in Seq(Video!Frames) /\ w \in Seq(Video!Frames) /\ l \in Seq(Video!Frames)
      /\ q \in Seq(Video!Frames)
  BY ViewerParts, StreamParts
<1>2. Video!OnItsWay = ((b \o w) \o l) \o q
  BY DEF Video!OnItsWay
<1>3. FramesIn(((b \o w) \o l) \o q) = FramesIn(b) \cup FramesIn(w) \cup FramesIn(l) \cup FramesIn(q)
  BY <1>1, FramesInAll
<1>4. OnWay(conn) = FramesIn(b) \cup FramesIn(w) \cup FramesIn(l) \cup FramesIn(q)
  BY DEF OnWay, Held
<1> HIDE DEF b, w, l, q
<1>5. FramesIn(Video!OnItsWay) = OnWay(conn)
  BY <1>2, <1>3, <1>4
<1>6. \A f \in OnWay(conn) : \E k \in DOMAIN Video!OnItsWay : Video!OnItsWay[k] = f
  BY <1>5 DEF FramesIn
<1> QED
  BY <1>6, ViewerParts DEF OwedFits, Video!LatestTickIsKept, Video!EndIsDelivered

(* The stream of one video by itself: whatever is published while it is    *)
(* opened, slow, cut off and renewed, its ticks stay in order, the latest  *)
(* one is kept, and so is the end of a broadcast.                          *)
THEOREM VideoStreamHolds ==
  Video!Spec => [](/\ Video!TypeOK /\ Video!TicksInOrder
                   /\ Video!LatestTickIsKept /\ Video!EndIsDelivered)
<1>1. VInv /\ [Video!Next]_(Video!vars) => VInv'
  BY VideoStepsKeepOrder, OthersKeepOrder
<1>2. VInv => /\ Video!TypeOK /\ Video!TicksInOrder
              /\ Video!LatestTickIsKept /\ Video!EndIsDelivered
  BY ViewerParts, OrderOfTicks, OwedIsKept
<1> QED
  BY <1>1, <1>2, OpenedInOrder, PTL DEF Video!Spec

-----------------------------------------------------------------------------
(* The stream under study is one of them, and the subject never changes.   *)
StreamsInv == IF subject = "user" THEN IInv ELSE VInv

(* Each begins as its own module says.                                     *)
LEMMA StreamsBegin == MCInit => StreamsInv
<1>1. ASSUME subject = "user", Init PROVE StreamsInv
  BY <1>1, InitHolds DEF StreamsInv
<1>2. ASSUME subject \in DOMAIN Kinds, Video!Init PROVE StreamsInv
  <2>1. subject # "user"
    BY <1>2 DEF Kinds
  <2> QED
    BY <1>2, <2>1, OpenedInOrder DEF StreamsInv
<1> QED
  BY <1>1, <1>2 DEF MCInit

(* A step is one of the stream under study.                                *)
LEMMA StreamsGoOn == StreamsInv /\ [MCNext]_mcVars => StreamsInv'
<1> SUFFICES ASSUME StreamsInv, [MCNext]_mcVars PROVE StreamsInv'
  OBVIOUS
<1>1. CASE OfUser(Next)
  <2>1. subject = "user" /\ subject' = subject /\ Next
    BY <1>1 DEF OfUser
  <2> QED
    BY <2>1, NextPreserves DEF StreamsInv
<1>2. CASE \E s \in DOMAIN Kinds : OfVideo(s, Video!Next) /\ Within'
  <2>1. subject \in DOMAIN Kinds /\ subject' = subject /\ Video!Next
    BY <1>2 DEF OfVideo
  <2>2. subject # "user"
    BY <2>1 DEF Kinds
  <2> QED
    BY <2>1, <2>2, VideoStepsKeepOrder DEF StreamsInv
<1>3. CASE UNCHANGED mcVars
  <2>1. /\ UNCHANGED <<subject, vars>>
        /\ UNCHANGED <<kind, status, ticks, unsent, notice, session, page, owed>>
    BY <1>3 DEF mcVars, ofVideo
  <2>2. UNCHANGED Video!vars
    BY <2>1 DEF vars, server, stream, Video!vars, Video!video, Video!stream
  <2> QED
    BY <2>1, <2>2, StutteringPreserves, OthersKeepOrder DEF StreamsInv
<1> QED
  BY <1>1, <1>2, <1>3 DEF MCNext

(* The conditions of each stream hold in every state.                      *)
THEOREM StreamsInductive == MCSpec => []StreamsInv
<1> QED
  BY StreamsBegin, StreamsGoOn, PTL DEF MCSpec

(* Whatever the stream, its log, connection, page and tabs have their      *)
(* types, and the numbers of a video's rows stay within bounds.            *)
THEOREM StreamsTyped == MCSpec => []StreamTypeOK
<1>1. StreamsInv => StreamTypeOK
  BY ViewerParts DEF StreamsInv, IInv, StreamTypeOK
<1> QED
  BY <1>1, StreamsInductive, PTL

(* No stream repeats a frame or goes back, whatever waits behind a slow    *)
(* reader, was held for the opening or is dropped as a number written      *)
(* before: not to an event of the log, not to an older tick of a video.    *)
THEOREM StreamsRise == MCSpec => []OrderIsKept
<1>1. StreamsInv => OrderIsKept
  BY InOrderNow, OrderOfTicks DEF StreamsInv, OrderIsKept
<1> QED
  BY <1>1, StreamsInductive, PTL

(* The latest tick that was published to a video's stream is shown or on   *)
(* its way, and so is the end of a broadcast, through the opening, a slow  *)
(* reader, and a backlog at its limit that costs no more than the stream.  *)
THEOREM NewestStays == MCSpec => []NewestIsKept
<1>1. StreamsInv => NewestIsKept
  BY OwedIsKept DEF StreamsInv, NewestIsKept
<1> QED
  BY <1>1, StreamsInductive, PTL
=============================================================================
