---------------------------- MODULE ReadWriteProofs ----------------------------
(***************************************************************************)
(* Proofs about ReadWrite.tla, for any processes, who hold any ends of a   *)
(* pipe with a page of any length, and any terminal: how long its queues   *)
(* are, how it is set up, what is typed and who reads and writes.          *)
(***************************************************************************)
EXTENDS ReadWrite, SequenceTheorems, FiniteSetTheorems, WellFoundedInduction, TLAPS

(* Pipes: the invariant *)

\* Each copy has its stretch inside the page.  Without faults there is only one,
\* and it ends at the offset that was moved for it: what is read has left the
\* pipe, what is written is part of it already.
Stretches ==
  /\ \A p \in Process : /\ from[p] + left[p] <= PAGE_SIZE
                        /\ Copying(p) <=> left[p] > 0
  /\ ~faults => \A p, q \in Process : Copying(p) /\ Copying(q) => p = q
  /\ ~faults => \A p \in Process :
       /\ pc[p] = "read_copy" => /\ tail = Wrap(from[p] + left[p])
                                 /\ PIPE_SIZE + left[p] < PAGE_SIZE
       /\ pc[p] = "write_copy" => head = Wrap(from[p] + left[p]) /\ left[p] <= PIPE_SIZE

\* With faults the bytes are left out of the model.
PipeInv == PipeTypeOK /\ Stretches /\ PipeSleepers /\ (faults => delivered = <<>>)

(* Terminals: the invariant *)

\* Is nothing erased behind the back of a reader?
Safe == ~EraseAnywhere \/ Plain

\* A writer that will call rs_write(), one in interruptible_sleep_on(), and one that
\* has something to write.
Busy == {"write_putch", "write_start"}
Resting == {"read_sleep", "read_woken", "write_sleep", "write_woken"}
InWrite == {"write", "write_putch", "write_sleep", "write_woken", "write_again"}

\* What a call has still to do when it is at a label.
Calling ==
  /\ \A p \in Process : pc[p] \in InWrite => text[p] # <<>>
  /\ Safe => \A p \in Process : pc[p] = "read_getch" => secondary # <<>>
  /\ Plain => \A p \in Process : pc[p] = "write_putch" => ~Full(write_q)

\* Who is named sleeps for a reason; the line will interrupt, or somebody is about
\* to start it.
Sleeping ==
  /\ Safe => \A p \in proc_list["read"] : pc[p] = "read_sleep" => secondary = <<>>
  /\ \A p \in proc_list["write"] : pc[p] = "write_sleep" => ier
  /\ write_q # <<>> => ier \/ \E p \in Process : pc[p] \in Busy

\* Who is in a call makes such calls.
Caller(p) == /\ Reading(p) => "read" \in Use.calls[p]
             /\ Writing(p) => "write" \in Use.calls[p]

\* Each queue names one who has lain down there, and has not got up; who is alone
\* is named.
Chain(queue) ==
  /\ \A p, q \in proc_list[queue] : p = q
  /\ \A p \in proc_list[queue] : pc[p] \in {Asleep[queue], Woken[Asleep[queue]]}
  /\ \A p \in Process : Alone(p, queue) /\ pc[p] = Asleep[queue] => p \in proc_list[queue]

Chains == (\A p \in Process : Caller(p)) /\ (\A queue \in Queue : Chain(queue))

\* The carriage return that cr_flag stands for is the last character written.
ReturnsLast ==
  LET line == sent \o write_q
  IN  Plain /\ cr_flag => line # <<>> /\ line[Len(line)] = "cr"

\* What the line ends need.
LinesInv == LinesAreCounted /\ NewlinesReturn /\ ReturnsLast

\* What is edited is not followed further.
Typed ==
  /\ TtyTypeOK /\ text \in [Process -> Seq(Char)]
  /\ Plain => lflag = {}
  /\ ~Plain => delivered = <<>>

\* The invariant of a terminal.
TtyInv == Typed /\ Calling /\ Sleeping /\ Chains /\ LinesInv

(* The invariant of both *)

\* The inductive invariant of pipes and terminals.
IInv ==
  /\ kind \in Kind
  /\ kind = "pipe" => PipeInv
  /\ kind = "tty" => TtyInv

(* Pipes: offsets and stretches *)

\* An offset stays inside the page, and wraps round once.
LEMMA WrapFacts ==
  ASSUME NEW x \in Int
  PROVE  /\ Wrap(x) \in Offset
         /\ 0 <= x /\ x < PAGE_SIZE => Wrap(x) = x
         /\ PAGE_SIZE <= x /\ x < 2 * PAGE_SIZE => Wrap(x) = x - PAGE_SIZE
         /\ -PAGE_SIZE <= x /\ x < 0 => Wrap(x) = x + PAGE_SIZE
<1> DEFINE N == PAGE_SIZE
<1>1. N \in Nat /\ N >= 2
  BY PipeAssumption
<1> HIDE DEF N
<1>2. x % N \in 0..N - 1
  BY <1>1, SMT
<1>3. 0 <= x /\ x < N => x % N = x
  BY <1>1, SMT
<1>4. N <= x /\ x < 2 * N => x % N = x - N
  BY <1>1, SMT
<1>5. -N <= x /\ x < 0 => x % N = x + N
  BY <1>1, SMT
<1> QED
  BY <1>2, <1>3, <1>4, <1>5 DEF N, Wrap, Offset

\* The offsets, and the bytes between them.
LEMMA SizeFacts ==
  ASSUME PipeTypeOK
  PROVE  /\ PAGE_SIZE \in Nat /\ PAGE_SIZE >= 2
         /\ head \in Int /\ tail \in Int
         /\ 0 <= head /\ head < PAGE_SIZE /\ 0 <= tail /\ tail < PAGE_SIZE
         /\ PIPE_SIZE \in 0..PAGE_SIZE - 1
         /\ head >= tail => PIPE_SIZE = head - tail
         /\ head < tail  => PIPE_SIZE = head - tail + PAGE_SIZE
<1>1. /\ PAGE_SIZE \in Nat /\ PAGE_SIZE >= 2
      /\ head \in Int /\ tail \in Int
      /\ 0 <= head /\ head < PAGE_SIZE /\ 0 <= tail /\ tail < PAGE_SIZE
  BY PipeAssumption DEF PipeTypeOK, Offset
<1>2. head - tail \in Int
  BY <1>1
<1> QED
  BY <1>1, <1>2, WrapFacts DEF PIPE_SIZE, Offset

\* The stretch that a round of a call takes.
LEMMA SmallestFacts ==
  ASSUME NEW a \in Nat \ {0}, NEW b \in Nat \ {0}, NEW c \in Nat \ {0}
  PROVE  /\ Smallest(a, b, c) \in Nat \ {0}
         /\ Smallest(a, b, c) <= a /\ Smallest(a, b, c) <= b /\ Smallest(a, b, c) <= c
BY DEF Smallest

\* A stretch of n bytes taken at the tail.
LEMMA TailMoves ==
  ASSUME PipeTypeOK, NEW n \in Nat \ {0}, tail + n <= PAGE_SIZE, n <= PIPE_SIZE
  PROVE  /\ Wrap(tail + n) \in Offset
         /\ Wrap(head - Wrap(tail + n)) = PIPE_SIZE - n
<1>1. tail + n \in Int /\ head - Wrap(tail + n) \in Int /\ Wrap(tail + n) \in Offset
  BY SizeFacts, WrapFacts DEF Offset
<1>2. /\ tail + n < PAGE_SIZE => Wrap(tail + n) = tail + n
      /\ tail + n = PAGE_SIZE => Wrap(tail + n) = 0
  BY <1>1, SizeFacts, WrapFacts
<1> DEFINE t == Wrap(tail + n)
<1> HIDE DEF t
<1>3. /\ 0 <= head - t /\ head - t < PAGE_SIZE => Wrap(head - t) = head - t
      /\ -PAGE_SIZE <= head - t /\ head - t < 0 => Wrap(head - t) = head - t + PAGE_SIZE
  BY <1>1, WrapFacts DEF t
<1>4. Wrap(head - t) = PIPE_SIZE - n
  BY <1>2, <1>3, SizeFacts DEF t
<1> QED
  BY <1>1, <1>4 DEF t

\* A stretch of n bytes taken at the head.
LEMMA HeadMoves ==
  ASSUME PipeTypeOK, NEW n \in Nat \ {0}, head + n <= PAGE_SIZE, PIPE_SIZE + n < PAGE_SIZE
  PROVE  /\ Wrap(head + n) \in Offset
         /\ Wrap(Wrap(head + n) - tail) = PIPE_SIZE + n
<1>1. head + n \in Int /\ Wrap(head + n) - tail \in Int /\ Wrap(head + n) \in Offset
  BY SizeFacts, WrapFacts DEF Offset
<1>2. /\ head + n < PAGE_SIZE => Wrap(head + n) = head + n
      /\ head + n = PAGE_SIZE => Wrap(head + n) = 0
  BY <1>1, SizeFacts, WrapFacts
<1> DEFINE h == Wrap(head + n)
<1> HIDE DEF h
<1>3. /\ 0 <= h - tail /\ h - tail < PAGE_SIZE => Wrap(h - tail) = h - tail
      /\ -PAGE_SIZE <= h - tail /\ h - tail < 0 => Wrap(h - tail) = h - tail + PAGE_SIZE
  BY <1>1, WrapFacts DEF h
<1>4. Wrap(h - tail) = PIPE_SIZE + n
  BY <1>2, <1>3, SizeFacts DEF h
<1> QED
  BY <1>1, <1>4 DEF h

\* An empty pipe, with nobody in the kernel.
LEMMA PipeStarts ==
  ASSUME Init, kind = "pipe"
  PROVE  PipeInv
<1> USE DEF Init, StreamInit, PipeInit
<1>1. PAGE_SIZE \in Nat /\ PAGE_SIZE >= 2 /\ Byte # {} /\ MaxCount \in Nat
      /\ Holders \in [Process -> SUBSET {"read", "write"}]
  BY PipeAssumption, StreamAssumption
<1>2. 0 \in Offset
  BY <1>1 DEF Offset
<1>3. page \in [Offset -> Byte]
  BY <1>1
<1>4. delivered \in Seq(Byte)
  BY EmptySeq
<1>5. /\ pc \in [Process -> PipeLabel] /\ count \in [Process -> 0..MaxCount]
      /\ from \in [Process -> Offset] /\ left \in [Process -> 0..PAGE_SIZE]
  BY <1>1, <1>2 DEF PipeLabel
<1>6. PipeTypeOK
  BY <1>1, <1>2, <1>3, <1>4, <1>5 DEF PipeTypeOK, End
<1>7. Stretches
  <2>1. \A p \in Process : pc[p] = "user" /\ from[p] = 0 /\ left[p] = 0
    OBVIOUS
  <2> QED
    BY <1>1, <2>1 DEF Stretches, Copying
<1> QED
  BY <1>6, <1>7 DEF PipeInv, PipeSleepers

\* Who waits for the pipe when a process wakes them.
LEMMA WakeUpFacts ==
  ASSUME PipeTypeOK, NEW p \in Process, NEW label \in PipeLabel, WakeUp(p, label)
  PROVE  /\ pc' \in [Process -> PipeLabel]
         /\ pc'[p] = label
         /\ \A q \in Process \ {p} :
              pc'[q] = CASE pc[q] = "read_sleep" -> "read"
                         [] pc[q] = "write_sleep" -> "write"
                         [] OTHER -> pc[q]
<1>1. pc \in [Process -> PipeLabel]
  BY DEF PipeTypeOK
<1> QED
  BY <1>1 DEF WakeUp, WakeAll, PipeLabel

\* A process calls sys_read() or sys_write().
LEMMA CallKeeps ==
  ASSUME PipeInv, NEW p \in Process, NEW end \in End, Call(p, end)
  PROVE  PipeInv'
<1> USE DEF PipeInv, Call, At, GoTo, ringVars
<1>0. MaxCount \in Nat
  BY StreamAssumption
<1>1. PICK n \in 1..MaxCount : count' = [count EXCEPT ![p] = n]
  OBVIOUS
<1>2. PipeTypeOK'
  <2>1. pc' \in [Process -> PipeLabel]
    BY DEF PipeTypeOK, PipeLabel, End
  <2>2. count' \in [Process -> 0..MaxCount]
    BY <1>0, <1>1 DEF PipeTypeOK
  <2> QED
    BY <2>1, <2>2 DEF PipeTypeOK
<1>3. \A q \in Process : q # p => pc'[q] = pc[q]
  BY DEF PipeTypeOK
<1>4. pc'[p] \in End /\ pc[p] = "user"
  BY DEF PipeTypeOK, End
<1>5. \A q \in Process : Copying(q)' <=> Copying(q)
  BY <1>3, <1>4 DEF Copying, End
<1>6. Stretches'
  BY <1>3, <1>4, <1>5 DEF Stretches, PIPE_SIZE, End
<1>7. PipeSleepers'
  BY <1>4 DEF PipeSleepers, End
<1> QED
  BY <1>2, <1>6, <1>7

\* read_pipe() or write_pipe() returns, and wakes who waits.
LEMMA ReturnsKeeps ==
  ASSUME PipeInv, NEW p \in Process, ~Copying(p), Returns(p)
  PROVE  PipeInv'
<1> USE DEF PipeInv, Returns, ringVars
<1>0. MaxCount \in Nat
  BY StreamAssumption
<1>1. /\ pc' \in [Process -> PipeLabel] /\ pc'[p] = "user"
      /\ \A q \in Process \ {p} : pc'[q] = CASE pc[q] = "read_sleep" -> "read"
                                             [] pc[q] = "write_sleep" -> "write"
                                             [] OTHER -> pc[q]
  BY WakeUpFacts DEF PipeLabel
<1>2. PipeTypeOK'
  <2>2. count' \in [Process -> 0..MaxCount]
    BY <1>0 DEF PipeTypeOK
  <2> QED
    BY <1>1, <2>2 DEF PipeTypeOK
<1>3. \A q \in Process : /\ (pc'[q] = "read_copy") <=> (pc[q] = "read_copy")
                         /\ (pc'[q] = "write_copy") <=> (pc[q] = "write_copy")
  BY <1>1 DEF Copying
<1>4. Stretches'
  BY <1>3 DEF Stretches, PIPE_SIZE, Copying
<1>5. PipeSleepers'
  <2>1. \A q \in Process : pc'[q] \notin {"read_sleep", "write_sleep"}
    BY <1>1
  <2> QED
    BY <2>1 DEF PipeSleepers
<1> QED
  BY <1>2, <1>4, <1>5

\* A process goes to sleep and wakes the other side first: nobody is left asleep
\* that it could serve.
LEMMA SleepsInKeeps ==
  ASSUME PipeInv, NEW p \in Process, NEW label \in {"read_sleep", "write_sleep"},
         ~Copying(p), SleepsIn(p, label), i_count = 2,
         label = "read_sleep" => PIPE_SIZE = 0,
         label = "write_sleep" => Room = 0
  PROVE  PipeInv'
<1> USE DEF PipeInv, SleepsIn, ringVars, callVars
<1>1. /\ pc' \in [Process -> PipeLabel] /\ pc'[p] = label
      /\ \A q \in Process \ {p} : pc'[q] = CASE pc[q] = "read_sleep" -> "read"
                                             [] pc[q] = "write_sleep" -> "write"
                                             [] OTHER -> pc[q]
  BY WakeUpFacts DEF PipeLabel
<1>2. PipeTypeOK'
  BY <1>1 DEF PipeTypeOK
<1>3. \A q \in Process : /\ (pc'[q] = "read_copy") <=> (pc[q] = "read_copy")
                         /\ (pc'[q] = "write_copy") <=> (pc[q] = "write_copy")
  BY <1>1 DEF Copying
<1>4. Stretches'
  BY <1>3 DEF Stretches, PIPE_SIZE, Copying
<1>5. PipeSleepers'
  <2>1. \A q \in Process : pc'[q] \in {"read_sleep", "write_sleep"} => q = p
    BY <1>1
  <2>2. PIPE_SIZE' = PIPE_SIZE /\ Room' = Room /\ i_count' = i_count
    BY DEF PIPE_SIZE, Room, i_count
  <2> QED
    BY <2>1, <2>2, <1>1 DEF PipeSleepers
<1> QED
  BY <1>2, <1>4, <1>5

\* A process closes an end; the last of its side wakes the others.
LEMMA sys_closeKeeps ==
  ASSUME PipeInv, NEW p \in Process, NEW end \in End, sys_close(p, end)
  PROVE  PipeInv'
<1> USE DEF PipeInv, sys_close, ringVars, callVars, At
<1>1. CASE \A q \in Process \ {p} : end \notin ends[q]
  <2>1. /\ pc' \in [Process -> PipeLabel] /\ pc'[p] = "user"
        /\ \A q \in Process \ {p} : pc'[q] = CASE pc[q] = "read_sleep" -> "read"
                                               [] pc[q] = "write_sleep" -> "write"
                                               [] OTHER -> pc[q]
    BY <1>1, WakeUpFacts DEF PipeLabel
  <2>2. PipeTypeOK'
    BY <2>1 DEF PipeTypeOK
  <2>3. \A q \in Process : /\ (pc'[q] = "read_copy") <=> (pc[q] = "read_copy")
                           /\ (pc'[q] = "write_copy") <=> (pc[q] = "write_copy")
    BY <2>1
  <2>4. Stretches'
    BY <2>3 DEF Stretches, PIPE_SIZE, Copying
  <2>5. PipeSleepers'
    <3>1. \A q \in Process : pc'[q] \notin {"read_sleep", "write_sleep"}
      BY <2>1
    <3> QED
      BY <3>1 DEF PipeSleepers
  <2> QED
    BY <2>2, <2>4, <2>5
<1>2. CASE ~\A q \in Process \ {p} : end \notin ends[q]
  <2>1. UNCHANGED <<pc, head, tail, page, count, from, left, delivered, faults>>
    BY <1>2
  <2>2. PipeTypeOK'
    BY <2>1 DEF PipeTypeOK
  <2>3. Stretches'
    BY <2>1 DEF Stretches, PIPE_SIZE, Copying
  <2>4. UNION {ends'[q] : q \in Process} = UNION {ends[q] : q \in Process}
    <3>1. ends' = [ends EXCEPT ![p] = @ \ {end}] /\ ends \in [Process -> SUBSET End]
      BY DEF PipeTypeOK
    <3>2. PICK o \in Process \ {p} : end \in ends[o]
      BY <1>2
    <3>3. ends'[o] = ends[o] /\ ends'[p] = ends[p] \ {end}
      BY <3>1
    <3> QED
      BY <3>1, <3>2, <3>3
  <2>5. i_count' = i_count
    BY <2>4 DEF i_count
  <2>6. PIPE_SIZE' = PIPE_SIZE /\ Room' = Room
    BY <2>1 DEF PIPE_SIZE, Room
  <2>7. PipeSleepers'
    BY <2>1, <2>5, <2>6 DEF PipeSleepers
  <2> QED
    BY <2>1, <2>2, <2>3, <2>7
<1> QED
  BY <1>1, <1>2

\* What p does when it takes n bytes at the tail.
TakeTail(p, n) ==
  tail' = Wrap(tail + n) /\ TakeStretch(p, n, tail, "read_copy") /\ UNCHANGED head

TakeHead(p, n) ==
  head' = Wrap(head + n) /\ TakeStretch(p, n, head, "write_copy") /\ UNCHANGED tail

\* The rounds of read_pipe() and write_pipe(), one by one.
LEMMA RoundsOfReading ==
  ASSUME PipeInv, NEW p \in Process, read_pipe(p)
  PROVE  /\ pc[p] = "read" /\ ~Copying(p) /\ (~faults => \A q \in Process : ~Copying(q))
         /\ \/ Returns(p)
            \/ SleepsIn(p, "read_sleep") /\ PIPE_SIZE = 0 /\ i_count = 2
            \/ \E n \in 1..count[p] : n <= PIPE_SIZE /\ tail + n <= PAGE_SIZE /\ TakeTail(p, n)
<1> USE DEF PipeInv
<1>1. pc[p] = "read" /\ ~Copying(p) /\ (~faults => \A q \in Process : ~Copying(q))
  BY DEF read_pipe, At, Runs, Copying
<1>2. CASE /\ count[p] > 0 /\ PIPE_SIZE > 0
           /\ LET chars == Smallest(PAGE_SIZE - tail, count[p], PIPE_SIZE)
              IN  /\ tail' = Wrap(tail + chars)
                  /\ TakeStretch(p, chars, tail, "read_copy")
           /\ UNCHANGED head
  <2> DEFINE chars == Smallest(PAGE_SIZE - tail, count[p], PIPE_SIZE)
  <2>1. TakeTail(p, chars)
    BY <1>2 DEF TakeTail
  <2>2. count[p] \in Nat
    BY StreamAssumption DEF PipeTypeOK
  <2>3. PAGE_SIZE - tail \in Nat \ {0} /\ PIPE_SIZE \in Nat \ {0} /\ count[p] \in Nat \ {0}
    BY <1>2, <2>2, SizeFacts
  <2>4. chars \in Nat \ {0} /\ chars <= PAGE_SIZE - tail /\ chars <= count[p]
        /\ chars <= PIPE_SIZE
    BY <2>3, SmallestFacts
  <2> HIDE DEF chars
  <2>5. chars \in 1..count[p] /\ chars <= PIPE_SIZE /\ tail + chars <= PAGE_SIZE
    BY <2>3, <2>4, SizeFacts
  <2> QED
    BY <1>1, <2>1, <2>5
<1> QED
  BY <1>1, <1>2 DEF read_pipe

\* The rounds of write_pipe().
LEMMA RoundsOfWriting ==
  ASSUME PipeInv, NEW p \in Process, write_pipe(p)
  PROVE  /\ pc[p] = "write" /\ ~Copying(p) /\ (~faults => \A q \in Process : ~Copying(q))
         /\ \/ Returns(p)
            \/ SleepsIn(p, "write_sleep") /\ Room = 0 /\ i_count = 2
            \/ \E n \in 1..count[p] : /\ PIPE_SIZE + n < PAGE_SIZE /\ head + n <= PAGE_SIZE
                                      /\ TakeHead(p, n)
<1> USE DEF PipeInv
<1>1. pc[p] = "write" /\ ~Copying(p) /\ (~faults => \A q \in Process : ~Copying(q))
  BY DEF write_pipe, At, Runs, Copying
<1>2. CASE /\ count[p] > 0 /\ Room > 0
           /\ LET chars == Smallest(PAGE_SIZE - head, count[p], Room)
              IN  /\ head' = Wrap(head + chars)
                  /\ TakeStretch(p, chars, head, "write_copy")
           /\ UNCHANGED tail
  <2> DEFINE chars == Smallest(PAGE_SIZE - head, count[p], Room)
  <2>1. TakeHead(p, chars)
    BY <1>2 DEF TakeHead
  <2>2. count[p] \in Nat
    BY StreamAssumption DEF PipeTypeOK
  <2>3. PAGE_SIZE - head \in Nat \ {0} /\ Room \in Nat \ {0} /\ count[p] \in Nat \ {0}
    BY <1>2, <2>2, SizeFacts DEF Room
  <2>4. chars \in Nat \ {0} /\ chars <= PAGE_SIZE - head /\ chars <= count[p] /\ chars <= Room
    BY <2>3, SmallestFacts
  <2> HIDE DEF chars
  <2>5. chars \in 1..count[p] /\ PIPE_SIZE + chars < PAGE_SIZE /\ head + chars <= PAGE_SIZE
    BY <2>3, <2>4, SizeFacts DEF Room
  <2> QED
    BY <1>1, <2>1, <2>5
<1> QED
  BY <1>1, <1>2 DEF write_pipe

\* read_pipe() moves the tail.
LEMMA TakeTailKeeps ==
  ASSUME PipeInv, NEW p \in Process, pc[p] = "read", ~faults => \A q \in Process : ~Copying(q),
         NEW n \in 1..count[p], n <= PIPE_SIZE, tail + n <= PAGE_SIZE, TakeTail(p, n)
  PROVE  PipeInv'
<1> USE DEF PipeInv, TakeTail, TakeStretch, GoTo
<1>0. /\ count[p] \in 0..MaxCount /\ MaxCount \in Nat /\ n \in Nat \ {0}
      /\ PAGE_SIZE \in Nat /\ PIPE_SIZE \in 0..PAGE_SIZE - 1 /\ tail \in Int
  <2>1. count[p] \in 0..MaxCount /\ MaxCount \in Nat
    BY StreamAssumption DEF PipeTypeOK
  <2>2. n \in Nat \ {0}
    BY <2>1
  <2> QED
    BY <2>1, <2>2, SizeFacts
<1>1. tail' \in Offset /\ PIPE_SIZE' = PIPE_SIZE - n
  BY <1>0, TailMoves DEF PIPE_SIZE
<1>2. /\ pc' = [pc EXCEPT ![p] = "read_copy"] /\ left' = [left EXCEPT ![p] = n]
      /\ from' = [from EXCEPT ![p] = tail] /\ UNCHANGED <<head, page, ends, delivered, faults>>
  OBVIOUS
<1>3. PipeTypeOK'
  <2>1. count' \in [Process -> 0..MaxCount]
    BY <1>0 DEF PipeTypeOK
  <2>2. pc' \in [Process -> PipeLabel]
    BY <1>2 DEF PipeTypeOK, PipeLabel
  <2>3. left' \in [Process -> 0..PAGE_SIZE]
    <3>1. n \in 0..PAGE_SIZE
      BY <1>0
    <3> QED
      BY <3>1 DEF PipeTypeOK
  <2>4. from' \in [Process -> Offset]
    BY DEF PipeTypeOK
  <2> QED
    BY <1>1, <1>2, <2>1, <2>2, <2>3, <2>4 DEF PipeTypeOK
<1>4. /\ pc'[p] = "read_copy" /\ left'[p] = n /\ from'[p] = tail
      /\ \A q \in Process \ {p} : pc'[q] = pc[q] /\ left'[q] = left[q] /\ from'[q] = from[q]
  BY <1>2 DEF PipeTypeOK
<1>5. Stretches'
  <2>1. \A q \in Process : /\ from'[q] + left'[q] <= PAGE_SIZE
                           /\ Copying(q)' <=> left'[q] > 0
    BY <1>0, <1>4 DEF Stretches, Copying
  <2>2. ~faults => \A q \in Process : Copying(q)' => q = p
    BY <1>4 DEF Copying
  <2>3. PIPE_SIZE' + n < PAGE_SIZE
    BY <1>0, <1>1
  <2> QED
    BY <1>2, <1>4, <2>1, <2>2, <2>3 DEF Stretches, Copying
<1>6. PipeSleepers'
  BY <1>4 DEF PipeSleepers
<1> QED
  BY <1>2, <1>3, <1>5, <1>6

\* write_pipe() moves the head.
LEMMA TakeHeadKeeps ==
  ASSUME PipeInv, NEW p \in Process, pc[p] = "write", ~faults => \A q \in Process : ~Copying(q),
         NEW n \in 1..count[p], PIPE_SIZE + n < PAGE_SIZE, head + n <= PAGE_SIZE,
         TakeHead(p, n)
  PROVE  PipeInv'
<1> USE DEF PipeInv, TakeHead, TakeStretch, GoTo
<1>0. /\ count[p] \in 0..MaxCount /\ MaxCount \in Nat /\ n \in Nat \ {0}
      /\ PAGE_SIZE \in Nat /\ PIPE_SIZE \in 0..PAGE_SIZE - 1 /\ head \in Int
  <2>1. count[p] \in 0..MaxCount /\ MaxCount \in Nat
    BY StreamAssumption DEF PipeTypeOK
  <2>2. n \in Nat \ {0}
    BY <2>1
  <2> QED
    BY <2>1, <2>2, SizeFacts
<1>1. head' \in Offset /\ PIPE_SIZE' = PIPE_SIZE + n
  BY <1>0, HeadMoves DEF PIPE_SIZE
<1>2. /\ pc' = [pc EXCEPT ![p] = "write_copy"] /\ left' = [left EXCEPT ![p] = n]
      /\ from' = [from EXCEPT ![p] = head] /\ UNCHANGED <<tail, page, ends, delivered, faults>>
  OBVIOUS
<1>3. PipeTypeOK'
  <2>1. count' \in [Process -> 0..MaxCount]
    BY <1>0 DEF PipeTypeOK
  <2>2. pc' \in [Process -> PipeLabel]
    BY <1>2 DEF PipeTypeOK, PipeLabel
  <2>3. left' \in [Process -> 0..PAGE_SIZE]
    <3>1. n \in 0..PAGE_SIZE
      BY <1>0
    <3> QED
      BY <3>1 DEF PipeTypeOK
  <2>4. from' \in [Process -> Offset]
    BY DEF PipeTypeOK
  <2> QED
    BY <1>1, <1>2, <2>1, <2>2, <2>3, <2>4 DEF PipeTypeOK
<1>4. /\ pc'[p] = "write_copy" /\ left'[p] = n /\ from'[p] = head
      /\ \A q \in Process \ {p} : pc'[q] = pc[q] /\ left'[q] = left[q] /\ from'[q] = from[q]
  BY <1>2 DEF PipeTypeOK
<1>5. Stretches'
  <2>1. \A q \in Process : /\ from'[q] + left'[q] <= PAGE_SIZE
                           /\ Copying(q)' <=> left'[q] > 0
    BY <1>0, <1>4 DEF Stretches, Copying
  <2>2. ~faults => \A q \in Process : Copying(q)' => q = p
    BY <1>4 DEF Copying
  <2>3. n <= PIPE_SIZE'
    BY <1>0, <1>1
  <2> QED
    BY <1>2, <1>4, <2>1, <2>2, <2>3 DEF Stretches, Copying
<1>6. PipeSleepers'
  BY <1>4 DEF PipeSleepers
<1> QED
  BY <1>2, <1>3, <1>5, <1>6

\* n bytes of the stretch of p have been copied, and the rest waits.
LEMMA CopyKeeps ==
  ASSUME PipeInv, NEW p \in Process, NEW n \in Copied(p), NEW label \in {"read", "write"},
         Copying(p), CopyGoesOn(p, n, label), page' \in [Offset -> Byte],
         delivered' \in Seq(Byte), faults => delivered' = <<>>
  PROVE  PipeInv'
<1> USE DEF PipeInv, CopyGoesOn, GoTo
<1>0. /\ left[p] \in 0..PAGE_SIZE /\ PAGE_SIZE \in Nat /\ left[p] > 0
      /\ from[p] \in 0..PAGE_SIZE - 1 /\ from[p] + left[p] <= PAGE_SIZE
  BY PipeAssumption DEF PipeTypeOK, Stretches, Offset
<1>1. n \in 1..left[p] /\ (~faults => n = left[p])
  BY <1>0 DEF Copied
<1> DEFINE f == IF n = left[p] THEN 0 ELSE from[p] + n
           l == left[p] - n
<1>2. f \in Offset /\ l \in 0..PAGE_SIZE /\ f + l <= PAGE_SIZE /\ (l > 0 <=> n # left[p])
  BY <1>0, <1>1 DEF Offset
<1>3. left' = [left EXCEPT ![p] = l] /\ from' = [from EXCEPT ![p] = f]
      /\ UNCHANGED <<head, tail, count, ends, faults>>
  OBVIOUS
<1> HIDE DEF f, l
<1>4. /\ pc' \in [Process -> PipeLabel]
      /\ pc'[p] = IF n = left[p] THEN label ELSE pc[p]
      /\ \A q \in Process \ {p} : pc'[q] = pc[q]
  BY DEF PipeTypeOK, PipeLabel
<1>5. PipeTypeOK'
  <2>1. left' \in [Process -> 0..PAGE_SIZE]
    BY <1>2, <1>3 DEF PipeTypeOK
  <2>2. from' \in [Process -> Offset]
    BY <1>2, <1>3 DEF PipeTypeOK
  <2> QED
    BY <1>3, <1>4, <2>1, <2>2 DEF PipeTypeOK
<1>6. /\ left'[p] = l /\ from'[p] = f
      /\ \A q \in Process \ {p} : left'[q] = left[q] /\ from'[q] = from[q]
  BY <1>3 DEF PipeTypeOK
<1>7. Stretches'
  <2>1. Copying(p)' <=> n # left[p]
    BY <1>4 DEF Copying
  <2>2. \A q \in Process : /\ from'[q] + left'[q] <= PAGE_SIZE
                           /\ Copying(q)' <=> left'[q] > 0
    BY <1>2, <1>4, <1>6, <2>1 DEF Stretches, Copying
  <2>3. ~faults => \A q \in Process : ~Copying(q)'
    BY <1>1, <1>4, <2>1 DEF Stretches, Copying
  <2> QED
    BY <1>3, <2>2, <2>3 DEF Stretches, Copying
<1>8. PipeSleepers'
  <2>1. pc'[p] \in {"read", "write", "read_copy", "write_copy"}
    BY <1>4 DEF Copying
  <2> QED
    BY <2>1 DEF PipeSleepers
<1> QED
  BY <1>3, <1>5, <1>7, <1>8

\* read_pipe() copies out.
LEMMA ReadCopyKeeps ==
  ASSUME PipeInv, NEW p \in Process, NEW n \in Copied(p), ReadCopy(p, n)
  PROVE  PipeInv'
<1> USE DEF PipeInv, ReadCopy, At
<1>0. /\ left[p] \in 0..PAGE_SIZE /\ PAGE_SIZE \in Nat /\ left[p] > 0
      /\ from[p] \in 0..PAGE_SIZE - 1 /\ from[p] + left[p] <= PAGE_SIZE
  BY PipeAssumption DEF PipeTypeOK, Stretches, Offset, Copying
<1>1. n \in 1..left[p]
  BY <1>0 DEF Copied
<1>2. delivered' \in Seq(Byte) /\ (faults => delivered' = <<>>)
  <2>1. CASE faults
    BY <2>1, EmptySeq
  <2>2. CASE ~faults
    <3>1. \A i \in 1..n : from[p] + i - 1 \in Offset
      BY <1>0, <1>1 DEF Offset
    <3>2. n \in Nat
      BY <1>0, <1>1
    <3>3. delivered' \in [1..n -> Byte]
      BY <2>2, <3>1 DEF PipeTypeOK
    <3> QED
      BY <2>2, <3>2, <3>3
  <2> QED
    BY <2>1, <2>2
<1> QED
  BY <1>2, CopyKeeps DEF PipeTypeOK, Copying

\* write_pipe() copies in.
LEMMA WriteCopyKeeps ==
  ASSUME PipeInv, NEW p \in Process, NEW n \in Copied(p), WriteCopy(p, n)
  PROVE  PipeInv'
<1> USE DEF PipeInv, WriteCopy, At
<1>0. /\ left[p] \in 0..PAGE_SIZE /\ PAGE_SIZE \in Nat /\ left[p] > 0
      /\ from[p] \in 0..PAGE_SIZE - 1 /\ from[p] + left[p] <= PAGE_SIZE
  BY PipeAssumption DEF PipeTypeOK, Stretches, Offset, Copying
<1>1. n \in 1..left[p]
  BY <1>0 DEF Copied
<1>2. page' \in [Offset -> Byte]
  <2>1. CASE faults
    BY <2>1 DEF PipeTypeOK
  <2>2. CASE ~faults
    <3>1. PICK new \in [0..n - 1 -> Byte] :
            page' = [i \in Offset |-> IF i \in from[p]..from[p] + n - 1
                                      THEN new[i - from[p]] ELSE page[i]]
      BY <2>2
    <3>2. \A i \in from[p]..from[p] + n - 1 : i - from[p] \in 0..n - 1
      BY <1>0, <1>1
    <3> QED
      BY <3>1, <3>2 DEF PipeTypeOK
  <2> QED
    BY <2>1, <2>2
<1> QED
  BY <1>2, CopyKeeps DEF PipeTypeOK, Copying

\* Every step of a pipe keeps the invariant.
LEMMA PipeStays ==
  ASSUME PipeInv, PipeNext
  PROVE  PipeInv'
<1>1. PICK p \in Process : \/ InKernel(p)
                           \/ \E end \in End : Call(p, end) \/ sys_close(p, end)
  BY DEF PipeNext
<1>2. CASE read_pipe(p)
  BY <1>2, RoundsOfReading, ReturnsKeeps, SleepsInKeeps, TakeTailKeeps
<1>3. CASE write_pipe(p)
  BY <1>3, RoundsOfWriting, ReturnsKeeps, SleepsInKeeps, TakeHeadKeeps
<1>4. CASE \E n \in Copied(p) : ReadCopy(p, n) \/ WriteCopy(p, n)
  BY <1>4, ReadCopyKeeps, WriteCopyKeeps
<1>5. CASE \E end \in End : Call(p, end) \/ sys_close(p, end)
  BY <1>5, CallKeeps, sys_closeKeeps
<1> QED
  BY <1>1, <1>2, <1>3, <1>4, <1>5 DEF InKernel

(* Bytes come out of a pipe in the order in which they went in *)

\* How far the copies are behind the offsets.
AheadIs ==
  \A label \in {"read_copy", "write_copy"} :
    /\ (\A p \in Process : pc[p] # label) => Ahead(label) = 0
    /\ \A p \in Process :
         pc[p] = label /\ (\A q \in Process : pc[q] = label => q = p) => Ahead(label) = left[p]

\* With one copy at most, Ahead is what is left of it.
LEMMA AheadFacts == AheadIs
<1> SUFFICES ASSUME NEW label \in {"read_copy", "write_copy"}
             PROVE  /\ (\A p \in Process : pc[p] # label) => Ahead(label) = 0
                    /\ \A p \in Process :
                         pc[p] = label /\ (\A q \in Process : pc[q] = label => q = p)
                           => Ahead(label) = left[p]
  BY DEF AheadIs
<1>1. ASSUME \A p \in Process : pc[p] # label
      PROVE  Ahead(label) = 0
  <2>1. {q \in Process : pc[q] = label} = {}
    BY <1>1
  <2>2. InTransit(label) = {}
    BY <2>1 DEF InTransit
  <2> QED
    BY <2>2 DEF Ahead
<1>2. ASSUME NEW p \in Process, pc[p] = label, \A q \in Process : pc[q] = label => q = p
      PROVE  Ahead(label) = left[p]
  <2>1. {q \in Process : pc[q] = label} = {p}
    BY <1>2
  <2>2. InTransit(label) = {left[p]}
    BY <2>1 DEF InTransit
  <2> QED
    BY <2>2 DEF Ahead
<1> QED
  BY <1>1, <1>2

\* The same in the next state.
LEMMA AheadNext == AheadIs'
BY AheadFacts, PTL

\* The bytes of the pipe, from an offset on.
Span(start, size) == [i \in 1..size |-> page[Wrap(start + i - 1)]]

\* The bytes of the pipe are a span of the page.
LEMMA BytesAreSpan ==
  PipeBytes = Span(tail - Ahead("read_copy"),
                   PIPE_SIZE + Ahead("read_copy") - Ahead("write_copy"))
BY DEF PipeBytes, Span, Wrap

\* The same in the next state.
LEMMA BytesNext ==
  PipeBytes' = [i \in 1..PIPE_SIZE' + Ahead("read_copy")' - Ahead("write_copy")'
                  |-> page'[Wrap(tail' - Ahead("read_copy")' + i - 1)]]
BY DEF PipeBytes, Wrap

\* Nobody is copying: the bytes are those between the offsets.
LEMMA AtRest ==
  ASSUME PipeTypeOK, \A p \in Process : ~Copying(p)
  PROVE  PipeBytes = Span(tail, PIPE_SIZE)
<1>1. Ahead("read_copy") = 0 /\ Ahead("write_copy") = 0
  BY AheadFacts DEF AheadIs, Copying
<1>2. tail - 0 = tail /\ PIPE_SIZE + 0 - 0 = PIPE_SIZE
  BY SizeFacts
<1> QED
  BY <1>1, <1>2, BytesAreSpan

\* A step that moves no bytes.
LEMMA NothingMoves ==
  ASSUME PipeTypeOK, \A p \in Process : ~Copying(p) /\ ~Copying(p)',
         UNCHANGED <<head, tail, page>>
  PROVE  PipeBytes' = PipeBytes
<1>1. Ahead("read_copy")' = 0 /\ Ahead("write_copy")' = 0
  BY AheadNext DEF AheadIs, Copying
<1>2. PIPE_SIZE' = PIPE_SIZE
  BY DEF PIPE_SIZE
<1>3. tail - 0 = tail /\ PIPE_SIZE + 0 - 0 = PIPE_SIZE
  BY SizeFacts
<1>4. PipeBytes' = Span(tail, PIPE_SIZE)
  BY <1>1, <1>2, <1>3, BytesNext DEF Span
<1> QED
  BY <1>4, AtRest

\* Offsets a page apart are the same.
LEMMA WrapAgain ==
  ASSUME NEW x \in Int, -PAGE_SIZE <= x, x < PAGE_SIZE
  PROVE  Wrap(x + PAGE_SIZE) = Wrap(x)
<1>1. PAGE_SIZE \in Nat /\ PAGE_SIZE >= 2
  BY PipeAssumption
<1>2. x + PAGE_SIZE \in Int
  BY <1>1
<1>3. 0 <= x => Wrap(x) = x /\ Wrap(x + PAGE_SIZE) = x
  <2> SUFFICES ASSUME 0 <= x PROVE Wrap(x) = x /\ Wrap(x + PAGE_SIZE) = x
    OBVIOUS
  <2>1. Wrap(x) = x
    BY WrapFacts
  <2>2. Wrap(x + PAGE_SIZE) = (x + PAGE_SIZE) - PAGE_SIZE
    BY <1>1, <1>2, WrapFacts
  <2> QED
    BY <1>1, <2>1, <2>2
<1>4. x < 0 => Wrap(x) = x + PAGE_SIZE /\ Wrap(x + PAGE_SIZE) = x + PAGE_SIZE
  <2> SUFFICES ASSUME x < 0 PROVE Wrap(x) = x + PAGE_SIZE /\ Wrap(x + PAGE_SIZE) = x + PAGE_SIZE
    OBVIOUS
  <2>1. Wrap(x) = x + PAGE_SIZE
    BY WrapFacts
  <2>2. Wrap(x + PAGE_SIZE) = x + PAGE_SIZE
    BY <1>1, <1>2, WrapFacts
  <2> QED
    BY <2>1, <2>2
<1> QED
  BY <1>3, <1>4

\* A stretch is taken from the tail: the bytes stay until they are copied.
LEMMA TakeTailStutters ==
  ASSUME PipeInv, ~faults, NEW p \in Process, pc[p] = "read", \A q \in Process : ~Copying(q),
         NEW n \in 1..count[p], n <= PIPE_SIZE, tail + n <= PAGE_SIZE, TakeTail(p, n)
  PROVE  PipeBytes' = PipeBytes
<1>0. /\ PipeTypeOK /\ n \in Nat \ {0} /\ PAGE_SIZE \in Nat /\ PAGE_SIZE >= 2
      /\ PIPE_SIZE \in 0..PAGE_SIZE - 1 /\ tail \in Int /\ 0 <= tail /\ tail < PAGE_SIZE
  <2>1. PipeTypeOK
    BY DEF PipeInv
  <2>2. count[p] \in Nat
    BY <2>1, StreamAssumption DEF PipeTypeOK
  <2>3. n \in Nat \ {0}
    BY <2>2
  <2> QED
    BY <2>1, <2>3, SizeFacts
<1>1. PIPE_SIZE' = PIPE_SIZE - n
  BY <1>0, TailMoves DEF PIPE_SIZE, TakeTail
<1>2. Ahead("read_copy")' = n /\ Ahead("write_copy")' = 0
  <2>1. /\ pc'[p] = "read_copy" /\ left'[p] = n
        /\ \A q \in Process \ {p} : pc'[q] = pc[q]
    BY <1>0 DEF TakeTail, TakeStretch, GoTo, PipeTypeOK
  <2> QED
    BY <2>1, AheadNext DEF AheadIs, Copying
<1>3. tail' = Wrap(tail + n) /\ page' = page
  BY DEF TakeTail, TakeStretch
<1>4. /\ tail + n < PAGE_SIZE => tail' = tail + n
      /\ tail + n = PAGE_SIZE => tail' = 0
  <2>1. tail + n \in Int
    BY <1>0
  <2> QED
    BY <1>0, <1>3, <2>1, WrapFacts
<1>5. \A i \in 1..PIPE_SIZE : Wrap(tail' - n + i - 1) = Wrap(tail + i - 1)
  <2> SUFFICES ASSUME NEW i \in 1..PIPE_SIZE
               PROVE  Wrap(tail' - n + i - 1) = Wrap(tail + i - 1)
    OBVIOUS
  <2>1. CASE tail + n < PAGE_SIZE
    <3>1. tail' - n + i - 1 = tail + i - 1
      BY <1>0, <1>4, <2>1
    <3> QED
      BY <3>1
  <2>2. CASE tail + n = PAGE_SIZE
    <3> DEFINE x == i - 1 - n
    <3>1. /\ x \in Int /\ -PAGE_SIZE <= x /\ x < PAGE_SIZE
          /\ tail' - n + i - 1 = x /\ tail + i - 1 = x + PAGE_SIZE
      BY <1>0, <1>4, <2>2
    <3> HIDE DEF x
    <3> QED
      BY <3>1, WrapAgain
  <2> QED
    BY <1>0, <2>1, <2>2
<1>6. PIPE_SIZE - n + n - 0 = PIPE_SIZE
  BY <1>0
<1> QED
  BY <1>0, <1>1, <1>2, <1>3, <1>5, <1>6, BytesNext, AtRest DEF Span

\* A stretch is taken at the head: it holds nothing until it is filled.
LEMMA TakeHeadStutters ==
  ASSUME PipeInv, ~faults, NEW p \in Process, pc[p] = "write", \A q \in Process : ~Copying(q),
         NEW n \in 1..count[p], PIPE_SIZE + n < PAGE_SIZE, head + n <= PAGE_SIZE, TakeHead(p, n)
  PROVE  PipeBytes' = PipeBytes
<1>0. /\ PipeTypeOK /\ n \in Nat \ {0} /\ PAGE_SIZE \in Nat /\ PAGE_SIZE >= 2
      /\ PIPE_SIZE \in 0..PAGE_SIZE - 1 /\ tail \in Int
  <2>1. PipeTypeOK
    BY DEF PipeInv
  <2>2. count[p] \in Nat
    BY <2>1, StreamAssumption DEF PipeTypeOK
  <2>3. n \in Nat \ {0}
    BY <2>2
  <2> QED
    BY <2>1, <2>3, SizeFacts
<1>1. PIPE_SIZE' = PIPE_SIZE + n
  BY <1>0, HeadMoves DEF PIPE_SIZE, TakeHead
<1>2. Ahead("read_copy")' = 0 /\ Ahead("write_copy")' = n
  <2>1. /\ pc'[p] = "write_copy" /\ left'[p] = n
        /\ \A q \in Process \ {p} : pc'[q] = pc[q]
    BY <1>0 DEF TakeHead, TakeStretch, GoTo, PipeTypeOK
  <2> QED
    BY <2>1, AheadNext DEF AheadIs, Copying
<1>3. tail' = tail /\ page' = page
  BY DEF TakeHead, TakeStretch
<1>4. PIPE_SIZE + n + 0 - n = PIPE_SIZE /\ tail - 0 = tail
  BY <1>0
<1> QED
  BY <1>0, <1>1, <1>2, <1>3, <1>4, BytesNext, AtRest DEF Span

\* A copy on behalf of p ends: it was the only one.
LEMMA CopyEnds ==
  ASSUME PipeInv, ~faults, NEW p \in Process, Copying(p), NEW n \in Copied(p),
         NEW label \in {"read", "write"}, CopyGoesOn(p, n, label)
  PROVE  /\ n = left[p] /\ n \in Nat \ {0}
         /\ from[p] \in Int /\ 0 <= from[p] /\ from[p] + n <= PAGE_SIZE
         /\ \A q \in Process : ~Copying(q)'
         /\ pc[p] = "read_copy" => Ahead("read_copy") = n /\ Ahead("write_copy") = 0
         /\ pc[p] = "write_copy" => Ahead("read_copy") = 0 /\ Ahead("write_copy") = n
         /\ Ahead("read_copy")' = 0 /\ Ahead("write_copy")' = 0
         /\ PIPE_SIZE' = PIPE_SIZE
<1> USE DEF PipeInv
<1>1. n = left[p] /\ n \in Nat \ {0}
      /\ from[p] \in Int /\ 0 <= from[p] /\ from[p] + n <= PAGE_SIZE
  BY PipeAssumption DEF PipeTypeOK, Stretches, Offset, Copied
<1>2. \A q \in Process : q # p => ~Copying(q)
  BY DEF Stretches
<1>3. pc' = [pc EXCEPT ![p] = label]
  BY <1>1 DEF CopyGoesOn, GoTo
<1>4. \A q \in Process : ~Copying(q)'
  BY <1>2, <1>3 DEF PipeTypeOK, Copying
<1>5. /\ pc[p] = "read_copy" => Ahead("read_copy") = n /\ Ahead("write_copy") = 0
      /\ pc[p] = "write_copy" => Ahead("read_copy") = 0 /\ Ahead("write_copy") = n
  BY <1>1, <1>2, AheadFacts DEF AheadIs, Copying
<1>6. Ahead("read_copy")' = 0 /\ Ahead("write_copy")' = 0
  BY <1>4, AheadNext DEF AheadIs, Copying
<1>7. PIPE_SIZE' = PIPE_SIZE
  BY DEF PIPE_SIZE, CopyGoesOn
<1> QED
  BY <1>1, <1>4, <1>5, <1>6, <1>7

\* The bytes of a span.
LEMMA SpanFacts ==
  ASSUME PipeTypeOK, NEW start \in Int, NEW size \in Nat
  PROVE  /\ Span(start, size) \in Seq(Byte)
         /\ Len(Span(start, size)) = size
         /\ \A i \in 1..size : Span(start, size)[i] = page[Wrap(start + i - 1)]
<1>1. \A i \in 1..size : page[Wrap(start + i - 1)] \in Byte
  BY WrapFacts DEF PipeTypeOK
<1>2. Span(start, size) \in [1..size -> Byte]
  BY <1>1 DEF Span
<1>3. Span(start, size) \in Seq(Byte)
  BY <1>2
<1>4. DOMAIN Span(start, size) = 1..size
  BY DEF Span
<1>5. Len(Span(start, size)) = size
  BY <1>3, <1>4, LenProperties
<1> QED
  BY <1>3, <1>5 DEF Span

\* A copy out takes the first bytes.
LEMMA ReadCopyGets ==
  ASSUME PipeInv, ~faults, NEW p \in Process, NEW n \in Copied(p), ReadCopy(p, n)
  PROVE  /\ n \in 1..Len(PipeBytes)
         /\ delivered' = SubSeq(PipeBytes, 1, n)
         /\ PipeBytes' = SubSeq(PipeBytes, n + 1, Len(PipeBytes))
<1>0. PipeTypeOK /\ pc[p] = "read_copy" /\ Copying(p) /\ CopyGoesOn(p, n, "read")
  BY DEF PipeInv, ReadCopy, At, Copying
<1>1. /\ n = left[p] /\ n \in Nat \ {0}
      /\ from[p] \in Int /\ 0 <= from[p] /\ from[p] + n <= PAGE_SIZE
      /\ Ahead("read_copy") = n /\ Ahead("write_copy") = 0
      /\ Ahead("read_copy")' = 0 /\ Ahead("write_copy")' = 0 /\ PIPE_SIZE' = PIPE_SIZE
  BY <1>0, CopyEnds
<1>2. /\ PAGE_SIZE \in Nat /\ PAGE_SIZE >= 2 /\ PIPE_SIZE \in Nat
      /\ tail \in Int /\ 0 <= tail /\ tail < PAGE_SIZE
  BY <1>0, SizeFacts
<1>3. tail = Wrap(from[p] + n)
  BY <1>0, <1>1 DEF PipeInv, Stretches
<1>4. /\ from[p] + n < PAGE_SIZE => tail = from[p] + n
      /\ from[p] + n = PAGE_SIZE => tail = 0
  <2>1. from[p] + n \in Int
    BY <1>1
  <2> QED
    BY <1>1, <1>2, <1>3, <2>1, WrapFacts
<1> DEFINE size == PIPE_SIZE + n
<1>5. PipeBytes = Span(tail - n, size)
  <2>1. PIPE_SIZE + n - 0 = size
    BY <1>1, <1>2
  <2> QED
    BY <1>1, <2>1, BytesAreSpan
<1>6. PipeBytes' = Span(tail, PIPE_SIZE)
  <2>1. PIPE_SIZE + 0 - 0 = PIPE_SIZE /\ tail - 0 = tail
    BY <1>2
  <2>2. tail' = tail /\ page' = page
    BY DEF ReadCopy, CopyGoesOn
  <2> QED
    BY <1>1, <2>1, <2>2, BytesNext DEF Span
<1>7. size \in Nat /\ tail - n \in Int
  BY <1>1, <1>2
<1> HIDE DEF size
<1>8. /\ PipeBytes \in Seq(Byte) /\ Len(PipeBytes) = size
      /\ \A i \in 1..size : PipeBytes[i] = page[Wrap(tail - n + i - 1)]
  BY <1>0, <1>5, <1>7, SpanFacts
<1>9. /\ PipeBytes' \in Seq(Byte) /\ Len(PipeBytes') = PIPE_SIZE
      /\ \A i \in 1..PIPE_SIZE : PipeBytes'[i] = page[Wrap(tail + i - 1)]
  BY <1>0, <1>2, <1>6, SpanFacts
<1>10. size = PIPE_SIZE + n
  BY DEF size
<1>11. delivered' = SubSeq(PipeBytes, 1, n)
  <2>1. \A i \in 1..n : Wrap(tail - n + i - 1) = from[p] + i - 1
    <3> SUFFICES ASSUME NEW i \in 1..n PROVE Wrap(tail - n + i - 1) = from[p] + i - 1
      OBVIOUS
    <3>1. tail - n + i - 1 \in Int /\ i \in Int /\ 1 <= i /\ i <= n
      BY <1>1, <1>2
    <3>2. CASE from[p] + n < PAGE_SIZE
      <4>1. tail - n + i - 1 = from[p] + i - 1 /\ from[p] + i - 1 \in Int
            /\ 0 <= from[p] + i - 1 /\ from[p] + i - 1 < PAGE_SIZE
        BY <1>1, <1>2, <1>4, <3>1, <3>2
      <4> QED
        BY <4>1, WrapFacts
    <3>3. CASE from[p] + n = PAGE_SIZE
      <4>1. -PAGE_SIZE <= tail - n + i - 1 /\ tail - n + i - 1 < 0
            /\ tail - n + i - 1 + PAGE_SIZE = from[p] + i - 1
        BY <1>1, <1>2, <1>4, <3>1, <3>3
      <4> QED
        BY <3>1, <4>1, WrapFacts
    <3> QED
      BY <1>1, <1>2, <3>2, <3>3
  <2>2. delivered' = [i \in 1..n |-> page[from[p] + i - 1]]
    BY DEF ReadCopy
  <2>3. \A i \in 1..n : PipeBytes[i] = page[from[p] + i - 1] /\ PipeBytes[i] \in Byte
    <3>1. \A i \in 1..n : i \in 1..size
      BY <1>1, <1>2, <1>10
    <3> QED
      BY <1>8, <2>1, <3>1, ElementOfSeq
  <2>4. delivered' \in [1..n -> Byte]
    BY <2>2, <2>3
  <2>5. delivered' \in Seq(Byte)
    BY <1>1, <2>4
  <2>6. DOMAIN delivered' = 1..n
    BY <2>2
  <2>7. Len(delivered') = n /\ \A i \in 1..n : delivered'[i] = PipeBytes[i]
    BY <1>1, <2>2, <2>3, <2>5, <2>6, LenProperties
  <2>8. /\ SubSeq(PipeBytes, 1, n) \in Seq(Byte)
        /\ Len(SubSeq(PipeBytes, 1, n)) = IF 1 <= n THEN n - 1 + 1 ELSE 0
        /\ \A i \in 1..n - 1 + 1 : SubSeq(PipeBytes, 1, n)[i] = PipeBytes[1 + i - 1]
    <3>1. n \in Int /\ 1 \in Int
      BY <1>1
    <3> HIDE DEF size
    <3> QED
      BY <2>3, <3>1, SubSeqProperties
  <2>9. /\ Len(SubSeq(PipeBytes, 1, n)) = n
        /\ \A i \in 1..n : SubSeq(PipeBytes, 1, n)[i] = PipeBytes[i]
    <3>1. 1 <= n /\ n - 1 + 1 = n /\ \A i \in 1..n : 1 + i - 1 = i
      BY <1>1
    <3> QED
      BY <2>8, <3>1
  <2> QED
    BY <2>5, <2>7, <2>8, <2>9, SeqEqual
<1>12. PipeBytes' = SubSeq(PipeBytes, n + 1, size)
  <2>1. /\ n + 1 \in Int /\ size \in Int /\ size - (n + 1) + 1 = PIPE_SIZE
        /\ \A i \in n + 1..size : i \in 1..size
    BY <1>1, <1>2, <1>10
  <2>2. \A i \in n + 1..size : PipeBytes[i] \in Byte
    BY <1>8, <2>1, ElementOfSeq
  <2>3. /\ SubSeq(PipeBytes, n + 1, size) \in Seq(Byte)
        /\ Len(SubSeq(PipeBytes, n + 1, size)) = IF n + 1 <= size THEN size - (n + 1) + 1 ELSE 0
        /\ \A i \in 1..size - (n + 1) + 1 :
             SubSeq(PipeBytes, n + 1, size)[i] = PipeBytes[n + 1 + i - 1]
    BY <2>1, <2>2, SubSeqProperties
  <2>4. Len(SubSeq(PipeBytes, n + 1, size)) = PIPE_SIZE
    BY <1>1, <1>2, <1>10, <2>1, <2>3
  <2>5. \A i \in 1..PIPE_SIZE : /\ n + 1 + i - 1 \in 1..size
                                /\ tail - n + (n + 1 + i - 1) - 1 = tail + i - 1
    BY <1>1, <1>2, <1>10
  <2>6. \A i \in 1..PIPE_SIZE : SubSeq(PipeBytes, n + 1, size)[i] = page[Wrap(tail + i - 1)]
    BY <1>8, <2>1, <2>3, <2>5
  <2> QED
    BY <1>9, <2>3, <2>4, <2>6, SeqEqual
<1>13. n \in 1..size
  BY <1>1, <1>2, <1>10
<1> QED
  BY <1>8, <1>11, <1>12, <1>13

\* A copy in leaves the bytes that were there, and puts others behind them.
LEMMA WriteCopyPuts ==
  ASSUME PipeInv, ~faults, NEW p \in Process, NEW n \in Copied(p), WriteCopy(p, n)
  PROVE  /\ PipeBytes' \in Seq(Byte)
         /\ Len(PipeBytes') \in Len(PipeBytes) + 1..PAGE_SIZE - 1
         /\ SubSeq(PipeBytes', 1, Len(PipeBytes)) = PipeBytes
         /\ delivered' = delivered
<1>0. PipeTypeOK /\ pc[p] = "write_copy" /\ Copying(p) /\ CopyGoesOn(p, n, "write")
  BY DEF PipeInv, WriteCopy, At, Copying
<1>1. /\ n = left[p] /\ n \in Nat \ {0}
      /\ from[p] \in Int /\ 0 <= from[p] /\ from[p] + n <= PAGE_SIZE
      /\ Ahead("read_copy") = 0 /\ Ahead("write_copy") = n
      /\ Ahead("read_copy")' = 0 /\ Ahead("write_copy")' = 0 /\ PIPE_SIZE' = PIPE_SIZE
  BY <1>0, CopyEnds
<1>2. /\ PAGE_SIZE \in Nat /\ PAGE_SIZE >= 2 /\ PIPE_SIZE \in 0..PAGE_SIZE - 1
      /\ tail \in Int /\ 0 <= tail /\ tail < PAGE_SIZE /\ head \in Int
      /\ 0 <= head /\ head < PAGE_SIZE
      /\ head >= tail => PIPE_SIZE = head - tail
      /\ head < tail  => PIPE_SIZE = head - tail + PAGE_SIZE
  BY <1>0, SizeFacts
<1>3. head = Wrap(from[p] + n) /\ n <= PIPE_SIZE
  BY <1>0, <1>1 DEF PipeInv, Stretches
<1>4. /\ from[p] + n < PAGE_SIZE => head = from[p] + n
      /\ from[p] + n = PAGE_SIZE => head = 0
  <2>1. from[p] + n \in Int
    BY <1>1
  <2> QED
    BY <1>1, <1>2, <1>3, <2>1, WrapFacts
<1> DEFINE size == PIPE_SIZE - n
<1>5. PipeBytes = Span(tail, size)
  <2>1. PIPE_SIZE + 0 - n = size /\ tail - 0 = tail
    BY <1>1, <1>2
  <2> QED
    BY <1>1, <2>1, BytesAreSpan
<1>6. size \in Nat /\ size = PIPE_SIZE - n
  BY <1>1, <1>2, <1>3
<1> HIDE DEF size
<1>7. /\ PipeBytes \in Seq(Byte) /\ Len(PipeBytes) = size
      /\ \A i \in 1..size : PipeBytes[i] = page[Wrap(tail + i - 1)]
  BY <1>0, <1>2, <1>5, <1>6, SpanFacts
<1>8. page' \in [Offset -> Byte]
  BY WriteCopyKeeps DEF PipeInv, PipeTypeOK
<1>9. PipeBytes' = [i \in 1..PIPE_SIZE |-> page'[Wrap(tail + i - 1)]]
  <2>1. PIPE_SIZE + 0 - 0 = PIPE_SIZE /\ tail - 0 = tail
    BY <1>2
  <2>2. tail' = tail
    BY <1>0 DEF CopyGoesOn
  <2> QED
    BY <1>1, <2>1, <2>2, BytesNext
<1>10. /\ PipeBytes' \in Seq(Byte) /\ Len(PipeBytes') = PIPE_SIZE
       /\ \A i \in 1..PIPE_SIZE : PipeBytes'[i] = page'[Wrap(tail + i - 1)]
  <2>1. \A i \in 1..PIPE_SIZE : page'[Wrap(tail + i - 1)] \in Byte
    BY <1>2, <1>8, WrapFacts
  <2>2. PipeBytes' \in [1..PIPE_SIZE -> Byte]
    BY <1>9, <2>1
  <2>3. PipeBytes' \in Seq(Byte)
    BY <1>2, <2>2
  <2>4. DOMAIN PipeBytes' = 1..PIPE_SIZE
    BY <1>9
  <2> QED
    BY <1>2, <1>9, <2>3, <2>4, LenProperties
<1>11. \A i \in Offset : i \notin from[p]..from[p] + n - 1 => page'[i] = page[i]
  BY DEF WriteCopy
<1>12. \A i \in 1..size : page'[Wrap(tail + i - 1)] = page[Wrap(tail + i - 1)]
  <2> SUFFICES ASSUME NEW i \in 1..size
               PROVE  page'[Wrap(tail + i - 1)] = page[Wrap(tail + i - 1)]
    OBVIOUS
  <2> DEFINE w == Wrap(tail + i - 1)
  <2>1. tail + i - 1 \in Int /\ i \in Int /\ 1 <= i /\ i <= size
    BY <1>2, <1>6
  <2>2. /\ w \in Offset
        /\ tail + i - 1 < PAGE_SIZE => w = tail + i - 1
        /\ tail + i - 1 >= PAGE_SIZE => w = tail + i - 1 - PAGE_SIZE
    BY <1>1, <1>2, <1>3, <1>6, <2>1, WrapFacts
  <2> HIDE DEF w
  <2>3. w \notin from[p]..from[p] + n - 1
    <3>1. w \in Int
      BY <1>2, <2>2 DEF Offset
    <3>2. CASE from[p] + n < PAGE_SIZE
      BY <1>1, <1>2, <1>3, <1>4, <1>6, <2>1, <2>2, <3>1, <3>2
    <3>3. CASE from[p] + n = PAGE_SIZE
      BY <1>1, <1>2, <1>3, <1>4, <1>6, <2>1, <2>2, <3>1, <3>3
    <3> QED
      BY <1>1, <1>2, <3>2, <3>3
  <2> QED
    BY <1>11, <2>2, <2>3 DEF w
<1>13. SubSeq(PipeBytes', 1, size) = PipeBytes
  <2>1. 1 \in Int /\ size \in Int /\ size - 1 + 1 = size
        /\ \A i \in 1..size : i \in 1..PIPE_SIZE /\ 1 + i - 1 = i
    BY <1>1, <1>2, <1>6
  <2>2. \A i \in 1..size : PipeBytes'[i] \in Byte
    BY <1>10, <2>1, ElementOfSeq
  <2> DEFINE b == PipeBytes'
  <2>3. \A i \in 1..size : b[i] \in Byte
    BY <2>2
  <2> HIDE DEF b
  <2>4. /\ SubSeq(b, 1, size) \in Seq(Byte)
        /\ Len(SubSeq(b, 1, size)) = IF 1 <= size THEN size - 1 + 1 ELSE 0
        /\ \A i \in 1..size - 1 + 1 : SubSeq(b, 1, size)[i] = b[1 + i - 1]
    BY <2>1, <2>3, SubSeqProperties
  <2>5. Len(SubSeq(b, 1, size)) = size
    BY <1>6, <2>1, <2>4
  <2>6. \A i \in 1..size : SubSeq(b, 1, size)[i] = PipeBytes[i]
    BY <1>7, <1>10, <1>12, <2>1, <2>4 DEF b
  <2> QED
    BY <1>7, <2>4, <2>5, <2>6, SeqEqual DEF b
<1>14. PIPE_SIZE \in size + 1..PAGE_SIZE - 1
  BY <1>1, <1>2, <1>6
<1>15. delivered' = delivered
  BY DEF WriteCopy
<1> QED
  BY <1>7, <1>10, <1>13, <1>14, <1>15

\* A wake-up moves no bytes.
LEMMA WakeUpRests ==
  ASSUME PipeInv, ~faults, NEW p \in Process, NEW label \in {"user", "read_sleep", "write_sleep"},
         WakeUp(p, label), \A q \in Process : ~Copying(q), UNCHANGED <<ringVars, delivered>>
  PROVE  UNCHANGED <<PipeBytes, delivered>>
<1>1. /\ pc' \in [Process -> PipeLabel] /\ pc'[p] = label
      /\ \A q \in Process \ {p} : pc'[q] = CASE pc[q] = "read_sleep" -> "read"
                                             [] pc[q] = "write_sleep" -> "write"
                                             [] OTHER -> pc[q]
  BY WakeUpFacts DEF PipeLabel, PipeInv
<1>2. \A q \in Process : ~Copying(q)'
  BY <1>1 DEF Copying
<1> QED
  BY <1>2, NothingMoves DEF PipeInv, ringVars

\* What a step of the pipe does to its bytes.
LEMMA PipeMoves ==
  ASSUME PipeInv, PipeNext, ~faults
  PROVE  \/ \E n \in 1..Len(PipeBytes) : /\ delivered' = SubSeq(PipeBytes, 1, n)
                                         /\ PipeBytes' = SubSeq(PipeBytes, n + 1, Len(PipeBytes))
         \/ /\ PipeBytes' \in Seq(Byte)
            /\ Len(PipeBytes') \in Len(PipeBytes) + 1..PAGE_SIZE - 1
            /\ SubSeq(PipeBytes', 1, Len(PipeBytes)) = PipeBytes
            /\ delivered' = delivered
         \/ UNCHANGED <<PipeBytes, delivered>>
<1>1. PICK p \in Process : \/ InKernel(p)
                           \/ \E end \in End : Call(p, end) \/ sys_close(p, end)
  BY DEF PipeNext
<1>2. ASSUME Returns(p), \A q \in Process : ~Copying(q)
      PROVE  UNCHANGED <<PipeBytes, delivered>>
  BY <1>2, WakeUpRests DEF Returns
<1>3. ASSUME NEW label \in {"read_sleep", "write_sleep"}, SleepsIn(p, label),
             \A q \in Process : ~Copying(q)
      PROVE  UNCHANGED <<PipeBytes, delivered>>
  BY <1>3, WakeUpRests DEF SleepsIn
<1>4. CASE read_pipe(p)
  <2>1. /\ pc[p] = "read" /\ \A q \in Process : ~Copying(q)
        /\ \/ Returns(p)
           \/ SleepsIn(p, "read_sleep") /\ PIPE_SIZE = 0 /\ i_count = 2
           \/ \E n \in 1..count[p] : n <= PIPE_SIZE /\ tail + n <= PAGE_SIZE /\ TakeTail(p, n)
    BY <1>4, RoundsOfReading
  <2>2. ASSUME NEW n \in 1..count[p], n <= PIPE_SIZE, tail + n <= PAGE_SIZE, TakeTail(p, n)
        PROVE  UNCHANGED <<PipeBytes, delivered>>
    BY <2>1, <2>2, TakeTailStutters DEF TakeTail, TakeStretch
  <2> QED
    BY <1>2, <1>3, <2>1, <2>2
<1>5. CASE write_pipe(p)
  <2>1. /\ pc[p] = "write" /\ \A q \in Process : ~Copying(q)
        /\ \/ Returns(p)
           \/ SleepsIn(p, "write_sleep") /\ Room = 0 /\ i_count = 2
           \/ \E n \in 1..count[p] : /\ PIPE_SIZE + n < PAGE_SIZE /\ head + n <= PAGE_SIZE
                                     /\ TakeHead(p, n)
    BY <1>5, RoundsOfWriting
  <2>2. ASSUME NEW n \in 1..count[p], PIPE_SIZE + n < PAGE_SIZE, head + n <= PAGE_SIZE,
               TakeHead(p, n)
        PROVE  UNCHANGED <<PipeBytes, delivered>>
    BY <2>1, <2>2, TakeHeadStutters DEF TakeHead, TakeStretch
  <2> QED
    BY <1>2, <1>3, <2>1, <2>2
<1>6. CASE \E n \in Copied(p) : ReadCopy(p, n)
  BY <1>6, ReadCopyGets
<1>7. CASE \E n \in Copied(p) : WriteCopy(p, n)
  BY <1>7, WriteCopyPuts
<1>8. ASSUME NEW end \in End, Call(p, end)
      PROVE  UNCHANGED <<PipeBytes, delivered>>
  <2>1. \A q \in Process : ~Copying(q)
    BY <1>8 DEF Call, At, Runs, Copying
  <2>2. pc' = [pc EXCEPT ![p] = end]
    BY <1>8 DEF Call, GoTo
  <2>3. \A q \in Process : ~Copying(q)'
    BY <2>1, <2>2 DEF PipeInv, PipeTypeOK, Copying, End
  <2> QED
    BY <1>8, <2>1, <2>3, NothingMoves DEF Call, ringVars, PipeInv
<1>9. ASSUME NEW end \in End, sys_close(p, end)
      PROVE  UNCHANGED <<PipeBytes, delivered>>
  <2>1. \A q \in Process : ~Copying(q)
    BY <1>9 DEF sys_close, At, Runs, Copying
  <2>2. CASE UNCHANGED pc
    <3>1. \A q \in Process : ~Copying(q)'
      BY <2>1, <2>2 DEF Copying
    <3> QED
      BY <1>9, <2>1, <3>1, NothingMoves DEF sys_close, ringVars, PipeInv
  <2>3. CASE WakeUp(p, "user")
    BY <1>9, <2>1, <2>3, WakeUpRests DEF sys_close
  <2> QED
    BY <1>9, <2>2, <2>3 DEF sys_close
<1> QED
  BY <1>1, <1>4, <1>5, <1>6, <1>7, <1>8, <1>9 DEF InKernel

(* Folds *)

\* What holds for 0, and for m + 1 where it holds for m, holds for all numbers.
LEMMA Climb ==
  ASSUME NEW n \in Nat, NEW Good, 0 \in Good, \A m \in 0..n - 1 : m \in Good => m + 1 \in Good
  PROVE  \A m \in 0..n : m \in Good
<1> SUFFICES ASSUME NEW bad \in 0..n, bad \notin Good PROVE FALSE
  OBVIOUS
<1> DEFINE T == {m \in 0..n : m \notin Good}
<1>1. T \subseteq Nat /\ T # {}
  OBVIOUS
<1>2. PICK m \in T : \A l \in T : ~(<<l, m>> \in OpToRel(<, Nat))
  BY <1>1, NatLessThanWellFounded, WFMin
<1>3. m # 0 /\ m - 1 \in 0..n - 1 /\ m - 1 \in 0..n /\ m - 1 < m /\ m - 1 \in Nat /\ m \in Nat
      /\ m - 1 + 1 = m
  OBVIOUS
<1>4. m - 1 \in Good
  BY <1>2, <1>3 DEF OpToRel
<1> QED
  BY <1>3, <1>4

\* The greatest of a set of numbers.
LEMMA MaxIs ==
  ASSUME NEW t \in SUBSET Int, NEW x \in t, \A y \in t : x >= y
  PROVE  Max(t) = x
<1>1. Max(t) \in t /\ \A y \in t : Max(t) >= y
  BY DEF Max
<1>2. Max(t) >= x /\ x >= Max(t) /\ Max(t) \in Int /\ x \in Int
  BY <1>1
<1> QED
  BY <1>2

\* What FoldLeft() computes on the way, as the recursive function of its definition:
\* g[t] is the result for the elements of s at t.
Folds(g, m, F, base, s) ==
  \A t \in SUBSET (1..m) : t # {} =>
    Max(t) \in t /\ g[t] = F[<<g[t \ {Max(t)}], s[Max(t)]>>]

\* There is such a function.
LEMMA FoldExists ==
  ASSUME NEW Q, NEW C, NEW base \in Q, NEW s \in Seq(C), NEW F \in [Q \X C -> Q]
  PROVE  \E g \in [SUBSET (1..Len(s)) -> Q] : g[{}] = base /\ Folds(g, Len(s), F, base, s)
<1> DEFINE Exists(m) == \E g \in [SUBSET (1..m) -> Q] : g[{}] = base /\ Folds(g, m, F, base, s)
           n == Len(s)
           Good == {m \in 0..n : Exists(m)}
<1>0. n \in Nat
  BY LenProperties
<1>1. 0 \in Good
  <2>1. SUBSET (1..0) = {{}}
    OBVIOUS
  <2>2. [t \in SUBSET (1..0) |-> base] \in [SUBSET (1..0) -> Q]
    OBVIOUS
  <2>3. Exists(0)
    BY <2>1, <2>2 DEF Folds
  <2> HIDE DEF Exists
  <2> QED
    BY <1>0, <2>3
<1>2. ASSUME NEW m \in 0..n - 1, m \in Good PROVE m + 1 \in Good
  <2>1. PICK g \in [SUBSET (1..m) -> Q] : g[{}] = base /\ Folds(g, m, F, base, s)
    BY <1>2
  <2>2. m \in Nat /\ m + 1 \in 1..n /\ m + 1 \in Nat
    BY <1>0
  <2>3. s[m + 1] \in C
    BY <2>2, ElementOfSeq
  <2> DEFINE h == [t \in SUBSET (1..m + 1) |->
                     IF t \subseteq 1..m THEN g[t] ELSE F[<<g[t \ {m + 1}], s[m + 1]>>]]
  <2>4. \A t \in SUBSET (1..m + 1) : t \ {m + 1} \in SUBSET (1..m)
    BY <2>2
  <2>5. h \in [SUBSET (1..m + 1) -> Q]
    BY <2>3, <2>4
  <2>6. h[{}] = base
    BY <2>1
  <2>7. ASSUME NEW t \in SUBSET (1..m + 1), t # {}
        PROVE  Max(t) \in t /\ h[t] = F[<<h[t \ {Max(t)}], s[Max(t)]>>]
    <3>1. CASE t \subseteq 1..m
      <4>1. Max(t) \in t /\ g[t] = F[<<g[t \ {Max(t)}], s[Max(t)]>>]
        BY <2>1, <2>7, <3>1 DEF Folds
      <4>2. t \ {Max(t)} \in SUBSET (1..m) /\ t \ {Max(t)} \in SUBSET (1..m + 1)
        BY <2>7, <3>1
      <4> QED
        BY <3>1, <4>1, <4>2
    <3>2. CASE ~(t \subseteq 1..m)
      <4>1. m + 1 \in t /\ \A y \in t : y \in Int /\ m + 1 >= y
        BY <2>2, <3>2
      <4>2. Max(t) = m + 1
        BY <4>1, MaxIs
      <4>3. t \ {m + 1} \in SUBSET (1..m) /\ t \ {m + 1} \in SUBSET (1..m + 1)
        BY <2>4
      <4>4. h[t] = F[<<g[t \ {m + 1}], s[m + 1]>>] /\ h[t \ {m + 1}] = g[t \ {m + 1}]
        BY <3>2, <4>3
      <4> QED
        BY <4>1, <4>2, <4>4
    <3> QED
      BY <3>1, <3>2
  <2> HIDE DEF h
  <2>8. Folds(h, m + 1, F, base, s)
    BY <2>7 DEF Folds
  <2>9. Exists(m + 1)
    BY <2>5, <2>6, <2>8
  <2> QED
    BY <2>2, <2>9
<1> HIDE DEF Good
<1>3. n \in Good
  <2>1. \A m \in 0..n : m \in Good
    BY <1>0, <1>1, <1>2, Climb
  <2> QED
    BY <1>0, <2>1
<1> QED
  BY <1>3 DEF Good

\* "it" is such a function, as long as it stays in Q.
FoldsIn(it, Q, C, F, base, s) ==
  /\ it[{}] = base
  /\ \A t \in SUBSET (1..Len(s)) :
       t # {} /\ it[t \ {Max(t)}] \in Q /\ s[Max(t)] \in C =>
         it[t] = F[<<it[t \ {Max(t)}], s[Max(t)]>>]

\* The results for the first m elements of s, one after the other.
Chained(it, Q, F, base, s) ==
  \E r \in [0..Len(s) -> Q] :
    /\ r[0] = base
    /\ \A m \in 1..Len(s) : r[m] = F[<<r[m - 1], s[m]>>]
    /\ it[1..Len(s)] = r[Len(s)]

\* Then FoldLeft() over s is the last of a chain of results, one for each element.
LEMMA FoldChain ==
  ASSUME NEW Q, NEW C, NEW base \in Q, NEW s \in Seq(C), NEW F \in [Q \X C -> Q], NEW it,
         FoldsIn(it, Q, C, F, base, s)
  PROVE  Chained(it, Q, F, base, s)
<1> USE DEF FoldsIn
<1> DEFINE n == Len(s)
<1>0. n \in Nat
  BY LenProperties
<1>1. ASSUME NEW m \in 1..n, it[1..m - 1] \in Q
      PROVE  it[1..m] = F[<<it[1..m - 1], s[m]>>]
  <2>0. m \in Int /\ 1 <= m /\ m <= n /\ s[m] \in C
    BY <1>0, ElementOfSeq
  <2>1. 1..m \in SUBSET (1..n) /\ 1..m # {} /\ (1..m) \ {m} = 1..m - 1
    <3>1. \A i \in 1..m : i # m => i \in 1..m - 1
      BY <2>0
    <3>2. \A i \in 1..m - 1 : i # m /\ i \in 1..m
      BY <2>0
    <3>3. \A i \in 1..m : i \in 1..n
      BY <1>0, <2>0
    <3>4. m \in 1..m
      BY <2>0
    <3> QED
      BY <3>1, <3>2, <3>3, <3>4, Zenon
  <2>2. Max(1..m) = m
    <3>1. 1..m \in SUBSET Int /\ m \in 1..m /\ \A y \in 1..m : m >= y
      BY <2>0
    <3> QED
      BY <3>1, MaxIs
  <2> QED
    BY <1>1, <2>0, <2>1, <2>2
<1>2. it[1..0] = base
  <2>1. 1..0 = {}
    OBVIOUS
  <2> QED
    BY <2>1
<1> DEFINE r == [m \in 0..n |-> it[1..m]]
           Good == {m \in 0..n : it[1..m] \in Q}
<1>3. \A m \in 0..n : m \in Good
  <2>1. 0 \in Good
    BY <1>0, <1>2
  <2>2. ASSUME NEW m \in 0..n - 1, m \in Good PROVE m + 1 \in Good
    <3>1. m + 1 \in 1..n /\ m + 1 - 1 = m /\ m + 1 \in 0..n
      BY <1>0
    <3>2. s[m + 1] \in C /\ it[1..m] \in Q
      BY <2>2, <3>1, ElementOfSeq
    <3>3. it[1..m + 1] = F[<<it[1..m], s[m + 1]>>]
      BY <1>1, <3>1, <3>2
    <3> QED
      BY <3>1, <3>2, <3>3
  <2> HIDE DEF Good
  <2> QED
    BY <1>0, <2>1, <2>2, Climb
<1>4. r \in [0..n -> Q] /\ r[0] = base
  BY <1>0, <1>2, <1>3
<1>5. \A m \in 1..n : m \in 0..n /\ m - 1 \in 0..n
  BY <1>0
<1>6. \A m \in 1..n : r[m] = F[<<r[m - 1], s[m]>>]
  BY <1>1, <1>3, <1>5
<1>7. it[1..n] = r[n]
  BY <1>0
<1> QED
  BY <1>4, <1>6, <1>7 DEF Chained

(* Terminals: counting the ends of lines *)

\* Where lines end, and how many do.
Ends(s) == {i \in DOMAIN s : EndsLine(s[i])}
LineEnds(s) == Cardinality(Ends(s))

\* Line ends can be counted.
LEMMA EndsAreFinite ==
  ASSUME NEW s \in Seq(Char)
  PROVE  IsFiniteSet(Ends(s)) /\ LineEnds(s) \in Nat
<1>0. Len(s) \in Int /\ DOMAIN s = 1..Len(s)
  BY LenProperties
<1>1. IsFiniteSet(1..Len(s)) /\ Ends(s) \in SUBSET (1..Len(s))
  BY <1>0, FS_Interval DEF Ends
<1> QED
  BY <1>1, FS_Subset, FS_CardinalityType DEF LineEnds

\* An empty queue has none.
LEMMA EndsOfEmpty == LineEnds(<<>>) = 0
<1>1. Ends(<<>>) = {}
  BY DEF Ends
<1> QED
  BY <1>1, FS_EmptySet DEF LineEnds

\* A character that goes in counts when it ends a line.
LEMMA EndsOfAppend ==
  ASSUME NEW s \in Seq(Char), NEW c \in Char
  PROVE  LineEnds(Append(s, c)) = IF EndsLine(c) THEN LineEnds(s) + 1 ELSE LineEnds(s)
<1> DEFINE n == Len(s)
           a == Append(s, c)
<1>1. /\ n \in Nat /\ DOMAIN s = 1..n /\ a \in Seq(Char) /\ DOMAIN a = 1..n + 1
      /\ \A i \in 1..n : a[i] = s[i]
      /\ a[n + 1] = c
  BY LenProperties, AppendProperties
<1> HIDE DEF a
<1>2. Ends(s) = {i \in 1..n : EndsLine(s[i])} /\ Ends(a) = {i \in 1..n + 1 : EndsLine(a[i])}
  BY <1>1 DEF Ends
<1>3. n + 1 \notin Ends(s)
  BY <1>1, <1>2
<1>4. Ends(a) = IF EndsLine(c) THEN Ends(s) \cup {n + 1} ELSE Ends(s)
  <2>1. \A i \in 1..n + 1 : i # n + 1 => i \in 1..n
    BY <1>1
  <2>2. n + 1 \in 1..n + 1 /\ n + 1 \notin 1..n /\ \A i \in 1..n : i \in 1..n + 1
    BY <1>1
  <2> QED
    BY <1>1, <1>2, <2>1, <2>2
<1> QED
  BY <1>3, <1>4, EndsAreFinite, FS_AddElement DEF LineEnds, a

\* A character that is erased does not count: it ends no line.
LEMMA EndsOfFront ==
  ASSUME NEW s \in Seq(Char), s # <<>>, ~EndsLine(Last(s))
  PROVE  /\ Front(s) \in Seq(Char) /\ Len(Front(s)) = Len(s) - 1
         /\ LineEnds(Front(s)) = LineEnds(s)
<1> DEFINE n == Len(s)
           f == SubSeq(s, 1, n - 1)
<1>1. n \in Nat \ {0} /\ DOMAIN s = 1..n
  BY LenProperties, EmptySeq
<1>2. \A i \in 1..n - 1 : s[i] \in Char
  BY <1>1, ElementOfSeq
<1>3. n - 1 \in Int /\ n - 1 - 1 + 1 = n - 1 /\ \A i \in 1..n - 1 : 1 + i - 1 = i
  BY <1>1
<1>4. /\ f \in Seq(Char) /\ Len(f) = (IF 1 <= n - 1 THEN n - 1 - 1 + 1 ELSE 0)
      /\ \A i \in 1..n - 1 - 1 + 1 : f[i] = s[1 + i - 1]
  BY <1>2, <1>3, SubSeqProperties
<1>5. Len(f) = n - 1 /\ \A i \in 1..n - 1 : f[i] = s[i]
  BY <1>1, <1>3, <1>4
<1>6. DOMAIN f = 1..n - 1
  BY <1>4, <1>5, LenProperties
<1> HIDE DEF f
<1>7. Ends(f) = Ends(s)
  <2>0. n \in Nat \ {0}
    BY <1>1
  <2> HIDE DEF n
  <2>1. \A i \in 1..n : i # n => i \in 1..n - 1
    BY <2>0
  <2>2. \A i \in 1..n - 1 : i \in 1..n
    BY <2>0
  <2>3. Ends(f) = {i \in 1..n - 1 : EndsLine(s[i])}
    BY <1>5, <1>6 DEF Ends
  <2>4. Ends(s) = {i \in 1..n : EndsLine(s[i])} /\ ~EndsLine(s[n])
    BY <1>1 DEF Ends, Last, n
  <2> QED
    BY <2>1, <2>2, <2>3, <2>4
<1> QED
  BY <1>4, <1>5, <1>7 DEF LineEnds, Front, f

\* A character that is read counts when it ends a line.
LEMMA EndsOfTail ==
  ASSUME NEW s \in Seq(Char), s # <<>>
  PROVE  LineEnds(s) = IF EndsLine(Head(s)) THEN LineEnds(Tail(s)) + 1 ELSE LineEnds(Tail(s))
<1> DEFINE n == Len(s)
           t == Tail(s)
           later == {i \in 2..n : EndsLine(s[i])}
           f == [i \in Ends(t) |-> i + 1]
<1>1. n \in Nat \ {0} /\ DOMAIN s = 1..n
  BY LenProperties, EmptySeq
<1>2. /\ t \in Seq(Char) /\ DOMAIN t = 1..n - 1
      /\ \A i \in 1..n - 1 : t[i] = s[i + 1]
      /\ Head(s) = s[1]
  BY LenProperties, HeadTailProperties
<1> HIDE DEF t
<1>3. Ends(t) = {i \in 1..n - 1 : EndsLine(s[i + 1])} /\ Ends(s) = {i \in 1..n : EndsLine(s[i])}
  BY <1>1, <1>2 DEF Ends
<1>4. f \in Bijection(Ends(t), later)
  <2>1. \A i \in Ends(t) : i \in Int /\ f[i] = i + 1 /\ f[i] \in later
    BY <1>1, <1>3
  <2>2. \A i, j \in Ends(t) : f[i] = f[j] => i = j
    BY <2>1
  <2>3. \A k \in later : k - 1 \in Ends(t) /\ f[k - 1] = k
    <3>1. \A k \in later : k \in Int /\ k - 1 \in 1..n - 1 /\ k - 1 + 1 = k /\ EndsLine(s[k])
      BY <1>1
    <3>2. \A k \in later : k - 1 \in Ends(t)
      BY <1>3, <3>1
    <3> QED
      BY <2>1, <3>1, <3>2
  <2>4. f \in [Ends(t) -> later]
    BY <2>1
  <2> HIDE DEF f, later
  <2> QED
    BY <2>2, <2>3, <2>4 DEF Bijection, Injection, Surjection, IsInjective
<1>5. IsFiniteSet(later) /\ Cardinality(later) = LineEnds(t) /\ LineEnds(t) \in Nat
  BY <1>2, <1>4, EndsAreFinite, FS_Bijection DEF ExistsBijection, LineEnds
<1>6. 1 \notin later
  OBVIOUS
<1>7. Ends(s) = IF EndsLine(s[1]) THEN later \cup {1} ELSE later
  <2>1. \A i \in 1..n : i # 1 => i \in 2..n
    BY <1>1
  <2>2. 1 \in 1..n /\ \A i \in 2..n : i \in 1..n
    BY <1>1
  <2> QED
    BY <1>3, <2>1, <2>2
<1> HIDE DEF later
<1> QED
  BY <1>2, <1>5, <1>6, <1>7, FS_AddElement DEF LineEnds, t

(* Terminals: what copy_to_cooked() does to the queues *)

\* What fits into a queue.
Buf == {q \in Seq(Char) : Len(q) <= Size}

\* The queues while copy_to_cooked() works on them.
Cooking == [rest : Seq(Char), secondary : Buf, data : Int, write_q : Buf,
            ier : BOOLEAN, interrupted : BOOLEAN]

\* A queue has room.
LEMMA SizeIs == Size \in Nat /\ Size >= 1
BY TtyAssumption DEF Size

\* PUTCH leaves a queue, and puts the character behind it when there is room.
LEMMA PutFacts ==
  ASSUME NEW w \in Buf, NEW c \in Char
  PROVE  /\ PUTCH(c, w) \in Buf
         /\ ~Full(w) => /\ PUTCH(c, w) = Append(w, c) /\ Append(w, c) \in Buf
                        /\ Len(Append(w, c)) = Len(w) + 1
<1>1. w \in Seq(Char) /\ Len(w) \in Nat /\ Len(w) <= Size
  BY LenProperties DEF Buf
<1>2. <<>> \in Buf
  BY EmptySeq, SizeIs DEF Buf
<1>3. Append(w, c) \in Seq(Char) /\ Len(Append(w, c)) = Len(w) + 1
  BY <1>1, AppendProperties
<1>4. ~Full(w) => Len(w) + 1 <= Size
  BY <1>1, SizeIs DEF Full, Left
<1> QED
  BY <1>1, <1>2, <1>3, <1>4 DEF PUTCH, Buf

\* What Echo() does to write_q.
PutAll(w, cs) == FoldLeft(LAMBDA queue, c : PUTCH(c, queue), w, cs)

\* Echoing leaves a queue.
LEMMA PutAllTyped ==
  ASSUME NEW w \in Buf, NEW s \in Seq(Char)
  PROVE  PutAll(w, s) \in Buf
<1> DEFINE n == Len(s)
           F == [x \in Buf \X Char |-> PUTCH(x[2], x[1])]
<1>0. n \in Nat /\ DOMAIN s = 1..n
  BY LenProperties
<1>1. F \in [Buf \X Char -> Buf] /\ \A q \in Buf, c \in Char : F[<<q, c>>] = PUTCH(c, q)
  BY PutFacts
<1> HIDE DEF F
<1>2. PICK g \in [SUBSET (1..n) -> Buf] : g[{}] = w /\ Folds(g, n, F, w, s)
  BY <1>1, FoldExists
<1> DEFINE body(h) == [t \in SUBSET DOMAIN s |->
                        IF t = {} THEN w ELSE PUTCH(s[Max(t)], h[t \ {Max(t)}])]
           it == CHOOSE h : h = body(h)
<1>3. ASSUME NEW t \in SUBSET (1..n), t # {}
      PROVE  g[t] = PUTCH(s[Max(t)], g[t \ {Max(t)}])
  <2>1. Max(t) \in 1..n /\ g[t] = F[<<g[t \ {Max(t)}], s[Max(t)]>>]
    BY <1>2, <1>3 DEF Folds
  <2>2. s[Max(t)] \in Char /\ g[t \ {Max(t)}] \in Buf
    BY <2>1, ElementOfSeq
  <2> QED
    BY <1>1, <2>1, <2>2
<1>4. g = body(g)
  BY <1>0, <1>2, <1>3
<1>5. it = body(it)
  BY <1>4
<1>6. PutAll(w, s) = it[1..n]
  BY <1>0 DEF PutAll, FoldLeft, MapThenFoldSet
<1> HIDE DEF it
<1>7. it[{}] = w /\ \A t \in SUBSET (1..n) : t # {} => it[t] = PUTCH(s[Max(t)], it[t \ {Max(t)}])
  BY <1>0, <1>5
<1>8. \A t \in SUBSET (1..n) : t # {} /\ it[t \ {Max(t)}] \in Buf /\ s[Max(t)] \in Char =>
        it[t] = F[<<it[t \ {Max(t)}], s[Max(t)]>>]
  BY <1>1, <1>7
<1>9. FoldsIn(it, Buf, Char, F, w, s)
  BY <1>7, <1>8 DEF FoldsIn
<1>10. Chained(it, Buf, F, w, s)
  BY <1>1, <1>9, FoldChain
<1> QED
  BY <1>0, <1>6, <1>10 DEF Chained

\* What editing changes: what is typed stays where it is, but for what is erased,
\* and the line is told of what is shown.
EditedTo(q, k) ==
  /\ k \in Cooking
  /\ k.rest = q.rest /\ k.interrupted = q.interrupted /\ k.data = q.data
  /\ LineEnds(k.secondary) = LineEnds(q.secondary)
  /\ q.ier => k.ier
  /\ k.ier \/ k.write_q = <<>> \/ k.write_q = q.write_q

\* Editing goes on.
LEMMA EditedTwice ==
  ASSUME NEW q, NEW k, NEW l, EditedTo(q, k), EditedTo(k, l)
  PROVE  EditedTo(q, l)
BY DEF EditedTo

\* An echo touches only write_q, and lets the line interrupt.
LEMMA EchoFacts ==
  ASSUME NEW q \in Cooking, NEW s \in Seq(Char)
  PROVE  /\ EditedTo(q, Echo(q, s)) /\ Echo(q, s).secondary = q.secondary
         /\ "ECHO" \notin lflag => Echo(q, s) = q
<1>1. CASE "ECHO" \notin lflag
  BY <1>1 DEF Echo, EditedTo
<1>2. CASE "ECHO" \in lflag
  <2> DEFINE w == PutAll(q.write_q, s)
             i == w # <<>>
             k == [q EXCEPT !.write_q = w, !.ier = @ \/ i]
  <2>1. Echo(q, s) = k
    BY <1>2 DEF Echo, PutAll
  <2>2. w \in Buf /\ i \in BOOLEAN
    BY PutAllTyped DEF Cooking
  <2>3. i \/ w = <<>>
    OBVIOUS
  <2> HIDE DEF w, i
  <2>4. /\ k \in Cooking /\ k.rest = q.rest /\ k.secondary = q.secondary /\ k.data = q.data
        /\ k.write_q = w /\ k.ier = (q.ier \/ i) /\ k.interrupted = q.interrupted
    BY <2>2 DEF Cooking
  <2> HIDE DEF k
  <2> QED
    BY <1>2, <2>1, <2>3, <2>4 DEF EditedTo
<1> QED
  BY <1>1, <1>2

\* Taking back a character that ends no line is editing.
LEMMA BackFacts ==
  ASSUME NEW q \in Cooking, ~AtStart(q)
  PROVE  EditedTo(q, Back(q))
<1> DEFINE c == Last(q.secondary)
           s == IF Len(Shown(c)) = 2 THEN <<"del", "del">> ELSE <<"del">>
           e == Echo(q, s)
           k == [e EXCEPT !.secondary = Front(@)]
<1>1. Back(q) = k
  BY DEF Back
<1>2. s \in Seq(Char)
  <2>1. "del" \in Char
    BY DEF Char
  <2> QED
    BY <2>1
<1> HIDE DEF s
<1>3. EditedTo(q, e) /\ e.secondary = q.secondary
  BY <1>2, EchoFacts
<1> HIDE DEF e
<1>4. e \in Cooking
  BY <1>3 DEF EditedTo
<1>5. /\ q.secondary \in Seq(Char) /\ Len(q.secondary) <= Size
      /\ q.secondary # <<>> /\ ~EndsLine(Last(q.secondary))
  BY DEF Cooking, Buf, AtStart
<1> DEFINE f == Front(q.secondary)
<1>6. f \in Seq(Char) /\ Len(f) = Len(q.secondary) - 1 /\ LineEnds(f) = LineEnds(q.secondary)
  BY <1>5, EndsOfFront
<1>7. f \in Buf
  BY <1>5, <1>6, SizeIs, LenProperties DEF Buf
<1>8. k = [e EXCEPT !.secondary = f]
  BY <1>3
<1> HIDE DEF f, k
<1>9. /\ k \in Cooking /\ k.rest = e.rest /\ k.secondary = f /\ k.data = e.data
      /\ k.write_q = e.write_q /\ k.ier = e.ier /\ k.interrupted = e.interrupted
  BY <1>4, <1>7, <1>8 DEF Cooking
<1> QED
  BY <1>1, <1>3, <1>6, <1>9 DEF EditedTo

\* So is erasing a character
LEMMA ErasedFacts ==
  ASSUME NEW q \in Cooking
  PROVE  EditedTo(q, Erased(q))
<1>1. EditedTo(q, q)
  BY DEF EditedTo
<1> QED
  BY <1>1, BackFacts DEF Erased

\* and erasing a line: as many characters as there are.
LEMMA KilledFacts ==
  ASSUME NEW q \in Cooking
  PROVE  EditedTo(q, Killed(q))
<1> DEFINE s == q.secondary
           n == Len(s)
           Q == {k \in Cooking : EditedTo(q, k)}
           F == [x \in Q \X Char |-> Erased(x[1])]
<1>0. s \in Seq(Char) /\ n \in Nat /\ DOMAIN s = 1..n
  BY LenProperties DEF Cooking, Buf
<1>1. \A k \in Q : Erased(k) \in Q
  <2> SUFFICES ASSUME NEW k \in Q PROVE Erased(k) \in Q
    OBVIOUS
  <2>1. EditedTo(q, k) /\ EditedTo(k, Erased(k))
    BY ErasedFacts
  <2>2. EditedTo(q, Erased(k))
    BY <2>1, EditedTwice
  <2> QED
    BY <2>2 DEF EditedTo
<1>2. q \in Q
  BY DEF EditedTo
<1> HIDE DEF Q
<1>3. F \in [Q \X Char -> Q] /\ \A k \in Q, c \in Char : F[<<k, c>>] = Erased(k)
  BY <1>1
<1> HIDE DEF F
<1>4. PICK g \in [SUBSET (1..n) -> Q] : g[{}] = q /\ Folds(g, n, F, q, s)
  BY <1>0, <1>2, <1>3, FoldExists
<1> DEFINE step(k) == IF AtStart(k) THEN k ELSE Back(k)
           body(h) == [t \in SUBSET DOMAIN s |->
                        IF t = {} THEN q ELSE step(h[t \ {Max(t)}])]
           it == CHOOSE h : h = body(h)
<1>5. Killed(q) = it[1..n]
  BY <1>0 DEF Killed, FoldLeft, MapThenFoldSet
<1>6. \A k : step(k) = Erased(k)
  BY DEF Erased
<1> HIDE DEF step
<1>7. ASSUME NEW t \in SUBSET (1..n), t # {}
      PROVE  g[t] = step(g[t \ {Max(t)}])
  <2>1. Max(t) \in 1..n /\ g[t] = F[<<g[t \ {Max(t)}], s[Max(t)]>>]
    BY <1>4, <1>7 DEF Folds
  <2>2. s[Max(t)] \in Char /\ g[t \ {Max(t)}] \in Q
    BY <1>0, <2>1, ElementOfSeq
  <2> QED
    BY <1>3, <1>6, <2>1, <2>2
<1>8. g = body(g)
  BY <1>0, <1>4, <1>7
<1>9. it = body(it)
  BY <1>8
<1> HIDE DEF it
<1>10. it[{}] = q /\ \A t \in SUBSET (1..n) : t # {} => it[t] = step(it[t \ {Max(t)}])
  BY <1>0, <1>9
<1>11. \A t \in SUBSET (1..n) : t # {} /\ it[t \ {Max(t)}] \in Q /\ s[Max(t)] \in Char =>
         it[t] = F[<<it[t \ {Max(t)}], s[Max(t)]>>]
  BY <1>3, <1>6, <1>10
<1>12. FoldsIn(it, Q, Char, F, q, s)
  BY <1>10, <1>11 DEF FoldsIn
<1>13. Chained(it, Q, F, q, s)
  BY <1>0, <1>2, <1>3, <1>12, FoldChain
<1>14. it[1..n] \in Q
  BY <1>0, <1>13 DEF Chained
<1> QED
  BY <1>5, <1>14 DEF Q

\* A character behind the second queue is behind both.
LEMMA ConcatAppend ==
  ASSUME NEW S, NEW s \in Seq(S), NEW t \in Seq(S), NEW c \in S
  PROVE  s \o Append(t, c) = Append(s \o t, c)
<1>1. <<c>> \in Seq(S)
  OBVIOUS
<1>2. s \o t \in Seq(S)
  BY ConcatProperties
<1>3. Append(t, c) = t \o <<c>> /\ Append(s \o t, c) = (s \o t) \o <<c>>
  BY <1>2, AppendIsConcat
<1> QED
  BY <1>1, <1>3, ConcatAssociative

\* What one round of copy_to_cooked() does.
CookedTo(q, c, k) ==
  /\ k \in Cooking
  /\ Len(k.rest) <= Len(q.rest) + 1
  /\ q.ier => k.ier
  /\ k.ier \/ k.write_q = <<>> \/ k.write_q = q.write_q
  /\ k.data - LineEnds(k.secondary) = q.data - LineEnds(q.secondary)
  /\ lflag = {} => /\ k.secondary \o k.rest = Append(q.secondary \o q.rest, c)
                   /\ k.write_q = q.write_q /\ k.ier = q.ier
  /\ "ICANON" \notin lflag \/ c \notin {"erase", "kill"} => Len(k.secondary) >= Len(q.secondary)

\* Editing is a round of copy_to_cooked().
LEMMA EditedIsCooked ==
  ASSUME NEW q \in Cooking, NEW c \in {"erase", "kill"}, NEW k, EditedTo(q, k), "ICANON" \in lflag
  PROVE  CookedTo(q, c, k)
<1>1. Len(q.rest) \in Nat /\ k.rest = q.rest
  BY LenProperties DEF Cooking, EditedTo
<1>2. Len(k.rest) <= Len(q.rest) + 1
  BY <1>1
<1>3. lflag # {} /\ ~("ICANON" \notin lflag \/ c \notin {"erase", "kill"})
  OBVIOUS
<1> QED
  BY <1>2, <1>3, Zenon DEF CookedTo, EditedTo

\* What is echoed are characters.
LEMMA ShownTyped ==
  ASSUME NEW c \in Char
  PROVE  Shown(c) \in Seq(Char)
<1>1. "nl" \in Char /\ "cr" \in Char /\ "^" \in Char
  BY DEF Char, Key
<1>2. <<"nl", "cr">> \in Seq(Char) /\ <<"^", c>> \in Seq(Char) /\ <<c>> \in Seq(Char)
  BY <1>1
<1>3. Shown(c) \in {<<"nl", "cr">>, <<"^", c>>, <<c>>}
  BY DEF Shown
<1> QED
  BY <1>2, <1>3

\* Each round of copy_to_cooked().
LEMMA CookFacts ==
  ASSUME NEW q \in Cooking, NEW c \in Char
  PROVE  CookedTo(q, c, Cook(q, c))
<1>0. /\ q.rest \in Seq(Char) /\ Len(q.rest) \in Nat
      /\ q.secondary \in Seq(Char) /\ Len(q.secondary) \in Nat /\ q.secondary \in Buf
      /\ q.data \in Int
  BY LenProperties DEF Cooking, Buf
<1>1. CASE q.rest # <<>> \/ Full(q.secondary)
  <2> DEFINE r == Append(q.rest, c)
             k == [q EXCEPT !.rest = r]
  <2>1. Cook(q, c) = k
    BY <1>1 DEF Cook
  <2>2. r \in Seq(Char) /\ Len(r) = Len(q.rest) + 1
    BY <1>0, AppendProperties
  <2>2a. q.secondary \o r = Append(q.secondary \o q.rest, c)
    <3>1. q.rest \in Seq(Char) /\ q.secondary \in Seq(Char)
      BY <1>0
    <3>2. PICK a \in Seq(Char), b \in Seq(Char) : a = q.secondary /\ b = q.rest
      BY <3>1
    <3>3. a \o Append(b, c) = Append(a \o b, c)
      BY ConcatAppend
    <3> QED
      BY <3>2, <3>3
  <2> HIDE DEF r
  <2>3. /\ k \in Cooking /\ k.rest = r /\ k.secondary = q.secondary /\ k.data = q.data
        /\ k.write_q = q.write_q /\ k.ier = q.ier
    BY <2>2 DEF Cooking
  <2> HIDE DEF k
  <2>4. Len(k.rest) <= Len(q.rest) + 1 /\ Len(k.secondary) >= Len(q.secondary)
    BY <1>0, <2>2, <2>3
  <2> QED
    BY <2>1, <2>2a, <2>3, <2>4, Zenon DEF CookedTo
<1>2. CASE ~(q.rest # <<>> \/ Full(q.secondary)) /\ c = "kill" /\ "ICANON" \in lflag
  BY <1>2, KilledFacts, EditedIsCooked DEF Cook
<1>3. CASE ~(q.rest # <<>> \/ Full(q.secondary)) /\ c = "erase" /\ "ICANON" \in lflag
  BY <1>3, ErasedFacts, EditedIsCooked DEF Cook
<1>4. CASE ~(q.rest # <<>> \/ Full(q.secondary)) /\ c = "intr" /\ "ISIG" \in lflag
  <2> DEFINE k == [q EXCEPT !.interrupted = TRUE]
  <2>1. Cook(q, c) = k
    BY <1>4 DEF Cook
  <2>2. /\ k \in Cooking /\ k.rest = q.rest /\ k.secondary = q.secondary /\ k.data = q.data
        /\ k.write_q = q.write_q /\ k.ier = q.ier
    BY DEF Cooking
  <2> HIDE DEF k
  <2>3. Len(k.rest) <= Len(q.rest) + 1 /\ Len(k.secondary) >= Len(q.secondary)
    BY <1>0, <2>2
  <2>4. lflag # {}
    BY <1>4
  <2> QED
    BY <2>1, <2>2, <2>3, <2>4, Zenon DEF CookedTo
<1>5. CASE /\ ~(q.rest # <<>> \/ Full(q.secondary))
           /\ ~(c = "kill" /\ "ICANON" \in lflag)
           /\ ~(c = "erase" /\ "ICANON" \in lflag)
           /\ ~(c = "intr" /\ "ISIG" \in lflag)
  <2>1. Cook(q, c) = Cooked(q, c)
    BY <1>5, Zenon DEF Cook
  <2> DEFINE e == Echo(q, Shown(c))
             d == IF EndsLine(c) THEN q.data + 1 ELSE q.data
             s == Append(q.secondary, c)
             k == [e EXCEPT !.data = d, !.secondary = s]
  <2>2. Shown(c) \in Seq(Char)
    BY ShownTyped
  <2>3. EditedTo(q, e) /\ e.secondary = q.secondary /\ ("ECHO" \notin lflag => e = q)
    BY <2>2, EchoFacts
  <2> HIDE DEF e
  <2>4. e \in Cooking /\ e.data = q.data /\ e.rest = q.rest
    BY <2>3 DEF EditedTo
  <2>5. /\ PUTCH(c, q.secondary) = s /\ s \in Buf /\ Len(s) = Len(q.secondary) + 1
        /\ LineEnds(s) = (IF EndsLine(c) THEN LineEnds(q.secondary) + 1 ELSE LineEnds(q.secondary))
    BY <1>0, <1>5, PutFacts, EndsOfAppend
  <2>6. Cooked(q, c) = k
    BY <2>3, <2>4, <2>5 DEF Cooked, e
  <2>7. d \in Int /\ LineEnds(q.secondary) \in Nat
    BY <1>0, EndsAreFinite
  <2>8. d - LineEnds(s) = q.data - LineEnds(q.secondary)
    BY <1>0, <2>5, <2>7
  <2>9. q.rest = <<>> /\ s \o q.rest = s /\ q.secondary \o q.rest = q.secondary
    BY <1>0, <1>5, <2>5, ConcatEmptySeq DEF Buf
  <2>10. s = Append(q.secondary, c)
    OBVIOUS
  <2> HIDE DEF d, s
  <2>11. /\ k \in Cooking /\ k.rest = q.rest /\ k.secondary = s /\ k.data = d
         /\ k.write_q = e.write_q /\ k.ier = e.ier
    BY <2>4, <2>5, <2>7 DEF Cooking
  <2> HIDE DEF k
  <2>12. lflag = {} => /\ k.secondary \o k.rest = Append(q.secondary \o q.rest, c)
                       /\ k.write_q = q.write_q /\ k.ier = q.ier
    BY <2>3, <2>9, <2>10, <2>11
  <2>13. Len(k.secondary) >= Len(q.secondary) /\ Len(k.rest) <= Len(q.rest) + 1
    BY <1>0, <2>5, <2>11
  <2>14. (q.ier => k.ier) /\ (k.ier \/ k.write_q = <<>> \/ k.write_q = q.write_q)
    BY <2>3, <2>11 DEF EditedTo
  <2>15. CookedTo(q, c, k)
    BY <2>8, <2>11, <2>12, <2>13, <2>14 DEF CookedTo
  <2> QED
    BY <2>1, <2>6, <2>15
<1> QED
  BY <1>1, <1>2, <1>3, <1>4, <1>5

\* The rounds, one after the other.
LEMMA FoldCook ==
  ASSUME NEW b \in Cooking, NEW s \in Seq(Char)
  PROVE  \E r \in [0..Len(s) -> Cooking] :
           /\ r[0] = b
           /\ \A m \in 1..Len(s) : CookedTo(r[m - 1], s[m], r[m])
           /\ FoldLeft(Cook, b, s) = r[Len(s)]
<1> DEFINE n == Len(s)
           F == [x \in Cooking \X Char |-> Cook(x[1], x[2])]
<1>0. n \in Nat /\ DOMAIN s = 1..n
  BY LenProperties
<1>1. \A q \in Cooking, c \in Char : Cook(q, c) \in Cooking
  BY CookFacts DEF CookedTo
<1>2. F \in [Cooking \X Char -> Cooking] /\ \A q \in Cooking, c \in Char : F[<<q, c>>] = Cook(q, c)
  BY <1>1
<1> HIDE DEF F
<1>3. PICK g \in [SUBSET (1..n) -> Cooking] : g[{}] = b /\ Folds(g, n, F, b, s)
  BY <1>2, FoldExists
<1> DEFINE body(h) == [t \in SUBSET DOMAIN s |->
                        IF t = {} THEN b ELSE Cook(h[t \ {Max(t)}], s[Max(t)])]
           it == CHOOSE h : h = body(h)
<1>4. ASSUME NEW t \in SUBSET (1..n), t # {}
      PROVE  g[t] = Cook(g[t \ {Max(t)}], s[Max(t)])
  <2>1. Max(t) \in 1..n /\ g[t] = F[<<g[t \ {Max(t)}], s[Max(t)]>>]
    BY <1>3, <1>4 DEF Folds
  <2>2. s[Max(t)] \in Char /\ g[t \ {Max(t)}] \in Cooking
    BY <2>1, ElementOfSeq
  <2> QED
    BY <1>2, <2>1, <2>2
<1>5. g = body(g)
  BY <1>0, <1>3, <1>4
<1>6. it = body(it)
  BY <1>5
<1>7. FoldLeft(Cook, b, s) = it[1..n]
  BY <1>0 DEF FoldLeft, MapThenFoldSet
<1> HIDE DEF it
<1>8. it[{}] = b /\ \A t \in SUBSET (1..n) : t # {} => it[t] = Cook(it[t \ {Max(t)}], s[Max(t)])
  BY <1>0, <1>6
<1>9. FoldsIn(it, Cooking, Char, F, b, s)
  BY <1>2, <1>8 DEF FoldsIn
<1>10. Chained(it, Cooking, F, b, s)
  BY <1>2, <1>9, FoldChain
<1>11. PICK r \in [0..n -> Cooking] :
         /\ r[0] = b
         /\ \A m \in 1..n : r[m] = F[<<r[m - 1], s[m]>>]
         /\ it[1..n] = r[n]
  BY <1>10 DEF Chained
<1>12. ASSUME NEW m \in 1..n PROVE CookedTo(r[m - 1], s[m], r[m])
  <2>1. m - 1 \in 0..n
    BY <1>0
  <2>2. r[m - 1] \in Cooking /\ s[m] \in Char
    BY <2>1, ElementOfSeq
  <2>3. r[m] = Cook(r[m - 1], s[m])
    BY <1>2, <1>11, <2>2
  <2> QED
    BY <2>2, <2>3, CookFacts
<1> QED
  BY <1>7, <1>11, <1>12

\* What copy_to_cooked() has done when it has seen the keys.
CopiedTo(keys, q) ==
  /\ q \in Cooking
  /\ Len(q.rest) <= Len(keys)
  /\ ier => q.ier
  /\ q.ier \/ q.write_q = <<>> \/ q.write_q = write_q
  /\ q.data - LineEnds(q.secondary) = data - LineEnds(secondary)
  /\ lflag = {} => /\ q.secondary \o q.rest = secondary \o keys
                   /\ q.write_q = write_q /\ q.ier = ier
  /\ "ICANON" \notin lflag \/ {"erase", "kill"} \cap ToSet(keys) = {} =>
       Len(q.secondary) >= Len(secondary)

\* All rounds together: by induction along the chain.
LEMMA CopyFacts ==
  ASSUME Queues \in Cooking, NEW keys \in Seq(Char)
  PROVE  CopiedTo(keys, FoldLeft(Cook, Queues, keys))
<1> DEFINE n == Len(keys)
           Still == "ICANON" \notin lflag \/ {"erase", "kill"} \cap ToSet(keys) = {}
<1>0. /\ n \in Nat /\ DOMAIN keys = 1..n /\ data \in Int
      /\ secondary \in Seq(Char) /\ Len(secondary) \in Nat
      /\ LineEnds(secondary) \in Nat
  <2>1. secondary \in Buf /\ data \in Int
    BY DEF Queues, Cooking
  <2>2. secondary \in Seq(Char)
    BY <2>1 DEF Buf
  <2> QED
    BY <2>1, <2>2, LenProperties, EndsAreFinite
<1>1. PICK r \in [0..n -> Cooking] :
        /\ r[0] = Queues
        /\ \A m \in 1..n : CookedTo(r[m - 1], keys[m], r[m])
        /\ FoldLeft(Cook, Queues, keys) = r[n]
  BY FoldCook
<1> DEFINE SoFar(m) ==
             /\ Len(r[m].rest) <= m
             /\ ier => r[m].ier
             /\ r[m].ier \/ r[m].write_q = <<>> \/ r[m].write_q = write_q
             /\ r[m].data - LineEnds(r[m].secondary) = data - LineEnds(secondary)
             /\ lflag = {} => /\ r[m].secondary \o r[m].rest = secondary \o SubSeq(keys, 1, m)
                              /\ r[m].write_q = write_q /\ r[m].ier = ier
             /\ Still => Len(r[m].secondary) >= Len(secondary)
           Good == {m \in 0..n : SoFar(m)}
<1>2. 0 \in Good
  <2>1. /\ r[0].rest = <<>> /\ r[0].secondary = secondary /\ r[0].data = data
        /\ r[0].write_q = write_q /\ r[0].ier = ier
    BY <1>1 DEF Queues
  <2>2. SubSeq(keys, 1, 0) = <<>> /\ Len(<<>>) = 0
    BY SubSeqEmpty, EmptySeq
  <2>3. Len(secondary) >= Len(secondary) /\ 0 \in 0..n
    BY <1>0
  <2> HIDE DEF Still
  <2>4. SoFar(0)
    BY <2>1, <2>2, <2>3
  <2> QED
    BY <2>3, <2>4
<1>3. ASSUME NEW m \in 0..n - 1, m \in Good PROVE m + 1 \in Good
  <2> DEFINE q == r[m]
             k == r[m + 1]
             c == keys[m + 1]
  <2>0. m \in Nat /\ m + 1 \in 1..n /\ m + 1 \in 0..n /\ m \in 0..n /\ m + 1 - 1 = m
    BY <1>0
  <2>1. c \in Char /\ CookedTo(q, c, k) /\ SoFar(m) /\ q \in Cooking /\ k \in Cooking
    <3>1. c \in Char
      BY <2>0, ElementOfSeq
    <3>2. CookedTo(r[m + 1 - 1], keys[m + 1], r[m + 1])
      BY <1>1, <2>0
    <3>3. CookedTo(q, c, k) /\ q \in Cooking /\ k \in Cooking
      BY <2>0, <3>2
    <3>4. SoFar(m)
      <4> HIDE DEF SoFar
      <4> QED
        BY <1>3
    <3> QED
      BY <3>1, <3>3, <3>4
  <2> HIDE DEF Still
  <2>2. /\ Len(q.rest) \in Nat /\ Len(k.rest) \in Nat /\ q.rest \in Seq(Char)
        /\ Len(q.secondary) \in Nat /\ Len(k.secondary) \in Nat /\ q.secondary \in Seq(Char)
    BY <2>1, LenProperties DEF Cooking, Buf
  <2>3. Len(k.rest) <= m + 1
    BY <2>0, <2>1, <2>2 DEF CookedTo
  <2>4. (ier => k.ier) /\ (k.ier \/ k.write_q = <<>> \/ k.write_q = write_q)
    BY <2>1 DEF CookedTo
  <2>5. k.data - LineEnds(k.secondary) = data - LineEnds(secondary)
    BY <2>1 DEF CookedTo
  <2>6. lflag = {} => /\ k.secondary \o k.rest = secondary \o SubSeq(keys, 1, m + 1)
                      /\ k.write_q = write_q /\ k.ier = ier
    <3> SUFFICES ASSUME lflag = {}
                 PROVE  k.secondary \o k.rest = secondary \o SubSeq(keys, 1, m + 1)
      BY <2>1 DEF CookedTo
    <3>1. k.secondary \o k.rest = Append(secondary \o SubSeq(keys, 1, m), c)
      BY <2>1 DEF CookedTo
    <3> DEFINE front == SubSeq(keys, 1, m)
    <3>2. front \in Seq(Char)
      <4>1. \A i \in 1..m : keys[i] \in Char
        BY <1>0, <2>0, ElementOfSeq
      <4>2. 1 \in Int /\ m \in Int
        BY <2>0
      <4> QED
        BY <4>1, <4>2, SubSeqProperties
    <3>3. SubSeq(keys, 1, m + 1) = Append(front, c)
      <4>1. 1 \in 1..n /\ m + 1 \in 1..n
        BY <1>0, <2>0
      <4>2. SubSeq(keys, 1, m + 1) = SubSeq(keys, 1, m + 1 - 1) \o <<keys[m + 1]>>
        BY <4>1, SubSeqRecursiveSecond
      <4> QED
        BY <2>0, <2>1, <3>2, <4>2, AppendIsConcat
    <3> HIDE DEF front, c
    <3>4. secondary \o Append(front, c) = Append(secondary \o front, c)
      <4>1. secondary \in Seq(Char) /\ c \in Char
        BY <1>0, <2>1
      <4> QED
        BY <3>2, <4>1, ConcatAppend
    <3> QED
      BY <3>1, <3>3, <3>4 DEF front
  <2>7. Still => Len(k.secondary) >= Len(secondary)
    <3> SUFFICES ASSUME Still PROVE Len(k.secondary) >= Len(secondary)
      OBVIOUS
    <3>1. "ICANON" \notin lflag \/ c \notin {"erase", "kill"}
      <4>1. c \in ToSet(keys)
        BY <1>0, <2>0 DEF ToSet
      <4> QED
        BY <4>1 DEF Still
    <3>2. Len(k.secondary) >= Len(q.secondary)
      BY <2>1, <3>1 DEF CookedTo
    <3> QED
      BY <1>0, <2>1, <2>2, <3>2
  <2>8. SoFar(m + 1)
    BY <2>3, <2>4, <2>5, <2>6, <2>7
  <2> HIDE DEF SoFar
  <2> QED
    BY <2>0, <2>8
<1> HIDE DEF SoFar, Still
<1>4. SoFar(n)
  <2>1. \A m \in 0..n : m \in Good
    <3> HIDE DEF Good
    <3> QED
      BY <1>0, <1>2, <1>3, Climb
  <2>2. n \in 0..n
    BY <1>0
  <2> QED
    BY <2>1, <2>2
<1>5. SubSeq(keys, 1, n) = keys
  BY SubSeqFull
<1>6. r[n] \in Cooking
  BY <1>0
<1> QED
  BY <1>1, <1>4, <1>5, <1>6 DEF SoFar, CopiedTo, Still

(* Terminals: every step keeps the invariant *)

\* How the terminal is used.
LEMMA UseFacts ==
  ASSUME use \in DOMAIN Uses
  PROVE  /\ Use.lflag \subseteq Flag /\ Use.opost \in BOOLEAN /\ Use.vmin \in Nat
         /\ Use.keys \subseteq Key /\ Use.counts \subseteq 1..MaxCount
         /\ \A t \in Use.texts : t \in Seq(Char) /\ t # <<>>
<1>1. Use \in {Uses[name] : name \in DOMAIN Uses}
  BY DEF Use
<1>2. \A t \in Use.texts : t \in Seq({"a", "b", "nl"}) /\ t # <<>>
  BY <1>1, TtyAssumption
<1>3. {"a", "b", "nl"} \subseteq Char
  BY DEF Char, Key
<1>4. \A t \in Use.texts : t \in Seq(Char)
  BY <1>2, <1>3, SeqMonotonic
<1> QED
  BY <1>1, <1>2, <1>4, TtyAssumption

\* The queues.
LEMMA BuffersTyped ==
  ASSUME TtyTypeOK
  PROVE  read_q \in Buf /\ secondary \in Buf /\ write_q \in Buf
BY DEF TtyTypeOK, Buf

\* Empty queues, with nobody in the kernel.
LEMMA TtyStarts ==
  ASSUME Init, kind = "tty"
  PROVE  TtyInv
<1> USE DEF Init, StreamInit, TtyInit
<1>1. use \in DOMAIN Uses /\ lflag = Use.lflag /\ lflag \subseteq Flag
  BY UseFacts
<1>2. <<>> \in Seq(Char) /\ Len(<<>>) = 0
  BY EmptySeq
<1>3. TtyTypeOK
  <2>0. <<>> \in Seq(Char) /\ Len(<<>>) <= Size
    BY <1>2, SizeIs
  <2>1. \A q \in {read_q, secondary, write_q} : q \in Seq(Char) /\ Len(q) <= Size
    BY <2>0
  <2>2. pc \in [Process -> TtyLabel] /\ need \in [Process -> Nat] /\ signal \in [Process -> BOOLEAN]
    BY DEF TtyLabel
  <2>3. \A p \in Process : text[p] \in Seq(Char)
    BY <1>2
  <2>4. sent \in Seq(Char) /\ Len(sent) <= 1 /\ data \in Int
    BY <1>2
  <2>5. proc_list \in [Queue -> SUBSET Process] /\ tmp \in [Process -> SUBSET Process]
    OBVIOUS
  <2> QED
    BY <1>1, <2>1, <2>2, <2>3, <2>4, <2>5 DEF TtyTypeOK
<1>4. Typed
  BY <1>1, <1>2, <1>3 DEF Typed, Plain
<1>5. Calling /\ Sleeping /\ Chains
  BY DEF Calling, Sleeping, InWrite, Chains, Chain, Caller, Reading, Writing, Queue, Asleep
<1>6. LinesInv
  <2>1. LinesAreCounted
    BY EndsOfEmpty DEF LinesAreCounted, LineEnds, Ends
  <2>2. sent \o write_q = <<>>
    BY <1>2, ConcatEmptySeq
  <2>3. NewlinesReturn /\ ReturnsLast
    BY <2>2 DEF NewlinesReturn, ReturnsLast
  <2> QED
    BY <2>1, <2>3 DEF LinesInv
<1> QED
  BY <1>4, <1>5, <1>6 DEF TtyInv

\* The line ends depend on these queues only.
LEMMA LinesStay ==
  ASSUME LinesInv, UNCHANGED <<use, secondary, data, write_q, sent, cr_flag>>
  PROVE  LinesInv'
BY DEF LinesInv, LinesAreCounted, NewlinesReturn, ReturnsLast, Plain, Use

\* Nobody lies down, and who has not got up is named as before.
LEMMA ChainsStay ==
  ASSUME Chains, UNCHANGED <<use, proc_list>>, \A p \in Process : Caller(p)',
         \A p \in Process : pc'[p] \in {"read_sleep", "write_sleep"} => pc'[p] = pc[p],
         \A p \in Process : /\ pc[p] \in {"read_sleep", "read_woken"} =>
                                  pc'[p] \in {"read_sleep", "read_woken"}
                            /\ pc[p] \in {"write_sleep", "write_woken"} =>
                                  pc'[p] \in {"write_sleep", "write_woken"},
         proc_list \in [Queue -> SUBSET Process]
  PROVE  Chains'
<1> USE DEF Chains
<1>1. ASSUME NEW p \in Process, NEW queue \in Queue PROVE Alone(p, queue)' <=> Alone(p, queue)
  BY DEF Alone, Use
<1>2. Chain("read")'
  <2>1. Chain("read")
    BY DEF Queue
  <2> QED
    BY <1>1, <2>1 DEF Chain, Queue, Asleep, Woken
<1>3. Chain("write")'
  <2>1. Chain("write")
    BY DEF Queue
  <2> QED
    BY <1>1, <2>1 DEF Chain, Queue, Asleep, Woken
<1> QED
  BY <1>2, <1>3 DEF Queue

\* p is the only one that makes such calls: nobody else is in one.
LEMMA AloneFacts ==
  ASSUME Chains, NEW p \in Process, NEW queue \in Queue, Alone(p, queue),
         NEW q \in Process, q # p
  PROVE  /\ queue = "read" => ~Reading(q)
         /\ queue = "write" => ~Writing(q)
BY DEF Chains, Caller, Alone

\* Nobody wakes, and nobody lies down.
LEMMA NothingWakes ==
  ASSUME Chains, UNCHANGED <<pc, use, proc_list>>
  PROVE  Chains'
BY DEF Chains, Chain, Caller, Reading, Writing, Alone, Use

\* p goes to a label where it may be, and the queues stay.
LEMMA GoingKeeps ==
  ASSUME TtyInv, NEW p \in Process, NEW label \in TtyLabel,
         GoTo(p, label), text' \in [Process -> Seq(Char)],
         \A q \in Process \ {p} : text'[q] = text[q],
         need' \in [Process -> Nat], signal' \in [Process -> BOOLEAN],
         UNCHANGED <<delivered, read_q, secondary, data, write_q, cr_flag, sent, use, lflag>>,
         UNCHANGED sleepVars, pc[p] \notin Resting, label \notin Resting,
         ier' \in BOOLEAN, ier => ier', Caller(p)',
         pc[p] \in Busy /\ write_q # <<>> => ier',
         label \in InWrite => text'[p] # <<>>,
         label = "read_getch" /\ Safe => secondary # <<>>,
         label = "write_putch" /\ Plain => ~Full(write_q)
  PROVE  TtyInv'
<1> USE DEF TtyInv
<1>1. pc \in [Process -> TtyLabel] /\ pc' = [pc EXCEPT ![p] = label]
  BY DEF Typed, TtyTypeOK, GoTo
<1>2. pc' \in [Process -> TtyLabel] /\ pc'[p] = label /\ \A q \in Process \ {p} : pc'[q] = pc[q]
  BY <1>1
<1>3. Use' = Use /\ (Plain' <=> Plain) /\ (Safe' <=> Safe) /\ (Full(write_q)' <=> Full(write_q))
  BY DEF Use, Plain, Safe, Full, Left
<1>4. TtyTypeOK'
  BY <1>2 DEF Typed, TtyTypeOK, sleepVars
<1>5. Typed'
  BY <1>3, <1>4 DEF Typed
<1>6. Calling'
  BY <1>2, <1>3 DEF Calling
<1>7. Sleeping'
  <2>1. proc_list["read"] \subseteq Process /\ proc_list["write"] \subseteq Process
    BY DEF Typed, TtyTypeOK, Queue
  <2> QED
    BY <1>2, <1>3, <2>1 DEF Sleeping, Resting, sleepVars
<1>8. LinesInv'
  BY LinesStay
<1>9. Chains'
  <2>1. \A q \in Process : Caller(q)'
    BY <1>2, <1>3 DEF Chains, Caller, Reading, Writing
  <2> QED
    BY <1>2, <2>1, ChainsStay DEF Typed, TtyTypeOK, Resting, sleepVars
<1> QED
  BY <1>5, <1>6, <1>7, <1>8, <1>9

\* p goes on, and nothing else changes.
LEMMA TtyGoesToKeeps ==
  ASSUME TtyInv, NEW p \in Process, NEW label \in TtyLabel, TtyGoesTo(p, label),
         pc[p] \notin Busy \cup Resting, label \notin Resting, Caller(p)',
         label \in InWrite => text[p] # <<>>,
         label = "read_getch" => secondary # <<>>,
         label = "write_putch" => ~Full(write_q)
  PROVE  TtyInv'
<1>1. GoTo(p, label) /\ UNCHANGED <<delivered, read_q, secondary, data, write_q, cr_flag, ier, sent,
                                    use, lflag, need, text, signal, sleepVars>>
  BY DEF TtyGoesTo, ttyVars, queueVars
<1>2. /\ text' \in [Process -> Seq(Char)] /\ need' \in [Process -> Nat]
      /\ signal' \in [Process -> BOOLEAN] /\ ier' \in BOOLEAN
  BY <1>1 DEF TtyInv, Typed, TtyTypeOK
<1> QED
  BY <1>1, <1>2, GoingKeeps

\* A call returns.
LEMMA TtyReturnsKeeps ==
  ASSUME TtyInv, NEW p \in Process, TtyReturns(p), pc[p] \notin Busy \cup Resting
  PROVE  TtyInv'
<1>1. GoTo(p, "user") /\ UNCHANGED <<delivered, read_q, secondary, data, write_q, cr_flag, ier, sent,
                                     use, lflag, sleepVars>>
  BY DEF TtyReturns, queueVars
<1>2. /\ text' = [text EXCEPT ![p] = <<>>] /\ need' = [need EXCEPT ![p] = 0]
      /\ signal' = [signal EXCEPT ![p] = FALSE]
  BY DEF TtyReturns
<1>3. /\ text \in [Process -> Seq(Char)] /\ need \in [Process -> Nat]
      /\ signal \in [Process -> BOOLEAN] /\ ier \in BOOLEAN /\ <<>> \in Seq(Char)
  BY EmptySeq DEF TtyInv, Typed, TtyTypeOK
<1>4. /\ text' \in [Process -> Seq(Char)] /\ need' \in [Process -> Nat]
      /\ signal' \in [Process -> BOOLEAN] /\ ier' \in BOOLEAN
      /\ \A q \in Process \ {p} : text'[q] = text[q]
  BY <1>1, <1>2, <1>3
<1>5. "user" \in TtyLabel \ (InWrite \cup Resting)
  BY DEF TtyLabel, InWrite, Resting
<1>6. Caller(p)'
  <2>1. pc' = [pc EXCEPT ![p] = "user"] /\ pc \in [Process -> TtyLabel]
    BY <1>1 DEF GoTo, TtyInv, Typed, TtyTypeOK
  <2> QED
    BY <2>1 DEF Caller, Reading, Writing
<1> QED
  BY <1>1, <1>4, <1>5, <1>6, GoingKeeps

\* A process calls tty_read().
LEMMA TtyReadKeeps ==
  ASSUME TtyInv, NEW p \in Process, TtyRead(p)
  PROVE  TtyInv'
<1>1. PICK n \in Use.counts : need' = [need EXCEPT ![p] = IF Use.vmin < n THEN Use.vmin ELSE n]
  BY DEF TtyRead
<1>2. use \in DOMAIN Uses /\ need \in [Process -> Nat] /\ MaxCount \in Nat
  BY StreamAssumption DEF TtyInv, Typed, TtyTypeOK
<1>3. Use.vmin \in Nat /\ n \in Nat
  BY <1>2, UseFacts
<1>4. need' \in [Process -> Nat]
  BY <1>1, <1>2, <1>3
<1>5. GoTo(p, "read") /\ pc[p] = "user" /\ UNCHANGED <<delivered, read_q, secondary, data, write_q,
                                    cr_flag, ier, sent, use, lflag, text, signal, sleepVars>>
  BY DEF TtyRead, TtyAt, queueVars
<1>6. text' \in [Process -> Seq(Char)] /\ signal' \in [Process -> BOOLEAN] /\ ier' \in BOOLEAN
  BY <1>5 DEF TtyInv, Typed, TtyTypeOK
<1>7. "read" \in TtyLabel \ (InWrite \cup Resting)
  BY DEF TtyLabel, InWrite, Resting
<1>8. Caller(p)'
  <2>1. pc' = [pc EXCEPT ![p] = "read"] /\ pc \in [Process -> TtyLabel]
    BY <1>5 DEF GoTo, TtyInv, Typed, TtyTypeOK
  <2>2. "read" \in Use.calls[p] /\ Use' = Use
    BY <1>5 DEF TtyRead, Use
  <2> QED
    BY <2>1, <2>2 DEF Caller, Reading, Writing
<1> QED
  BY <1>4, <1>5, <1>6, <1>7, <1>8, GoingKeeps DEF Busy, Resting

\* A process calls tty_write().
LEMMA TtyWriteKeeps ==
  ASSUME TtyInv, NEW p \in Process, TtyWrite(p)
  PROVE  TtyInv'
<1>1. PICK t \in Use.texts : text' = [text EXCEPT ![p] = t]
  BY DEF TtyWrite
<1>2. use \in DOMAIN Uses /\ text \in [Process -> Seq(Char)]
  BY DEF TtyInv, Typed, TtyTypeOK
<1>3. t \in Seq(Char) /\ t # <<>>
  BY <1>2, UseFacts
<1>4. text' \in [Process -> Seq(Char)] /\ text'[p] # <<>> /\ \A q \in Process \ {p} : text'[q] = text[q]
  BY <1>1, <1>2, <1>3
<1>5. GoTo(p, "write") /\ pc[p] = "user" /\ UNCHANGED <<delivered, read_q, secondary, data, write_q,
                                    cr_flag, ier, sent, use, lflag, need, signal, sleepVars>>
  BY DEF TtyWrite, TtyAt, queueVars
<1>6. need' \in [Process -> Nat] /\ signal' \in [Process -> BOOLEAN] /\ ier' \in BOOLEAN
  BY <1>5 DEF TtyInv, Typed, TtyTypeOK
<1>7. "write" \in TtyLabel \ Resting
  BY DEF TtyLabel, Resting
<1>8. Caller(p)'
  <2>1. pc' = [pc EXCEPT ![p] = "write"] /\ pc \in [Process -> TtyLabel]
    BY <1>5 DEF GoTo, TtyInv, Typed, TtyTypeOK
  <2>2. "write" \in Use.calls[p] /\ Use' = Use
    BY <1>5 DEF TtyWrite, Use
  <2> QED
    BY <2>1, <2>2 DEF Caller, Reading, Writing
<1> QED
  BY <1>4, <1>5, <1>6, <1>7, <1>8, GoingKeeps DEF Busy, Resting

\* How the state of somebody may change when a task is made runnable.
GetsUp(old, new) == \/ new = old
                    \/ old = "read_sleep" /\ new = "read_woken"
                    \/ old = "write_sleep" /\ new = "write_woken"

\* Those who are made runnable, and the others.
LEMMA WakeFacts ==
  ASSUME pc \in [Process -> TtyLabel], NEW who \in SUBSET Process
  PROVE  /\ MadeRunning(who) \in [Process -> TtyLabel]
         /\ \A q \in Process : GetsUp(pc[q], MadeRunning(who)[q])
         /\ \A q \in who : MadeRunning(who)[q] \notin {"read_sleep", "write_sleep"}
         /\ \A q \in Process \ who : MadeRunning(who)[q] = pc[q]
<1>1. "read_woken" \in TtyLabel /\ "write_woken" \in TtyLabel
  BY DEF TtyLabel
<1>2. /\ DOMAIN Woken = {"read_sleep", "write_sleep"}
      /\ Woken["read_sleep"] = "read_woken" /\ Woken["write_sleep"] = "write_woken"
  BY DEF Woken
<1> HIDE DEF Woken
<1>3. \A q \in Process :
        MadeRunning(who)[q] = IF q \in who /\ pc[q] \in DOMAIN Woken THEN Woken[pc[q]] ELSE pc[q]
  BY DEF MadeRunning
<1>4. \A q \in Process : MadeRunning(who)[q] \in TtyLabel
  BY <1>1, <1>2, <1>3
<1>5. MadeRunning(who) \in [Process -> TtyLabel]
  BY <1>4 DEF MadeRunning
<1>6. \A q \in who : q \in Process
  OBVIOUS
<1> QED
  BY <1>2, <1>3, <1>5, <1>6 DEF GetsUp

\* Who gets up stays in the call, and stays named.
LEMMA GettingUpKeepsChains ==
  ASSUME Chains, UNCHANGED <<use, proc_list>>, proc_list \in [Queue -> SUBSET Process],
         \A q \in Process : GetsUp(pc[q], pc'[q])
  PROVE  Chains'
<1>1. \A q \in Process : Caller(q)'
  BY DEF Chains, Caller, Reading, Writing, GetsUp, Use
<1> QED
  BY <1>1, ChainsStay DEF GetsUp

\* wake_up(): the one that the queue names gets up, and it names nobody.
LEMMA ReadCharKeepsChains ==
  ASSUME Chains, use' = use, proc_list \in [Queue -> SUBSET Process],
         proc_list' = [proc_list EXCEPT !["read"] = {}],
         \A q \in Process : GetsUp(pc[q], pc'[q]),
         \A q \in proc_list["read"] : pc'[q] # "read_sleep"
  PROVE  Chains'
<1>1. \A q \in Process : Caller(q)'
  BY DEF Chains, Caller, Reading, Writing, GetsUp, Use
<1>2. proc_list'["read"] = {} /\ proc_list'["write"] = proc_list["write"]
      /\ proc_list["write"] \subseteq Process
  BY DEF Queue
<1>3. Chain("read") /\ Chain("write")
  BY DEF Chains, Queue
<1>4. \A p \in Process, queue \in Queue : Alone(p, queue)' <=> Alone(p, queue)
  BY DEF Alone, Use
<1>5. Chain("read")'
  BY <1>2, <1>3, <1>4 DEF Chain, Queue, Asleep, Woken, GetsUp
<1>6. Chain("write")'
  BY <1>2, <1>3, <1>4 DEF Chain, Queue, Asleep, Woken, GetsUp
<1> QED
  BY <1>1, <1>5, <1>6 DEF Chains, Queue

\* p lies down: it is named, with a reason.
LEMMA LiesDownKeeps ==
  ASSUME TtyInv, NEW p \in Process, NEW queue \in Queue, LiesDown(p, queue),
         pc[p] \notin Busy \cup Resting, queue \in Use.calls[p],
         queue = "read" => secondary = <<>>,
         queue = "write" => ier /\ text[p] # <<>>
  PROVE  TtyInv'
<1> DEFINE label == Asleep[queue]
<1>1. /\ label \in TtyLabel
      /\ queue = "read" => label = "read_sleep"
      /\ queue = "write" => label = "write_sleep"
  BY DEF Queue, Asleep, TtyLabel
<1>2. /\ TtyTypeOK /\ pc \in [Process -> TtyLabel] /\ proc_list \in [Queue -> SUBSET Process]
      /\ tmp \in [Process -> SUBSET Process]
  BY DEF TtyInv, Typed, TtyTypeOK
<1>3. /\ tmp' = [tmp EXCEPT ![p] = proc_list[queue]]
      /\ proc_list' = [proc_list EXCEPT ![queue] = {p}]
      /\ pc' = [pc EXCEPT ![p] = label]
      /\ UNCHANGED <<delivered, read_q, secondary, data, write_q, cr_flag, ier, sent, use, lflag, need,
                     text, signal>>
  BY DEF LiesDown, GoTo, queueVars
<1> HIDE DEF label
<1>4. /\ pc' \in [Process -> TtyLabel] /\ pc'[p] = label /\ \A q \in Process \ {p} : pc'[q] = pc[q]
      /\ proc_list' \in [Queue -> SUBSET Process] /\ tmp' \in [Process -> SUBSET Process]
      /\ proc_list'[queue] = {p} /\ \A other \in Queue \ {queue} : proc_list'[other] = proc_list[other]
  BY <1>1, <1>2, <1>3
<1>5. Use' = Use /\ (Plain' <=> Plain) /\ (Safe' <=> Safe) /\ (Full(write_q)' <=> Full(write_q))
  BY <1>3 DEF Use, Plain, Safe, Full, Left
<1>6. Typed'
  <2>1. TtyTypeOK'
    BY <1>2, <1>3, <1>4 DEF TtyTypeOK
  <2> QED
    BY <1>3, <1>5, <2>1 DEF TtyInv, Typed
<1>7. Calling'
  BY <1>1, <1>3, <1>4, <1>5 DEF TtyInv, Calling, InWrite, Queue
<1>8. Sleeping'
  <2>1. proc_list["read"] \subseteq Process /\ proc_list["write"] \subseteq Process
    BY <1>2 DEF Queue
  <2>2. CASE queue = "read"
    BY <1>1, <1>3, <1>4, <1>5, <2>1, <2>2 DEF TtyInv, Sleeping, Queue, Busy
  <2>3. CASE queue = "write"
    BY <1>1, <1>3, <1>4, <1>5, <2>1, <2>3 DEF TtyInv, Sleeping, Queue, Busy
  <2> QED
    BY <2>2, <2>3 DEF Queue
<1>9. Chains'
  <2>1. \A q \in Process : Caller(q)'
    BY <1>1, <1>4, <1>5 DEF TtyInv, Chains, Caller, Reading, Writing, Queue
  <2>2. \A q \in Process, other \in Queue : Alone(q, other)' <=> Alone(q, other)
    BY <1>5 DEF Alone
  <2>3. \A q \in Process \ {p} : ~Alone(q, queue)
    BY DEF Alone
  <2>4. Chain(queue)'
    BY <1>1, <1>4, <2>2, <2>3 DEF Chain, label
  <2>5. ASSUME NEW other \in Queue, other # queue
        PROVE  Chain(other)'
    <3>1. proc_list'[other] = proc_list[other] /\ Chain(other) /\ proc_list[other] \subseteq Process
      BY <1>2, <1>4, <2>5 DEF TtyInv, Chains
    <3>2. p \notin proc_list[other] /\ pc'[p] # Asleep[other]
      BY <1>1, <1>4, <2>5, <3>1 DEF Chain, Queue, Asleep, Woken, Resting
    <3> QED
      BY <1>4, <2>2, <3>1, <3>2 DEF Chain
  <2> QED
    BY <2>1, <2>4, <2>5 DEF Chains
<1>10. LinesInv'
  BY <1>3, LinesStay DEF TtyInv
<1> QED
  BY <1>6, <1>7, <1>8, <1>9, <1>10 DEF TtyInv

\* The outer loop of tty_read(): it sleeps only when secondary is empty.
LEMMA tty_readKeeps ==
  ASSUME TtyInv, NEW p \in Process, tty_read(p)
  PROVE  TtyInv'
<1>1. pc[p] \notin Busy \cup Resting /\ "read" \in Use.calls[p]
  BY DEF tty_read, TtyAt, Busy, Resting, TtyInv, Chains, Caller, Reading
<1>2. {"read_spin", "read_getch"} \subseteq TtyLabel \ (InWrite \cup Resting)
  BY DEF TtyLabel, InWrite, Resting
<1>3. CASE TtyReturns(p)
  BY <1>1, <1>3, TtyReturnsKeeps
<1>4. CASE secondary = <<>> /\ LiesDown(p, "read")
  BY <1>1, <1>4, LiesDownKeeps DEF Queue
<1>5. ASSUME NEW label \in {"read_spin", "read_getch"}, TtyGoesTo(p, label)
      PROVE  Caller(p)'
  <2>1. pc' = [pc EXCEPT ![p] = label] /\ pc \in [Process -> TtyLabel] /\ Use' = Use
    BY <1>5 DEF TtyGoesTo, GoTo, ttyVars, TtyInv, Typed, TtyTypeOK, Use
  <2> QED
    BY <1>1, <2>1 DEF Caller, Reading, Writing
<1>6. CASE TtyGoesTo(p, "read_spin")
  BY <1>1, <1>2, <1>5, <1>6, TtyGoesToKeeps
<1>7. CASE secondary # <<>> /\ TtyGoesTo(p, "read_getch")
  BY <1>1, <1>2, <1>5, <1>7, TtyGoesToKeeps
<1> QED
  BY <1>3, <1>4, <1>6, <1>7 DEF tty_read

\* tty_write() sleeps only when write_q holds something, and then the line
\* interrupts.
LEMMA tty_writeKeeps ==
  ASSUME TtyInv, NEW p \in Process, tty_write(p)
  PROVE  TtyInv'
<1>1. pc[p] \in {"write", "write_again"} /\ \A q \in Process \ {p} : pc[q] \notin Busy
  BY DEF tty_write, TtyAt, InCall, Busy
<1>2. pc[p] \notin Busy \cup Resting /\ \A q \in Process : pc[q] \notin Busy
  BY <1>1 DEF Busy, Resting
<1>3. text[p] # <<>> /\ "write" \in Use.calls[p]
  BY <1>1 DEF TtyInv, Calling, InWrite, Chains, Caller, Writing
<1>4. write_q # <<>> => ier
  BY <1>2 DEF TtyInv, Sleeping
<1>5. {"write_again", "write_putch"} \subseteq TtyLabel \ Resting
  BY DEF TtyLabel, Resting
<1>6. Len(write_q) \in Nat /\ Size \in Nat /\ Size >= 1 /\ RESERVE \in 1..Size
  BY TtyAssumption, LenProperties, BuffersTyped DEF TtyInv, Typed, Buf, Size
<1>7. CASE Left(write_q) < RESERVE /\ LiesDown(p, "write")
  <2>1. Len(write_q) # 0
    BY <1>6, <1>7 DEF Left
  <2>2. ier
    BY <1>4, <2>1, EmptySeq
  <2> QED
    BY <1>2, <1>3, <1>7, <2>2, LiesDownKeeps DEF Queue
<1>8. CASE TtyReturns(p)
  BY <1>2, <1>8, TtyReturnsKeeps
<1>9. ASSUME NEW label \in {"write_again", "write_putch"}, TtyGoesTo(p, label)
      PROVE  Caller(p)'
  <2>1. pc' = [pc EXCEPT ![p] = label] /\ pc \in [Process -> TtyLabel] /\ Use' = Use
    BY <1>9 DEF TtyGoesTo, GoTo, ttyVars, TtyInv, Typed, TtyTypeOK, Use
  <2> QED
    BY <1>3, <2>1 DEF Caller, Reading, Writing
<1>10. CASE TtyGoesTo(p, "write_putch") /\ (~Full(write_q) \/ Left(write_q) >= RESERVE)
  <2>1. ~Full(write_q)
    BY <1>6, <1>10 DEF Full, Left
  <2> QED
    BY <1>2, <1>3, <1>5, <1>9, <1>10, <2>1, TtyGoesToKeeps
<1>11. CASE TtyGoesTo(p, "write_again")
  BY <1>2, <1>3, <1>5, <1>9, <1>11, TtyGoesToKeeps
<1> QED
  BY <1>7, <1>8, <1>10, <1>11 DEF tty_write

\* How the state of somebody may change in interruptible_sleep_on().
Rests(old, new) ==
  \/ new = old
  \/ old \in {"read_sleep", "read_woken"} /\ new \in {"read_sleep", "read_woken", "read_again"}
  \/ old \in {"write_sleep", "write_woken"} /\ new \in {"write_sleep", "write_woken", "write_again"}

\* Somebody gets up, or finds a new name and lies down again, and nobody who is
\* named has lain down.
LEMMA RestingKeeps ==
  ASSUME TtyInv, UNCHANGED <<delivered, queueVars, use, lflag, need, text, signal>>,
         pc' \in [Process -> TtyLabel], \A q \in Process : Rests(pc[q], pc'[q]),
         proc_list' \in [Queue -> SUBSET Process], tmp' \in [Process -> SUBSET Process],
         \A queue \in Queue : \A q \in proc_list'[queue] :
            pc'[q] = Asleep[queue] => q \in proc_list[queue] /\ pc[q] = Asleep[queue],
         Chains'
  PROVE  TtyInv'
<1>1. Use' = Use /\ (Plain' <=> Plain) /\ (Safe' <=> Safe) /\ (Full(write_q)' <=> Full(write_q))
  BY DEF Use, Plain, Safe, Full, Left, queueVars
<1>2. TtyTypeOK' /\ Typed'
  BY <1>1 DEF TtyInv, Typed, TtyTypeOK, queueVars
<1>3. Calling'
  BY <1>1 DEF TtyInv, Calling, Rests, InWrite, queueVars
<1>4. Sleeping'
  <2>1. \A q \in Process : pc[q] \in Busy => pc'[q] \in Busy
    BY DEF Rests, Busy
  <2>2. \A q \in proc_list'["read"] :
          pc'[q] = "read_sleep" => q \in proc_list["read"] /\ pc[q] = "read_sleep"
    BY DEF Queue, Asleep
  <2>3. \A q \in proc_list'["write"] :
          pc'[q] = "write_sleep" => q \in proc_list["write"] /\ pc[q] = "write_sleep"
    BY DEF Queue, Asleep
  <2> QED
    BY <1>1, <2>1, <2>2, <2>3 DEF TtyInv, Sleeping, queueVars
<1>5. LinesInv'
  BY LinesStay DEF TtyInv, queueVars
<1> QED
  BY <1>2, <1>3, <1>4, <1>5 DEF TtyInv

\* interruptible_sleep_on() comes back, or goes to sleep again.
LEMMA WakesUpKeeps ==
  ASSUME TtyInv, NEW p \in Process, NEW queue \in Queue, WakesUp(p, queue)
  PROVE  TtyInv'
<1>1. /\ pc \in [Process -> TtyLabel] /\ proc_list \in [Queue -> SUBSET Process]
      /\ tmp \in [Process -> SUBSET Process] /\ Chains
      /\ proc_list[queue] \subseteq Process /\ tmp[p] \subseteq Process
  BY DEF TtyInv, Typed, TtyTypeOK
<1>2. /\ pc[p] = Woken[Asleep[queue]]
      /\ UNCHANGED <<delivered, queueVars, use, lflag, need, text, signal>>
  BY DEF WakesUp, TtyAt
<1>3. /\ queue = "read" => /\ Asleep[queue] = "read_sleep" /\ Woken[Asleep[queue]] = "read_woken"
                           /\ Again[queue] = "read_again"
      /\ queue = "write" => /\ Asleep[queue] = "write_sleep" /\ Woken[Asleep[queue]] = "write_woken"
                            /\ Again[queue] = "write_again"
      /\ queue \in {"read", "write"}
      /\ Asleep[queue] \in TtyLabel /\ Again[queue] \in TtyLabel
  BY DEF Asleep, Woken, Again, Queue, TtyLabel
<1>4. queue \in Use.calls[p]
  BY <1>1, <1>2, <1>3 DEF Chains, Caller, Reading, Writing
<1>5. \A q \in Process, other \in Queue : Alone(q, other)' <=> Alone(q, other)
  BY <1>2 DEF Alone, Use
<1>6. CASE /\ ~(proc_list[queue] \subseteq {p})
           /\ pc' = [MadeRunning(proc_list[queue]) EXCEPT ![p] = Asleep[queue]]
           /\ UNCHANGED sleepVars
  <2> DEFINE up == MadeRunning(proc_list[queue])
  <2>1. /\ up \in [Process -> TtyLabel] /\ \A q \in Process : GetsUp(pc[q], up[q])
    BY <1>1, WakeFacts
  <2> HIDE DEF up
  <2>2. pc' = [up EXCEPT ![p] = Asleep[queue]] /\ proc_list' = proc_list /\ tmp' = tmp
    BY <1>6 DEF up, sleepVars
  <2>3. /\ pc' \in [Process -> TtyLabel] /\ pc'[p] = Asleep[queue]
        /\ \A q \in Process \ {p} : GetsUp(pc[q], pc'[q])
    BY <1>3, <2>1, <2>2
  <2>4. Chain(queue) /\ \A other \in Queue : Chain(other) /\ proc_list[other] \subseteq Process
    BY <1>1 DEF Chains
  <2>5. PICK q \in proc_list[queue] : q # p
    BY <1>6
  <2>6. q \in Process /\ p \notin proc_list[queue]
    BY <1>1, <2>4, <2>5 DEF Chain
  <2>7. ~Alone(p, queue)
    <3>1. pc[q] \in {Asleep[queue], Woken[Asleep[queue]]}
      BY <2>4, <2>5 DEF Chain
    <3>2. queue \in Use.calls[q]
      BY <1>1, <1>3, <2>6, <3>1 DEF Chains, Caller, Reading, Writing
    <3> QED
      BY <2>5, <2>6, <3>2 DEF Alone
  <2>8. \A r \in Process : Rests(pc[r], pc'[r])
    BY <1>2, <1>3, <2>3 DEF Rests, GetsUp
  <2>9. \A r \in Process : Caller(r)'
    BY <1>1, <1>2, <2>8 DEF Chains, Caller, Reading, Writing, Rests, Use
  <2>10. Chain(queue)'
    BY <1>3, <1>5, <2>2, <2>3, <2>4, <2>6, <2>7 DEF Chain, GetsUp
  <2>11. ASSUME NEW other \in Queue, other # queue PROVE Chain(other)'
    <3>1. p \notin proc_list[other] /\ pc'[p] # Asleep[other]
      BY <1>2, <1>3, <2>3, <2>4, <2>11 DEF Chain, Queue, Asleep, Woken
    <3> QED
      BY <1>3, <1>5, <2>2, <2>3, <2>4, <2>11, <3>1 DEF Chain, GetsUp, Queue, Asleep, Woken
  <2>12. Chains'
    BY <2>9, <2>10, <2>11 DEF Chains
  <2>13. \A other \in Queue : \A r \in proc_list'[other] :
            pc'[r] = Asleep[other] => r \in proc_list[other] /\ pc[r] = Asleep[other]
    <3> SUFFICES ASSUME NEW other \in Queue, NEW r \in proc_list[other], pc'[r] = Asleep[other]
                 PROVE  pc[r] = Asleep[other]
      BY <2>2
    <3>1. r # p
      BY <1>2, <1>3, <2>3, <2>4, <2>6 DEF Chain, Queue, Asleep, Woken
    <3>2. r \in Process
      BY <2>4
    <3> QED
      BY <2>3, <3>1, <3>2 DEF GetsUp, Queue, Asleep
  <2> QED
    BY <1>1, <1>2, <2>2, <2>3, <2>8, <2>12, <2>13, RestingKeeps
<1>7. CASE /\ proc_list[queue] \subseteq {p}
           /\ pc' = [MadeRunning(tmp[p]) EXCEPT ![p] = Again[queue]]
           /\ proc_list' = [proc_list EXCEPT ![queue] = {}]
           /\ tmp' = [tmp EXCEPT ![p] = {}]
  <2> DEFINE up == MadeRunning(tmp[p])
  <2>1. /\ up \in [Process -> TtyLabel] /\ \A q \in Process : GetsUp(pc[q], up[q])
    BY <1>1, WakeFacts
  <2> HIDE DEF up
  <2>2. pc' = [up EXCEPT ![p] = Again[queue]]
    BY <1>7 DEF up
  <2>3. /\ pc' \in [Process -> TtyLabel] /\ pc'[p] = Again[queue]
        /\ \A q \in Process \ {p} : GetsUp(pc[q], pc'[q])
    BY <1>3, <2>1, <2>2
  <2>4. /\ proc_list' \in [Queue -> SUBSET Process] /\ tmp' \in [Process -> SUBSET Process]
        /\ proc_list'[queue] = {}
        /\ \A other \in Queue \ {queue} : proc_list'[other] = proc_list[other]
    BY <1>1, <1>7
  <2>5. \A other \in Queue : Chain(other) /\ proc_list[other] \subseteq Process
    BY <1>1 DEF Chains
  <2>6. \A r \in Process : Rests(pc[r], pc'[r])
    BY <1>2, <1>3, <2>3 DEF Rests, GetsUp
  <2>7. \A r \in Process : Caller(r)'
    BY <1>1, <1>2, <2>6 DEF Chains, Caller, Reading, Writing, Rests, Use
  <2>8. Chain(queue)'
    <3>1. \A r \in Process \ {p} : ~Alone(r, queue)
      BY <1>4 DEF Alone
    <3>2. pc'[p] # Asleep[queue]
      BY <1>3, <2>3
    <3> QED
      BY <1>5, <2>4, <3>1, <3>2 DEF Chain
  <2>9. ASSUME NEW other \in Queue, other # queue PROVE Chain(other)'
    <3>1. p \notin proc_list[other] /\ pc'[p] # Asleep[other]
      BY <1>2, <1>3, <2>3, <2>5, <2>9 DEF Chain, Queue, Asleep, Woken
    <3> QED
      BY <1>3, <1>5, <2>3, <2>4, <2>5, <2>9, <3>1 DEF Chain, GetsUp, Queue, Asleep, Woken
  <2>10. Chains'
    BY <2>7, <2>8, <2>9 DEF Chains
  <2>11. \A other \in Queue : \A r \in proc_list'[other] :
            pc'[r] = Asleep[other] => r \in proc_list[other] /\ pc[r] = Asleep[other]
    <3> SUFFICES ASSUME NEW other \in Queue \ {queue}, NEW r \in proc_list[other],
                        pc'[r] = Asleep[other]
                 PROVE  pc[r] = Asleep[other]
      BY <2>4
    <3>1. r # p /\ r \in Process
      BY <1>2, <1>3, <2>5 DEF Chain, Queue, Asleep, Woken
    <3> QED
      BY <2>3, <3>1 DEF GetsUp, Queue, Asleep
  <2> QED
    BY <1>1, <1>2, <2>3, <2>4, <2>6, <2>10, <2>11, RestingKeeps
<1> QED
  BY <1>6, <1>7 DEF WakesUp

\* schedule() wakes who has a signal.
LEMMA InterruptedKeeps ==
  ASSUME TtyInv, NEW p \in Process, NEW queue \in Queue, Interrupted(p, queue)
  PROVE  TtyInv'
<1>1. /\ pc[p] = Asleep[queue] /\ pc' = [pc EXCEPT ![p] = Woken[Asleep[queue]]]
      /\ UNCHANGED <<delivered, queueVars, use, lflag, need, text, signal, proc_list, tmp>>
  BY DEF Interrupted, TtyAt, TtyGoesTo, GoTo, ttyVars, sleepVars
<1>2. /\ pc \in [Process -> TtyLabel] /\ proc_list \in [Queue -> SUBSET Process]
      /\ tmp \in [Process -> SUBSET Process] /\ Chains
  BY DEF TtyInv, Typed, TtyTypeOK
<1>3. \A q \in Process : GetsUp(pc[q], pc'[q])
  BY <1>1, <1>2 DEF GetsUp, Queue, Asleep, Woken
<1>4. Woken[Asleep[queue]] \in TtyLabel
  BY DEF Queue, Asleep, Woken, TtyLabel
<1>5. pc' \in [Process -> TtyLabel] /\ \A q \in Process : Rests(pc[q], pc'[q])
  BY <1>1, <1>2, <1>3, <1>4 DEF GetsUp, Rests
<1>6. Chains'
  BY <1>1, <1>2, <1>3, GettingUpKeepsChains
<1>7. \A other \in Queue : \A r \in proc_list'[other] :
        pc'[r] = Asleep[other] => r \in proc_list[other] /\ pc[r] = Asleep[other]
  <2>1. \A other \in Queue : proc_list[other] \subseteq Process
    BY <1>2
  <2> QED
    BY <1>1, <1>3, <2>1 DEF GetsUp, Queue, Asleep
<1> QED
  BY <1>1, <1>2, <1>5, <1>6, <1>7, RestingKeeps

\* rs_write() lets the line interrupt.
LEMMA rs_writeKeeps ==
  ASSUME TtyInv, NEW p \in Process, rs_write(p)
  PROVE  TtyInv'
<1> DEFINE label == IF text[p] = <<>> THEN "user" ELSE "write"
<1>1. GoTo(p, label) /\ UNCHANGED <<delivered, read_q, secondary, data, write_q, cr_flag, sent, use, lflag,
                        need, text, sleepVars>>
  BY DEF rs_write
<1>2. label \in TtyLabel \ Resting /\ (label \in InWrite => text[p] # <<>>)
      /\ label \notin {"read_getch", "write_putch"} /\ label \in {"user", "write"}
  BY DEF TtyLabel, InWrite, Resting
<1> HIDE DEF label
<1>3. ier \in BOOLEAN /\ signal \in [Process -> BOOLEAN]
  BY DEF TtyInv, Typed, TtyTypeOK
<1>4. ier' \in BOOLEAN /\ (ier => ier') /\ (write_q # <<>> => ier')
  BY <1>3 DEF rs_write
<1>5. signal' \in [Process -> BOOLEAN]
  <2>1. signal' = [signal EXCEPT ![p] = @ /\ text[p] # <<>>]
    BY DEF rs_write
  <2> QED
    BY <1>3, <2>1
<1>6. text' \in [Process -> Seq(Char)] /\ need' \in [Process -> Nat]
  BY <1>1 DEF TtyInv, Typed, TtyTypeOK
<1>7. Caller(p)' /\ pc[p] \notin Resting
  <2>1. pc' = [pc EXCEPT ![p] = label] /\ pc \in [Process -> TtyLabel] /\ Use' = Use
    BY <1>1 DEF GoTo, TtyInv, Typed, TtyTypeOK, Use
  <2>2. pc[p] = "write_start"
    BY DEF rs_write, TtyAt
  <2>3. "write" \in Use.calls[p]
    BY <2>2 DEF TtyInv, Chains, Caller, Writing
  <2> QED
    BY <1>2, <2>1, <2>2, <2>3 DEF Caller, Reading, Writing, Resting
<1> QED
  BY <1>1, <1>2, <1>4, <1>5, <1>6, <1>7, GoingKeeps

\* The mode of the terminal changes.
LEMMA TCSETSKeeps ==
  ASSUME TtyInv, NEW p \in Process, TCSETS(p)
  PROVE  TtyInv'
<1>1. UNCHANGED <<pc, delivered, read_q, secondary, data, write_q, cr_flag, ier, sent, use, need, text,
                  signal, proc_list, tmp>>
  BY DEF TCSETS, streamVars, queueVars, sleepVars
<1>2. ~Plain /\ Use' = Use /\ (Plain' <=> Plain) /\ (Safe' <=> Safe)
  BY <1>1 DEF TCSETS, Plain, Use, Safe
<1>3. lflag' \subseteq Flag
  BY DEF TCSETS, Flag, TtyInv, Typed, TtyTypeOK
<1>4. TtyTypeOK'
  BY <1>1, <1>3 DEF TtyTypeOK, TtyInv, Typed
<1>5. Typed'
  BY <1>1, <1>2, <1>4 DEF TtyInv, Typed
<1>6. Calling' /\ Sleeping' /\ Chains'
  BY <1>1, <1>2, NothingWakes DEF TtyInv, Calling, Sleeping
<1>7. LinesInv'
  BY <1>1, LinesStay DEF TtyInv
<1> QED
  BY <1>5, <1>6, <1>7 DEF TtyInv

\* Queues are flushed.
LEMMA TCFLSHKeeps ==
  ASSUME TtyInv, NEW p \in Process, TCFLSH(p)
  PROVE  TtyInv'
<1>1. UNCHANGED <<pc, delivered, secondary, data, cr_flag, ier, sent, use, lflag, need, text, signal,
                  proc_list, tmp>>
  BY DEF TCFLSH, streamVars, sleepVars
<1>2. ~Plain /\ Use' = Use /\ (Plain' <=> Plain) /\ (Safe' <=> Safe)
  BY <1>1 DEF TCFLSH, Plain, Use, Safe
<1>3. read_q' \in {<<>>, read_q} /\ write_q' \in {<<>>, write_q}
  BY DEF TCFLSH
<1>4. TtyTypeOK'
  <2>1. <<>> \in Seq(Char) /\ Len(<<>>) <= Size
    BY EmptySeq, SizeIs
  <2>2. \A q \in {read_q', secondary', write_q'} : q \in Seq(Char) /\ Len(q) <= Size
    BY <1>1, <1>3, <2>1 DEF TtyTypeOK, TtyInv, Typed
  <2> QED
    BY <1>1, <2>2 DEF TtyTypeOK, TtyInv, Typed
<1>5. Typed'
  BY <1>1, <1>2, <1>4 DEF TtyInv, Typed
<1>6. Calling' /\ Sleeping' /\ Chains'
  BY <1>1, <1>2, <1>3, NothingWakes DEF TtyInv, Calling, Sleeping
<1>7. LinesInv'
  BY <1>1, <1>2 DEF TtyInv, LinesInv, LinesAreCounted, NewlinesReturn, ReturnsLast
<1> QED
  BY <1>5, <1>6, <1>7 DEF TtyInv

\* What is on the line, and what follows it.
Line == sent \o write_q

\* Every newline follows a carriage return, but the first character of what is
\* left of the line may be a newline.
Returned(line) == \A i \in DOMAIN line : i > 1 /\ line[i] = "nl" => line[i - 1] = "cr"

\* The line is a sequence of characters.
LEMMA LineTyped ==
  ASSUME TtyTypeOK
  PROVE  Line \in Seq(Char) /\ sent \in Seq(Char) /\ write_q \in Seq(Char)
<1>1. sent \in Seq(Char) /\ write_q \in Seq(Char)
  BY DEF TtyTypeOK
<1> QED
  BY <1>1, ConcatProperties DEF Line

\* One more character on the line.
LEMMA LineGrows ==
  ASSUME NEW line \in Seq(Char), NEW c \in Char, Returned(line),
         c = "nl" => line = <<>> \/ line[Len(line)] = "cr"
  PROVE  /\ Returned(Append(line, c))
         /\ Append(line, c) # <<>>
         /\ Append(line, c)[Len(Append(line, c))] = c
<1> DEFINE n == Len(line)
           a == Append(line, c)
<1>1. /\ n \in Nat /\ DOMAIN line = 1..n /\ a \in Seq(Char) /\ Len(a) = n + 1 /\ DOMAIN a = 1..n + 1
      /\ \A i \in 1..n : a[i] = line[i]
      /\ a[n + 1] = c /\ a # <<>>
  BY LenProperties, AppendProperties
<1> HIDE DEF a
<1>2. ASSUME NEW i \in 1..n + 1, i > 1, a[i] = "nl" PROVE a[i - 1] = "cr"
  <2>1. CASE i = n + 1
    <3>1. n > 0 /\ i - 1 = n /\ n \in 1..n
      BY <1>1, <1>2, <2>1
    <3>2. line # <<>>
      BY <3>1, EmptySeq
    <3> QED
      BY <1>1, <1>2, <2>1, <3>1, <3>2
  <2>2. CASE i # n + 1
    <3>1. i \in 1..n /\ i - 1 \in 1..n
      BY <1>1, <1>2, <2>2
    <3>2. line[i] = "nl" /\ i \in DOMAIN line
      BY <1>1, <1>2, <3>1
    <3>3. line[i - 1] = "cr"
      BY <1>2, <3>2 DEF Returned
    <3> QED
      BY <1>1, <3>1, <3>3
  <2> QED
    BY <2>1, <2>2
<1>3. Returned(a)
  BY <1>1, <1>2 DEF Returned
<1> QED
  BY <1>1, <1>3 DEF a

\* A character is written: a newline only behind its carriage return.
LEMMA tty_write_putchKeeps ==
  ASSUME TtyInv, NEW p \in Process, tty_write_putch(p)
  PROVE  TtyInv'
<1> DEFINE c      == Head(text[p])
           return == Use.opost /\ c = "nl" /\ ~cr_flag
           ch     == IF return THEN "cr" ELSE c
           out    == PUTCH(ch, write_q)
           new    == IF return THEN text[p] ELSE Tail(text[p])
<1>1. pc[p] = "write_putch" /\ \A q \in Process \ {p} : pc[q] \notin InCall
  BY DEF tty_write_putch, TtyAt
<1>2. /\ write_q' = out /\ cr_flag' = return /\ text' = [text EXCEPT ![p] = new]
      /\ IF text'[p] = <<>> \/ Full(out) THEN GoTo(p, "write_start") ELSE UNCHANGED pc
      /\ UNCHANGED <<delivered, read_q, secondary, data, ier, sent, use, lflag, need, signal,
                     proc_list, tmp>>
  BY DEF tty_write_putch, sleepVars
<1>3. /\ text \in [Process -> Seq(Char)] /\ text[p] \in Seq(Char) /\ text[p] # <<>>
      /\ TtyTypeOK /\ write_q \in Buf /\ use \in DOMAIN Uses
  BY <1>1, BuffersTyped DEF TtyInv, Typed, Calling, InWrite, TtyTypeOK
<1>4. c \in Char /\ Tail(text[p]) \in Seq(Char)
  BY <1>3, HeadTailProperties
<1>5. ch \in Char /\ new \in Seq(Char) /\ return \in BOOLEAN
  <2>1. "cr" \in Char
    BY DEF Char
  <2> QED
    BY <1>3, <1>4, <2>1
<1>6. (return => ch = "cr") /\ (ch = "nl" /\ Use.opost => cr_flag)
  OBVIOUS
<1> HIDE DEF c, return, ch, new
<1>7. out \in Buf /\ (~Full(write_q) => out = Append(write_q, ch))
  BY <1>3, <1>5, PutFacts
<1> HIDE DEF out
<1>8. text' \in [Process -> Seq(Char)] /\ \A q \in Process \ {p} : text'[q] = text[q]
  BY <1>2, <1>3, <1>5
<1>9. /\ pc' \in [Process -> TtyLabel] /\ pc'[p] \in Busy
      /\ \A q \in Process \ {p} : pc'[q] = pc[q]
      /\ pc'[p] # "write_start" => pc'[p] = "write_putch" /\ text'[p] # <<>> /\ ~Full(out)
  <2>1. pc \in [Process -> TtyLabel] /\ "write_start" \in TtyLabel
    BY <1>3 DEF TtyTypeOK, TtyLabel
  <2>2. CASE GoTo(p, "write_start")
    BY <2>1, <2>2 DEF GoTo, Busy
  <2>3. CASE UNCHANGED pc /\ ~(text'[p] = <<>> \/ Full(out))
    BY <1>1, <2>1, <2>3 DEF Busy
  <2> QED
    BY <1>2, <2>2, <2>3
<1>10. Use' = Use /\ (Plain' <=> Plain) /\ (Safe' <=> Safe)
  BY <1>2 DEF Use, Plain, Safe
<1>11. Typed'
  <2>1. \A q \in {read_q', secondary', write_q'} : q \in Seq(Char) /\ Len(q) <= Size
    BY <1>2, <1>3, <1>7 DEF Buf, TtyTypeOK
  <2>2. \A q \in Process : text'[q] \in Seq(Char)
    BY <1>8
  <2>3. TtyTypeOK'
    BY <1>2, <1>3, <1>5, <1>9, <2>1, <2>2 DEF TtyTypeOK
  <2> QED
    BY <1>2, <1>8, <1>10, <2>3 DEF TtyInv, Typed
<1>12. Calling'
  <2>1. ASSUME NEW q \in Process, pc'[q] \in InWrite PROVE text'[q] # <<>>
    <3>1. CASE q = p
      BY <1>9, <2>1, <3>1 DEF InWrite
    <3>2. CASE q # p
      BY <1>8, <1>9, <2>1, <3>2 DEF TtyInv, Calling
    <3> QED
      BY <3>1, <3>2
  <2>2. \A q \in Process : pc'[q] # "read_getch"
    BY <1>1, <1>9 DEF Busy, InCall
  <2>3. \A q \in Process : pc'[q] = "write_putch" => ~Full(out)
    BY <1>1, <1>9 DEF Busy, InCall
  <2> QED
    BY <1>2, <2>1, <2>2, <2>3 DEF Calling, Full, Left
<1>13. Sleeping'
  <2>1. \A q \in Process : pc'[q] = "read_sleep" \/ pc'[q] = "write_sleep" => q # p /\ pc'[q] = pc[q]
    BY <1>9 DEF Busy
  <2>2. proc_list["read"] \subseteq Process /\ proc_list["write"] \subseteq Process
    BY <1>3 DEF TtyTypeOK, Queue
  <2> QED
    BY <1>2, <1>9, <1>10, <2>1, <2>2 DEF TtyInv, Sleeping
<1>15. Chains'
  <2>1. "write" \in Use.calls[p]
    BY <1>1 DEF TtyInv, Chains, Caller, Writing
  <2>2. \A q \in Process : Caller(q)'
    BY <1>9, <1>10, <2>1 DEF TtyInv, Chains, Caller, Reading, Writing, Busy
  <2> QED
    BY <1>1, <1>2, <1>3, <1>9, <2>2, ChainsStay DEF TtyInv, TtyTypeOK, Busy
<1>14. LinesInv'
  <2>1. LinesAreCounted'
    BY <1>2 DEF TtyInv, LinesInv, LinesAreCounted
  <2>2. ASSUME Plain PROVE sent' \o write_q' = Append(Line, ch)
    <3>1. ~Full(write_q)
      BY <1>1, <2>2 DEF TtyInv, Calling
    <3>2. write_q' = Append(write_q, ch) /\ sent' = sent
      BY <1>2, <1>7, <3>1
    <3>3. sent \in Seq(Char) /\ write_q \in Seq(Char)
      BY <1>3, LineTyped
    <3>4. sent \o Append(write_q, ch) = Append(sent \o write_q, ch)
      BY <1>5, <3>3, ConcatAppend
    <3> QED
      BY <3>2, <3>4 DEF Line
  <2>3. ASSUME Plain, Use.opost
        PROVE  Returned(Append(Line, ch))
    <3>1. Returned(Line)
      BY <2>3 DEF TtyInv, LinesInv, NewlinesReturn, Returned, Line
    <3>2. ch = "nl" => Line[Len(Line)] = "cr"
      BY <1>6, <2>3 DEF TtyInv, LinesInv, ReturnsLast, Line
    <3> QED
      BY <1>3, <1>5, <3>1, <3>2, LineTyped, LineGrows
  <2>4. ASSUME Plain, return
        PROVE  Append(Line, ch) # <<>> /\ Append(Line, ch)[Len(Append(Line, ch))] = "cr"
    <3>1. Line \in Seq(Char) /\ ch = "cr" /\ ch \in Char
      BY <1>3, <1>5, <1>6, <2>4, LineTyped
    <3>2. Append(Line, ch) # <<>> /\ Len(Append(Line, ch)) = Len(Line) + 1
          /\ Append(Line, ch)[Len(Line) + 1] = ch
      BY <3>1, AppendProperties
    <3> QED
      BY <3>1, <3>2
  <2>5. NewlinesReturn'
    BY <1>10, <2>2, <2>3 DEF NewlinesReturn, Returned
  <2>6. ReturnsLast'
    BY <1>2, <1>10, <2>2, <2>4 DEF ReturnsLast
  <2> QED
    BY <2>1, <2>5, <2>6 DEF LinesInv
<1> QED
  BY <1>11, <1>12, <1>13, <1>14, <1>15 DEF TtyInv

\* What GETCH takes, and what it leaves.
LEMMA GotFacts ==
  ASSUME TtyTypeOK, NEW got \in GETCH
  PROVE  /\ got[1] \in Char /\ got[2] \in Buf
         /\ secondary # <<>> => got[1] = Head(secondary) /\ got[2] = Tail(secondary)
<1>0. secondary \in Seq(Char) /\ Len(secondary) <= Size /\ Len(secondary) \in Nat
  BY BuffersTyped, LenProperties DEF Buf
<1>1. CASE secondary # <<>>
  <2>1. got = <<Head(secondary), Tail(secondary)>>
    BY <1>1 DEF GETCH
  <2>2. /\ Head(secondary) \in Char /\ Tail(secondary) \in Seq(Char)
        /\ Len(Tail(secondary)) = Len(secondary) - 1
    BY <1>0, <1>1, HeadTailProperties
  <2>3. Tail(secondary) \in Buf
    BY <1>0, <2>2, SizeIs DEF Buf
  <2> QED
    BY <2>1, <2>2, <2>3
<1>2. CASE secondary = <<>>
  <2>1. got[1] \in Use.keys /\ got[2] \in [1..Size -> Use.keys]
    BY <1>2 DEF GETCH
  <2>2. Use.keys \subseteq Char
    BY UseFacts DEF Char, TtyTypeOK
  <2>3. got[2] \in [1..Size -> Char]
    BY <2>1, <2>2
  <2>4. got[2] \in Seq(Char) /\ DOMAIN got[2] = 1..Size
    BY <2>3, SizeIs
  <2>5. Len(got[2]) = Size
    BY <2>4, SizeIs, LenProperties
  <2>6. got[2] \in Buf
    BY <2>4, <2>5, SizeIs DEF Buf
  <2> QED
    BY <1>2, <2>1, <2>2, <2>6
<1> QED
  BY <1>1, <1>2

\* A character is read: data is counted down when it ends a line.
LEMMA tty_read_getchKeeps ==
  ASSUME TtyInv, NEW p \in Process, NEW got \in GETCH, tty_read_getch(p, got[1], got[2])
  PROVE  TtyInv'
<1> DEFINE c    == got[1]
           rest == got[2]
<1>1. pc[p] = "read_getch" /\ \A q \in Process \ {p} : pc[q] \notin InCall
  BY DEF tty_read_getch, TtyAt
<1>2. TtyTypeOK /\ secondary \in Seq(Char)
  BY BuffersTyped DEF TtyInv, Typed, Buf
<1>3. /\ c \in Char /\ rest \in Buf
      /\ secondary # <<>> => c = Head(secondary) /\ rest = Tail(secondary)
  BY <1>2, GotFacts
<1>4. /\ secondary' = rest
      /\ data' = IF EndsLine(c) THEN data - 1 ELSE data
      /\ delivered' = IF Plain THEN <<c>> ELSE <<>>
      /\ UNCHANGED <<read_q, write_q, cr_flag, ier, sent, use, lflag, text, proc_list, tmp>>
  BY DEF tty_read_getch, sleepVars
<1>5. /\ \/ GoTo(p, "user")
         \/ GoTo(p, "read")
         \/ GoTo(p, "read_getch") /\ rest # <<>>
      /\ \/ need' = [need EXCEPT ![p] = 0]
         \/ need' = [need EXCEPT ![p] = IF need[p] > 0 THEN need[p] - 1 ELSE 0]
      /\ \/ signal' = [signal EXCEPT ![p] = FALSE]
         \/ signal' = signal
  BY DEF tty_read_getch
<1> HIDE DEF c, rest
<1>6. /\ pc' \in [Process -> TtyLabel]
      /\ pc'[p] \in {"user", "read", "read_getch"}
      /\ pc'[p] = "read_getch" => rest # <<>>
      /\ \A q \in Process \ {p} : pc'[q] = pc[q]
  <2>1. pc \in [Process -> TtyLabel]
    BY <1>2 DEF TtyTypeOK
  <2>2. {"user", "read", "read_getch"} \subseteq TtyLabel
    BY DEF TtyLabel
  <2> QED
    BY <1>5, <2>1, <2>2 DEF GoTo
<1>7. Use' = Use /\ (Plain' <=> Plain) /\ (Safe' <=> Safe) /\ (Full(write_q)' <=> Full(write_q))
  BY <1>4 DEF Use, Plain, Safe, Full, Left
<1>8. Typed'
  <2>1. \A q \in {read_q', secondary', write_q'} : q \in Seq(Char) /\ Len(q) <= Size
    BY <1>2, <1>3, <1>4 DEF Buf, TtyTypeOK
  <2>2. need' \in [Process -> Nat]
    <3>1. need \in [Process -> Nat] /\ need[p] \in Nat
      BY <1>2 DEF TtyTypeOK
    <3>2. (IF need[p] > 0 THEN need[p] - 1 ELSE 0) \in Nat
      BY <3>1
    <3> QED
      BY <1>5, <3>1, <3>2
  <2>3. signal' \in [Process -> BOOLEAN]
    BY <1>2, <1>5 DEF TtyTypeOK
  <2>4. data' \in Int
    BY <1>2, <1>4 DEF TtyTypeOK
  <2>5. TtyTypeOK'
    BY <1>2, <1>4, <1>6, <2>1, <2>2, <2>3, <2>4 DEF TtyTypeOK
  <2> QED
    BY <1>4, <1>7, <2>5 DEF TtyInv, Typed
<1>9. Calling'
  <2>1. \A q \in Process : pc'[q] \in InWrite => q # p /\ pc'[q] = pc[q]
    BY <1>6 DEF InWrite
  <2>2. \A q \in Process : pc'[q] = "read_getch" => q = p
    BY <1>1, <1>6 DEF InCall
  <2> QED
    BY <1>4, <1>6, <1>7, <2>1, <2>2 DEF TtyInv, Calling, InWrite
<1>10. Sleeping'
  <2>1. Safe => \A q \in proc_list["read"] : pc[q] # "read_sleep"
    BY <1>1 DEF TtyInv, Calling, Sleeping
  <2>2. \A q \in Process : pc'[q] \in {"read_sleep", "write_sleep"} => q # p /\ pc'[q] = pc[q]
    BY <1>6
  <2>3. \A q \in Process : pc[q] \in Busy => q # p /\ pc'[q] = pc[q]
    BY <1>1, <1>6 DEF Busy
  <2>4. proc_list["read"] \subseteq Process /\ proc_list["write"] \subseteq Process
    BY <1>2 DEF TtyTypeOK, Queue
  <2> QED
    BY <1>4, <1>7, <2>1, <2>2, <2>3, <2>4 DEF TtyInv, Sleeping
<1>12. Chains'
  <2>1. "read" \in Use.calls[p]
    BY <1>1 DEF TtyInv, Chains, Caller, Reading
  <2>2. \A q \in Process : Caller(q)'
    BY <1>6, <1>7, <2>1 DEF TtyInv, Chains, Caller, Reading, Writing
  <2> QED
    BY <1>1, <1>2, <1>4, <1>6, <2>2, ChainsStay DEF TtyInv, TtyTypeOK
<1>11. LinesInv'
  <2>1. LinesAreCounted'
    <3> SUFFICES ASSUME ~EraseAnywhere PROVE data' = LineEnds(rest)
      BY <1>4 DEF LinesAreCounted, LineEnds, Ends
    <3>1. secondary # <<>>
      BY <1>1 DEF TtyInv, Calling, Safe
    <3>2. data = LineEnds(secondary)
      BY DEF TtyInv, LinesInv, LinesAreCounted, LineEnds, Ends
    <3>3. LineEnds(secondary) = IF EndsLine(c) THEN LineEnds(rest) + 1 ELSE LineEnds(rest)
      BY <1>2, <1>3, <3>1, EndsOfTail
    <3>4. LineEnds(rest) \in Nat
      BY <1>3, EndsAreFinite DEF Buf
    <3> QED
      BY <1>4, <3>2, <3>3, <3>4
  <2>2. NewlinesReturn' /\ ReturnsLast'
    BY <1>4, <1>7 DEF TtyInv, LinesInv, NewlinesReturn, ReturnsLast
  <2> QED
    BY <2>1, <2>2 DEF LinesInv
<1> QED
  BY <1>8, <1>9, <1>10, <1>11, <1>12 DEF TtyInv

\* The first character of the line goes.
LEMMA LineGoes ==
  ASSUME NEW s \in Seq(Char), Len(s) <= 1, NEW w \in Seq(Char), w # <<>>
  PROVE  /\ <<Head(w)>> \o Tail(w) = w
         /\ Returned(s \o w) => Returned(w)
         /\ (s \o w)[Len(s \o w)] = w[Len(w)]
<1> DEFINE h == <<Head(w)>>
           t == Tail(w)
           l == s \o w
<1>1. /\ Len(s) \in Nat /\ Len(w) \in Nat /\ Len(w) # 0
      /\ DOMAIN w = 1..Len(w)
      /\ l \in Seq(Char) /\ Len(l) = Len(s) + Len(w) /\ DOMAIN l = 1..Len(s) + Len(w)
      /\ \A i \in 1..Len(s) + Len(w) : l[i] = IF i <= Len(s) THEN s[i] ELSE w[i - Len(s)]
  BY LenProperties, EmptySeq, ConcatProperties
<1>2. /\ Head(w) \in Char /\ Head(w) = w[1] /\ t \in Seq(Char) /\ Len(t) = Len(w) - 1
      /\ \A i \in 1..Len(t) : t[i] = w[i + 1]
  BY HeadTailProperties
<1>3. h \in Seq(Char) /\ Len(h) = 1 /\ h[1] = w[1]
  BY <1>2
<1> HIDE DEF h, t, l
<1>4. h \o t = w
  <2>1. /\ h \o t \in Seq(Char) /\ Len(h \o t) = Len(h) + Len(t)
        /\ \A i \in 1..Len(h) + Len(t) : (h \o t)[i] = IF i <= Len(h) THEN h[i] ELSE t[i - Len(h)]
    BY <1>2, <1>3, ConcatProperties
  <2>2. Len(h) + Len(t) = Len(w) /\ Len(h \o t) = Len(w)
    BY <1>1, <1>2, <1>3, <2>1
  <2>3. \A i \in 1..Len(w) : (h \o t)[i] = w[i]
    <3> SUFFICES ASSUME NEW i \in 1..Len(w) PROVE (h \o t)[i] = w[i]
      OBVIOUS
    <3>1. (h \o t)[i] = IF i <= 1 THEN h[i] ELSE t[i - 1]
      BY <1>3, <2>1, <2>2
    <3>2. i # 1 => i - 1 \in 1..Len(t) /\ i - 1 + 1 = i
      BY <1>1, <1>2
    <3> QED
      BY <1>1, <1>2, <1>3, <3>1, <3>2
  <2> QED
    BY <2>1, <2>2, <2>3, SeqEqual
<1>5. \A i \in 1..Len(w) : i + Len(s) \in 1..Len(s) + Len(w) /\ l[i + Len(s)] = w[i]
  <2> SUFFICES ASSUME NEW i \in 1..Len(w)
               PROVE  i + Len(s) \in 1..Len(s) + Len(w) /\ l[i + Len(s)] = w[i]
    OBVIOUS
  <2>1. i + Len(s) \in 1..Len(s) + Len(w) /\ ~(i + Len(s) <= Len(s)) /\ i + Len(s) - Len(s) = i
    BY <1>1
  <2> QED
    BY <1>1, <2>1
<1>6. ASSUME Returned(l), NEW i \in 1..Len(w), i > 1, w[i] = "nl" PROVE w[i - 1] = "cr"
  <2>1. i - 1 \in 1..Len(w) /\ i - 1 + Len(s) = i + Len(s) - 1 /\ i + Len(s) > 1
    BY <1>1, <1>6
  <2>2. l[i + Len(s)] = "nl" /\ i + Len(s) \in DOMAIN l
    BY <1>1, <1>5, <1>6
  <2>3. l[i + Len(s) - 1] = "cr"
    BY <1>6, <2>1, <2>2 DEF Returned
  <2>4. l[i - 1 + Len(s)] = w[i - 1]
    BY <1>5, <2>1
  <2> QED
    BY <2>1, <2>3, <2>4
<1>7. Len(w) \in 1..Len(w) /\ Len(w) + Len(s) = Len(l)
  BY <1>1
<1> QED
  BY <1>1, <1>4, <1>5, <1>6, <1>7 DEF Returned, h, t, l

\* The line takes a character; it stops interrupting when nothing is left, and
\* then nobody sleeps.
LEMMA write_charKeeps ==
  ASSUME TtyInv, write_char
  PROVE  TtyInv'
<1>1. /\ ier /\ ier' = (write_q' # <<>>)
      /\ UNCHANGED <<delivered, read_q, secondary, data, cr_flag, use, lflag, need, text, signal,
                     proc_list, tmp>>
      /\ pc' = MadeRunning(proc_list["write"]) \/ (UNCHANGED pc /\ write_q' # <<>>)
  BY DEF write_char, sleepVars
<1>2. TtyTypeOK /\ sent \in Seq(Char) /\ Len(sent) <= 1 /\ write_q \in Seq(Char) /\ Len(write_q) <= Size
      /\ pc \in [Process -> TtyLabel]
  BY BuffersTyped DEF TtyInv, Typed, Buf, TtyTypeOK
<1>3. /\ pc' \in [Process -> TtyLabel]
      /\ \A q \in Process : GetsUp(pc[q], pc'[q])
      /\ \A q \in proc_list["write"] : pc'[q] = "write_sleep" => pc[q] = "write_sleep" /\ write_q' # <<>>
  <2>1. proc_list["write"] \subseteq Process
    BY <1>2 DEF TtyTypeOK, Queue
  <2>2. CASE pc' = MadeRunning(proc_list["write"])
    BY <1>2, <2>1, <2>2, WakeFacts
  <2>3. CASE UNCHANGED pc /\ write_q' # <<>>
    BY <1>2, <2>1, <2>3 DEF GetsUp
  <2> QED
    BY <1>1, <2>2, <2>3
<1>4. /\ write_q' \in Seq(Char) /\ Len(write_q') <= Size /\ sent' \in Seq(Char) /\ Len(sent') <= 1
      /\ ~Full(write_q) => ~Full(write_q')
  <2>1. CASE write_q = <<>>
    <3>1. write_q' = write_q /\ sent' = sent
      BY <2>1 DEF write_char
    <3> QED
      BY <1>2, <3>1
  <2>2. CASE write_q # <<>>
    <3>1. /\ write_q' = Tail(write_q) /\ sent' = <<Head(write_q)>>
      BY <2>2 DEF write_char
    <3>2. /\ Head(write_q) \in Char /\ Tail(write_q) \in Seq(Char)
          /\ Len(Tail(write_q)) = Len(write_q) - 1 /\ Len(write_q) \in Nat
      BY <1>2, <2>2, HeadTailProperties, LenProperties
    <3>3. <<Head(write_q)>> \in Seq(Char) /\ Len(<<Head(write_q)>>) = 1
      BY <3>2
    <3>4. Len(Tail(write_q)) <= Size /\ ~Full(Tail(write_q))
      <4> DEFINE n == Len(write_q)
      <4>0. n \in Nat /\ Size \in Nat /\ n <= Size
        BY <1>2, <3>2, SizeIs
      <4> HIDE DEF n
      <4>1. n - 1 <= Size /\ Size - (n - 1) # 0
        BY <4>0
      <4> QED
        BY <3>2, <4>1 DEF Full, Left, n
    <3> QED
      BY <3>1, <3>2, <3>3, <3>4
  <2> QED
    BY <2>1, <2>2
<1>5. Use' = Use /\ (Plain' <=> Plain) /\ (Safe' <=> Safe)
  BY <1>1 DEF Use, Plain, Safe
<1>6. Typed'
  <2>1. \A q \in {read_q', secondary', write_q'} : q \in Seq(Char) /\ Len(q) <= Size
    BY <1>1, <1>2, <1>4 DEF TtyTypeOK
  <2>2. ier' \in BOOLEAN
    BY <1>1
  <2>3. TtyTypeOK'
    BY <1>1, <1>2, <1>3, <1>4, <2>1, <2>2 DEF TtyTypeOK
  <2> QED
    BY <1>1, <1>5, <2>3 DEF TtyInv, Typed
<1>7. Calling'
  <2>1. \A q \in Process : pc'[q] \in InWrite => pc[q] \in InWrite
    BY <1>3 DEF InWrite, GetsUp
  <2>2. \A q \in Process : pc'[q] \in {"read_getch", "write_putch"} => pc'[q] = pc[q]
    BY <1>3 DEF GetsUp
  <2>3. (~Full(write_q)) => ~Full(write_q)'
    BY <1>4 DEF Full, Left
  <2> QED
    BY <1>1, <1>5, <2>1, <2>2, <2>3 DEF TtyInv, Calling
<1>8. Sleeping'
  <2>1. proc_list["read"] \subseteq Process /\ proc_list["write"] \subseteq Process
    BY <1>2 DEF TtyTypeOK, Queue
  <2> QED
    BY <1>1, <1>3, <1>5, <2>1 DEF TtyInv, Sleeping, GetsUp
<1>10. Chains'
  BY <1>1, <1>2, <1>3, <1>5, GettingUpKeepsChains DEF TtyInv, TtyTypeOK
<1>9. LinesInv'
  <2>1. LinesAreCounted'
    BY <1>1 DEF TtyInv, LinesInv, LinesAreCounted
  <2>2. CASE write_q = <<>>
    <3>1. write_q' = write_q /\ sent' = sent
      BY <2>2 DEF write_char
    <3> QED
      BY <1>1, <3>1, LinesStay DEF TtyInv
  <2>3. CASE write_q # <<>>
    <3>1. /\ write_q' = Tail(write_q) /\ sent' = <<Head(write_q)>>
      BY <2>3 DEF write_char
    <3>2. <<Head(write_q)>> \o Tail(write_q) = write_q
      BY <1>2, <2>3, LineGoes
    <3>3. sent' \o write_q' = write_q
      BY <3>1, <3>2
    <3>4. Plain /\ Use.opost => Returned(write_q)
      BY <1>2, <2>3, LineGoes DEF TtyInv, LinesInv, NewlinesReturn, Returned
    <3>5. Plain /\ cr_flag => write_q[Len(write_q)] = "cr"
      BY <1>2, <2>3, LineGoes DEF TtyInv, LinesInv, ReturnsLast
    <3>6. NewlinesReturn'
      BY <1>5, <3>3, <3>4 DEF NewlinesReturn, Returned
    <3>7. ReturnsLast'
      BY <1>1, <1>5, <2>3, <3>3, <3>5 DEF ReturnsLast
    <3> QED
      BY <2>1, <3>6, <3>7 DEF LinesInv
  <2> QED
    BY <2>2, <2>3
<1> QED
  BY <1>6, <1>7, <1>8, <1>9, <1>10 DEF TtyInv

\* A key is typed: the reader that is named is woken, and write_q has grown only by an echo
\* that lets the line interrupt.
LEMMA read_charKeeps ==
  ASSUME TtyInv, NEW c \in Use.keys, read_char(c)
  PROVE  TtyInv'
<1> DEFINE keys == IF Full(read_q) THEN read_q ELSE Append(read_q, c)
           q    == FoldLeft(Cook, Queues, keys)
<1>1. /\ TtyTypeOK /\ read_q \in Buf /\ secondary \in Buf /\ write_q \in Buf
      /\ pc \in [Process -> TtyLabel] /\ data \in Int
  BY BuffersTyped DEF TtyInv, Typed, TtyTypeOK
<1>2. c \in Char
  BY <1>1, UseFacts DEF TtyTypeOK, Char
<1>3. keys \in Seq(Char) /\ Len(keys) <= Size
  BY <1>1, <1>2, PutFacts DEF Buf
<1>4. /\ MayBeErased(keys)
      /\ read_q' = q.rest /\ secondary' = q.secondary /\ data' = q.data
      /\ write_q' = q.write_q /\ ier' = q.ier
      /\ signal' = [p \in Process |-> signal[p] \/ (q.interrupted /\ pc[p] # "user")]
      /\ pc' = MadeRunning(proc_list["read"])
      /\ proc_list' = [proc_list EXCEPT !["read"] = {}]
      /\ UNCHANGED <<delivered, use, lflag, cr_flag, sent, need, text, tmp>>
  BY DEF read_char
<1> HIDE DEF keys
<1>5. Queues \in Cooking
  <2>1. <<>> \in Seq(Char) /\ ier \in BOOLEAN
    BY <1>1, EmptySeq DEF TtyTypeOK
  <2> QED
    BY <1>1, <2>1 DEF Queues, Cooking
<1>6. CopiedTo(keys, q)
  BY <1>3, <1>5, CopyFacts
<1> HIDE DEF q
<1>7. /\ q.rest \in Seq(Char) /\ q.secondary \in Buf /\ q.write_q \in Buf /\ q.data \in Int
      /\ q.ier \in BOOLEAN /\ q.interrupted \in BOOLEAN
  BY <1>6 DEF CopiedTo, Cooking
<1>8. Use' = Use /\ (Plain' <=> Plain) /\ (Safe' <=> Safe) /\ (Plain => lflag = {})
  BY <1>4 DEF Use, Plain, Safe, TtyInv, Typed
<1>9. /\ pc' \in [Process -> TtyLabel]
      /\ \A p \in Process : GetsUp(pc[p], pc'[p])
      /\ \A p \in proc_list["read"] : pc'[p] # "read_sleep"
  <2>1. proc_list["read"] \in SUBSET Process
    BY <1>1 DEF TtyTypeOK, Queue
  <2> QED
    BY <1>1, <1>4, <2>1, WakeFacts
<1>15. /\ proc_list \in [Queue -> SUBSET Process]
       /\ proc_list' \in [Queue -> SUBSET Process]
       /\ proc_list'["read"] = {} /\ proc_list'["write"] = proc_list["write"]
       /\ proc_list["write"] \subseteq Process
  BY <1>1, <1>4 DEF TtyTypeOK, Queue
<1>10. Typed'
  <2>1. q.rest \in Seq(Char) /\ Len(q.rest) <= Size
    BY <1>3, <1>6, <1>7, SizeIs, LenProperties DEF CopiedTo
  <2>2. \A s \in {read_q', secondary', write_q'} : s \in Seq(Char) /\ Len(s) <= Size
    BY <1>4, <1>7, <2>1 DEF Buf
  <2>3. signal' \in [Process -> BOOLEAN]
    BY <1>1, <1>4, <1>7 DEF TtyTypeOK
  <2>4. TtyTypeOK'
    BY <1>1, <1>4, <1>7, <1>9, <1>15, <2>2, <2>3 DEF TtyTypeOK
  <2> QED
    BY <1>4, <1>8, <2>4 DEF TtyInv, Typed
<1>11. Plain => write_q' = write_q /\ ier' = ier
  BY <1>4, <1>6, <1>8 DEF CopiedTo
<1>12. Calling'
  <2>1. \A p \in Process : pc'[p] \in InWrite => pc[p] \in InWrite
    BY <1>9 DEF InWrite, GetsUp
  <2>2. ASSUME Safe, NEW p \in Process, pc[p] = "read_getch" PROVE secondary' # <<>>
    <3>1. secondary # <<>>
      BY <2>2 DEF TtyInv, Calling
    <3>2. "ICANON" \notin lflag \/ {"erase", "kill"} \cap ToSet(keys) = {}
      BY <1>4, <1>8, <2>2 DEF MayBeErased, Safe
    <3>3. Len(q.secondary) >= Len(secondary)
      BY <1>6, <3>2 DEF CopiedTo
    <3>4. Len(secondary) \in Nat \ {0} /\ Len(q.secondary) \in Nat
      BY <1>1, <1>7, <3>1, EmptySeq, LenProperties DEF Buf
    <3>5. Len(q.secondary) # 0
      BY <3>3, <3>4
    <3> QED
      BY <1>4, <3>5, EmptySeq
  <2>3. \A p \in Process : pc'[p] \in {"read_getch", "write_putch"} => pc[p] = pc'[p]
    BY <1>9 DEF GetsUp
  <2>4. Plain => (Full(write_q)' <=> Full(write_q))
    BY <1>11 DEF Full, Left
  <2> QED
    BY <1>4, <1>8, <2>1, <2>2, <2>3, <2>4 DEF TtyInv, Calling
<1>13. Sleeping'
  <2>1. \A p \in proc_list'["read"] : pc'[p] # "read_sleep"
    BY <1>15
  <2>2. \A p \in proc_list'["write"] : pc'[p] = "write_sleep" => ier'
    BY <1>4, <1>6, <1>9, <1>15 DEF TtyInv, Sleeping, CopiedTo, GetsUp
  <2>3. ASSUME write_q' # <<>>, ~ier' PROVE \E p \in Process : pc'[p] \in Busy
    <3>1. write_q # <<>> /\ ~ier
      BY <1>4, <1>6, <2>3 DEF CopiedTo
    <3>2. PICK p \in Process : pc[p] \in Busy
      BY <3>1 DEF TtyInv, Sleeping
    <3> QED
      BY <1>9, <3>2 DEF Busy, GetsUp
  <2> QED
    BY <2>1, <2>2, <2>3 DEF Sleeping
<1>16. Chains'
  BY <1>1, <1>4, <1>8, <1>9, <1>15, ReadCharKeepsChains DEF TtyInv
<1>14. LinesInv'
  <2>1. LinesAreCounted'
    <3> SUFFICES ASSUME ~EraseAnywhere PROVE q.data = LineEnds(q.secondary)
      BY <1>4 DEF LinesAreCounted, LineEnds, Ends
    <3>1. data = LineEnds(secondary)
      BY DEF TtyInv, LinesInv, LinesAreCounted, LineEnds, Ends
    <3>2. q.data - LineEnds(q.secondary) = data - LineEnds(secondary)
      BY <1>6 DEF CopiedTo
    <3>3. LineEnds(q.secondary) \in Nat /\ LineEnds(secondary) \in Nat
      BY <1>1, <1>7, EndsAreFinite DEF Buf
    <3> QED
      BY <1>1, <1>7, <3>1, <3>2, <3>3
  <2>2. NewlinesReturn' /\ ReturnsLast'
    BY <1>4, <1>8, <1>11 DEF TtyInv, LinesInv, NewlinesReturn, ReturnsLast
  <2> QED
    BY <2>1, <2>2 DEF LinesInv
<1> QED
  BY <1>10, <1>12, <1>13, <1>14, <1>16 DEF TtyInv

\* Every step of a terminal keeps the invariant.
LEMMA TtyStays ==
  ASSUME TtyInv, TtyNext
  PROVE  TtyInv'
<1>1. CASE \E c \in Use.keys : read_char(c)
  BY <1>1, read_charKeeps
<1>2. CASE write_char
  BY <1>2, write_charKeeps
<1>3. ASSUME NEW p \in Process, TtyInKernel(p)
      PROVE  TtyInv'
  <2>1. CASE \E got \in GETCH : tty_read_getch(p, got[1], got[2])
    BY <2>1, tty_read_getchKeeps
  <2> QED
    BY <1>3, <2>1, tty_readKeeps, tty_writeKeeps, tty_write_putchKeeps, rs_writeKeeps, WakesUpKeeps,
       InterruptedKeeps DEF TtyInKernel
<1>4. ASSUME NEW p \in Process, TtyRead(p) \/ TtyWrite(p) \/ TCFLSH(p) \/ TCSETS(p)
      PROVE  TtyInv'
  BY <1>4, TtyReadKeeps, TtyWriteKeeps, TCFLSHKeeps, TCSETSKeeps
<1> QED
  BY <1>1, <1>2, <1>3, <1>4 DEF TtyNext

(* Terminals: characters come out in the order in which they went in *)

\* A step that puts one character.
LEMMA PutOne ==
  ASSUME NEW s \in Seq(Char), NEW c \in Char, NEW max \in Nat, Len(s) + 1 <= max
  PROVE  /\ Append(s, c) \in Seq(Char)
         /\ Len(Append(s, c)) \in Len(s) + 1..max
         /\ SubSeq(Append(s, c), 1, Len(s)) = s
<1> DEFINE n == Len(s)
           a == Append(s, c)
<1>1. /\ n \in Nat /\ a \in Seq(Char) /\ Len(a) = n + 1 /\ \A i \in 1..n : a[i] = s[i]
  BY LenProperties, AppendProperties
<1>2. Len(a) \in n + 1..max
  BY <1>1
<1> HIDE DEF a
<1>3. /\ 1 \in Int /\ n \in Int /\ n - 1 + 1 = n
      /\ \A i \in 1..n : s[i] \in Char /\ a[i] \in Char /\ 1 + i - 1 = i
  BY <1>1, ElementOfSeq
<1>4. /\ SubSeq(a, 1, n) \in Seq(Char)
      /\ Len(SubSeq(a, 1, n)) = IF 1 <= n THEN n - 1 + 1 ELSE 0
      /\ \A i \in 1..n - 1 + 1 : SubSeq(a, 1, n)[i] = a[1 + i - 1]
  BY <1>3, SubSeqProperties
<1>5. Len(SubSeq(a, 1, n)) = n /\ \A i \in 1..n : SubSeq(a, 1, n)[i] = s[i]
  BY <1>1, <1>3, <1>4
<1>6. SubSeq(a, 1, n) = s
  BY <1>4, <1>5, SeqEqual
<1> QED
  BY <1>1, <1>2, <1>6 DEF a

\* A step that gets one character.
LEMMA GetOne ==
  ASSUME NEW s \in Seq(Char), s # <<>>
  PROVE  /\ 1 \in 1..Len(s)
         /\ <<Head(s)>> = SubSeq(s, 1, 1)
         /\ Tail(s) = SubSeq(s, 1 + 1, Len(s))
<1>1. Len(s) \in Nat \ {0}
  BY EmptySeq
<1>2. 1 \in 1..Len(s) /\ s[1] \in Char /\ Head(s) = s[1]
  BY <1>1, ElementOfSeq
<1>3. /\ SubSeq(s, 1, 1) \in Seq(Char) /\ Len(SubSeq(s, 1, 1)) = 1 /\ SubSeq(s, 1, 1)[1] = s[1]
  <2>1. \A i \in 1..1 : s[i] \in Char
    BY <1>2
  <2> QED
    BY <2>1, SubSeqProperties
<1>4. <<s[1]>> \in Seq(Char) /\ Len(<<s[1]>>) = 1 /\ <<s[1]>>[1] = s[1]
  BY <1>2
<1>5. <<s[1]>> = SubSeq(s, 1, 1)
  <2>1. \A i \in 1..1 : <<s[1]>>[i] = SubSeq(s, 1, 1)[i]
    BY <1>3, <1>4
  <2> QED
    BY <1>3, <1>4, <2>1, SeqEqual
<1>6. Tail(s) = SubSeq(s, 2, Len(s)) /\ 1 + 1 = 2
  BY TailIsSubSeq
<1> QED
  BY <1>2, <1>5, <1>6

\* The first character of two queues is that of the first.
LEMMA FirstOfTwo ==
  ASSUME NEW s \in Seq(Char), NEW t \in Seq(Char), s # <<>>
  PROVE  s \o t \in Seq(Char) /\ s \o t # <<>> /\ Head(s \o t) = Head(s) /\ Tail(s \o t) = Tail(s) \o t
<1> DEFINE a == s \o t
           b == Tail(s) \o t
<1>1. Len(s) \in Nat \ {0} /\ Len(t) \in Nat
  BY EmptySeq, LenProperties
<1>2. /\ a \in Seq(Char) /\ Len(a) = Len(s) + Len(t)
      /\ \A i \in 1..Len(s) + Len(t) : a[i] = IF i <= Len(s) THEN s[i] ELSE t[i - Len(s)]
  BY ConcatProperties
<1>3. /\ Tail(s) \in Seq(Char) /\ Len(Tail(s)) = Len(s) - 1
      /\ \A i \in 1..Len(Tail(s)) : Tail(s)[i] = s[i + 1]
      /\ Head(s) = s[1]
  BY HeadTailProperties
<1>4. /\ b \in Seq(Char) /\ Len(b) = Len(Tail(s)) + Len(t)
      /\ \A i \in 1..Len(Tail(s)) + Len(t) :
           b[i] = IF i <= Len(Tail(s)) THEN Tail(s)[i] ELSE t[i - Len(Tail(s))]
  BY <1>3, ConcatProperties
<1> HIDE DEF a, b
<1>5. a # <<>>
  <2>1. Len(a) # 0
    BY <1>1, <1>2
  <2> QED
    BY <2>1, EmptySeq
<1>6. /\ Tail(a) \in Seq(Char) /\ Len(Tail(a)) = Len(a) - 1
      /\ \A i \in 1..Len(Tail(a)) : Tail(a)[i] = a[i + 1]
      /\ Head(a) = a[1]
  BY <1>2, <1>5, HeadTailProperties
<1>7. Head(a) = Head(s)
  <2>1. 1 \in 1..Len(s) + Len(t) /\ 1 <= Len(s)
    BY <1>1
  <2> QED
    BY <1>2, <1>3, <1>6, <2>1
<1>8. Len(Tail(a)) = Len(b)
  BY <1>1, <1>2, <1>3, <1>4, <1>6
<1>9. \A i \in 1..Len(b) : Tail(a)[i] = b[i]
  <2> SUFFICES ASSUME NEW i \in 1..Len(b) PROVE Tail(a)[i] = b[i]
    OBVIOUS
  <2>1. Tail(a)[i] = a[i + 1]
    BY <1>6, <1>8
  <2>2. i \in Nat /\ i + 1 \in 1..Len(s) + Len(t) /\ i \in 1..Len(Tail(s)) + Len(t)
    BY <1>1, <1>3, <1>4
  <2>3. CASE i <= Len(s) - 1
    <3>1. i + 1 <= Len(s) /\ i \in 1..Len(Tail(s))
      BY <1>1, <1>3, <2>2, <2>3
    <3> QED
      BY <1>2, <1>3, <1>4, <2>1, <2>2, <2>3, <3>1
  <2>4. CASE ~(i <= Len(s) - 1)
    <3>1. ~(i + 1 <= Len(s)) /\ i + 1 - Len(s) = i - (Len(s) - 1)
      BY <1>1, <2>2, <2>4
    <3>2. i - Len(Tail(s)) = i + 1 - Len(s) /\ ~(i <= Len(Tail(s)))
      BY <1>1, <1>3, <2>2, <2>4
    <3>3. a[i + 1] = t[i + 1 - Len(s)]
      BY <1>2, <2>2, <3>1
    <3>4. b[i] = t[i - Len(Tail(s))]
      BY <1>4, <2>2, <3>2
    <3> QED
      BY <2>1, <3>2, <3>3, <3>4, Zenon
  <2> QED
    BY <2>3, <2>4
<1>10. Tail(a) = b
  BY <1>4, <1>6, <1>8, <1>9, SeqEqual
<1> QED
  BY <1>2, <1>5, <1>7, <1>10 DEF a, b

\* What has been typed and not been read.
In == secondary \o read_q

\* A step of Fifo.
Fifo1(bytes, next, got, new, max) ==
  \/ /\ next \in Seq(Char)
     /\ Len(next) \in Len(bytes) + 1..max
     /\ SubSeq(next, 1, Len(bytes)) = bytes
     /\ new = got
  \/ \E n \in 1..Len(bytes) : new = SubSeq(bytes, 1, n) /\ next = SubSeq(bytes, n + 1, Len(bytes))
  \/ next = bytes /\ new = got

\* What a step does to what has been typed and not been read.
LEMMA InMoves ==
  ASSUME TtyInv, TtyNext, Plain
  PROVE  Fifo1(In, In', delivered, delivered', 2 * Size)
<1> USE DEF TtyInv
<1>0. /\ secondary \in Seq(Char) /\ read_q \in Seq(Char) /\ read_q \in Buf /\ secondary \in Buf
      /\ TtyTypeOK /\ lflag = {} /\ Safe
  BY BuffersTyped DEF Typed, Buf, Safe
<1>1. ASSUME NEW c \in Use.keys, read_char(c)
      PROVE  Fifo1(In, In', delivered, delivered', 2 * Size)
  <2> DEFINE keys == IF Full(read_q) THEN read_q ELSE Append(read_q, c)
             q    == FoldLeft(Cook, Queues, keys)
  <2>1. c \in Char
    BY <1>0, UseFacts DEF TtyTypeOK, Char
  <2>2. keys \in Seq(Char) /\ Len(keys) <= Size
    BY <1>0, <2>1, PutFacts DEF Buf
  <2>3. read_q' = q.rest /\ secondary' = q.secondary /\ delivered' = delivered
    BY <1>1 DEF read_char
  <2> HIDE DEF q
  <2>4. Queues \in Cooking
    <3>1. <<>> \in Seq(Char) /\ ier \in BOOLEAN /\ data \in Int /\ write_q \in Buf
      BY <1>0, EmptySeq, BuffersTyped DEF TtyTypeOK
    <3> QED
      BY <1>0, <3>1 DEF Queues, Cooking
  <2> HIDE DEF keys
  <2>5. CopiedTo(keys, q)
    BY <2>2, <2>4, CopyFacts DEF q
  <2>6. In' = secondary \o keys
    BY <1>0, <2>3, <2>5 DEF CopiedTo, In
  <2>7. CASE Full(read_q)
    <3>1. In' = In
      BY <2>6, <2>7 DEF keys, In
    <3> QED
      BY <2>3, <3>1 DEF Fifo1
  <2>8. CASE ~Full(read_q)
    <3>1. In \in Seq(Char) /\ Len(In) = Len(secondary) + Len(read_q)
      BY <1>0, ConcatProperties DEF In
    <3>2. In' = Append(In, c)
      <4>1. keys = Append(read_q, c)
        BY <2>8 DEF keys
      <4>2. secondary \o Append(read_q, c) = Append(secondary \o read_q, c)
        BY <1>0, <2>1, ConcatAppend
      <4> QED
        BY <2>6, <4>1, <4>2 DEF In
    <3>3. Len(In) + 1 <= 2 * Size /\ 2 * Size \in Nat
      <4>1. /\ Len(secondary) \in Nat /\ Len(read_q) \in Nat /\ Size \in Nat
            /\ Len(secondary) <= Size /\ Len(read_q) <= Size
        BY <1>0, SizeIs, LenProperties DEF Buf
      <4>2. Len(read_q) < Size
        BY <2>8, <4>1 DEF Full, Left
      <4> QED
        BY <3>1, <4>1, <4>2
    <3> QED
      BY <2>1, <2>3, <3>1, <3>2, <3>3, PutOne DEF Fifo1
  <2> QED
    BY <2>7, <2>8
<1>2. ASSUME NEW p \in Process, NEW got \in GETCH, tty_read_getch(p, got[1], got[2])
      PROVE  Fifo1(In, In', delivered, delivered', 2 * Size)
  <2>1. pc[p] = "read_getch"
    BY <1>2 DEF tty_read_getch, TtyAt
  <2>2. secondary # <<>>
    BY <1>0, <2>1 DEF Calling
  <2>3. got[1] = Head(secondary) /\ got[2] = Tail(secondary)
    BY <1>0, <2>2, GotFacts
  <2>4. secondary' = Tail(secondary) /\ read_q' = read_q /\ delivered' = <<Head(secondary)>>
    BY <1>2, <2>3 DEF tty_read_getch
  <2>5. In \in Seq(Char) /\ In # <<>> /\ Head(In) = Head(secondary) /\ In' = Tail(In)
    BY <1>0, <2>2, <2>4, FirstOfTwo DEF In
  <2> QED
    BY <2>4, <2>5, GetOne DEF Fifo1
<1>3. CASE UNCHANGED <<secondary, read_q, delivered>>
  BY <1>3 DEF Fifo1, In
<1>4. ASSUME NEW p \in Process,
             \/ tty_read(p) \/ tty_write(p) \/ tty_write_putch(p) \/ rs_write(p)
             \/ \E queue \in Queue : WakesUp(p, queue) \/ Interrupted(p, queue)
             \/ TtyRead(p) \/ TtyWrite(p) \/ TCFLSH(p) \/ TCSETS(p)
      PROVE  UNCHANGED <<secondary, read_q, delivered>>
  BY <1>4 DEF tty_read, tty_write, tty_write_putch, rs_write, LiesDown, WakesUp, Interrupted, TtyRead,
              TtyWrite, TCFLSH, TCSETS, TtyReturns, TtyGoesTo, ttyVars, queueVars, streamVars, Plain
<1>5. CASE write_char
  BY <1>3, <1>5 DEF write_char
<1> QED
  BY <1>1, <1>2, <1>3, <1>4, <1>5 DEF TtyNext, TtyInKernel

\* What a step does to what has been written and not been sent.
LEMMA OutMoves ==
  ASSUME TtyInv, TtyNext, Plain
  PROVE  Fifo1(write_q, write_q', sent, sent', Size)
<1> USE DEF TtyInv
<1>0. write_q \in Seq(Char) /\ write_q \in Buf /\ TtyTypeOK /\ lflag = {}
  BY BuffersTyped DEF Typed, Buf
<1>1. ASSUME NEW p \in Process, tty_write_putch(p)
      PROVE  Fifo1(write_q, write_q', sent, sent', Size)
  <2>1. pc[p] = "write_putch"
    BY <1>1 DEF tty_write_putch, TtyAt
  <2>2. ~Full(write_q) /\ text[p] \in Seq(Char) /\ text[p] # <<>>
    BY <1>0, <2>1 DEF Calling, Typed, InWrite
  <2> DEFINE c == Head(text[p])
             ch == IF Use.opost /\ c = "nl" /\ ~cr_flag THEN "cr" ELSE c
  <2>3. ch \in Char
    <3>1. c \in Char /\ "cr" \in Char
      BY <2>2, HeadTailProperties DEF Char
    <3> QED
      BY <3>1
  <2>4. write_q' = PUTCH(ch, write_q) /\ sent' = sent
    BY <1>1 DEF tty_write_putch
  <2> HIDE DEF ch
  <2>5. write_q' = Append(write_q, ch)
    BY <1>0, <2>2, <2>3, <2>4, PutFacts
  <2>6. Len(write_q) + 1 <= Size /\ Size \in Nat
    BY <1>0, <2>2, SizeIs, LenProperties DEF Buf, Full, Left
  <2> QED
    BY <1>0, <2>3, <2>4, <2>5, <2>6, PutOne DEF Fifo1
<1>2. CASE write_char
  <2>1. CASE write_q = <<>>
    BY <1>2, <2>1 DEF write_char, Fifo1
  <2>2. CASE write_q # <<>>
    <3>1. write_q' = Tail(write_q) /\ sent' = <<Head(write_q)>>
      BY <1>2, <2>2 DEF write_char
    <3> QED
      BY <1>0, <2>2, <3>1, GetOne DEF Fifo1
  <2> QED
    BY <2>1, <2>2
<1>3. CASE UNCHANGED <<write_q, sent>>
  BY <1>3 DEF Fifo1
<1>4. ASSUME NEW c \in Use.keys, read_char(c)
      PROVE  UNCHANGED <<write_q, sent>>
  <2> DEFINE keys == IF Full(read_q) THEN read_q ELSE Append(read_q, c)
             q    == FoldLeft(Cook, Queues, keys)
  <2>1. c \in Char /\ read_q \in Buf
    BY <1>0, UseFacts, BuffersTyped DEF TtyTypeOK, Char
  <2>2. keys \in Seq(Char)
    BY <2>1, PutFacts DEF Buf
  <2>3. write_q' = q.write_q /\ sent' = sent
    BY <1>4 DEF read_char
  <2>4. Queues \in Cooking
    <3>1. <<>> \in Seq(Char) /\ ier \in BOOLEAN /\ data \in Int /\ secondary \in Buf
      BY <1>0, EmptySeq, BuffersTyped DEF TtyTypeOK
    <3> QED
      BY <1>0, <3>1 DEF Queues, Cooking
  <2> HIDE DEF keys
  <2>5. CopiedTo(keys, q)
    BY <2>2, <2>4, CopyFacts
  <2> QED
    BY <1>0, <2>3, <2>5 DEF CopiedTo
<1>5. ASSUME NEW p \in Process,
             \/ tty_read(p) \/ tty_write(p) \/ rs_write(p)
             \/ \E queue \in Queue : WakesUp(p, queue) \/ Interrupted(p, queue)
             \/ TtyRead(p) \/ TtyWrite(p) \/ TCFLSH(p) \/ TCSETS(p)
             \/ \E got \in GETCH : tty_read_getch(p, got[1], got[2])
      PROVE  UNCHANGED <<write_q, sent>>
  BY <1>5 DEF tty_read, tty_write, tty_read_getch, rs_write, LiesDown, WakesUp, Interrupted, TtyRead,
              TtyWrite, TCFLSH, TCSETS, TtyReturns, TtyGoesTo, ttyVars, queueVars, streamVars, Plain
<1> QED
  BY <1>1, <1>2, <1>3, <1>4, <1>5 DEF TtyNext, TtyInKernel

\* How the terminal is used does not change.
LEMMA UseStays ==
  ASSUME TtyNext PROVE use' = use
BY DEF TtyNext, TtyInKernel, read_char, write_char, tty_read, tty_read_getch, tty_write,
       tty_write_putch, rs_write, LiesDown, WakesUp, Interrupted, TtyRead, TtyWrite, TCFLSH, TCSETS,
       TtyReturns, TtyGoesTo, ttyVars, queueVars

(* The theorems *)

\* It is an invariant: each stream keeps to its own part of it.
LEMMA Always == Spec => []IInv
<1>1. Init => IInv
  BY PipeStarts, TtyStarts DEF IInv, Init
<1>2. IInv /\ [Next]_vars => IInv'
  <2> SUFFICES ASSUME IInv, [Next]_vars PROVE IInv'
    OBVIOUS
  <2>1. CASE PipeStep
    BY <2>1, PipeStays DEF PipeStep, IInv
  <2>2. CASE TtyStep
    BY <2>2, TtyStays DEF TtyStep, IInv
  <2>3. CASE UNCHANGED vars
    <3>1. UNCHANGED <<pc, count, delivered, head, tail, page, ends, from, left, faults, kind>>
      BY <2>3 DEF vars, streamVars, ownVars, ringVars
    <3>2. UNCHANGED <<read_q, secondary, data, write_q, cr_flag, ier, sent, use, lflag, need, text, signal,
                      proc_list, tmp>>
      BY <2>3 DEF vars, ttyVars, queueVars, sleepVars
    <3>3. (PipeTypeOK <=> PipeTypeOK') /\ (Stretches <=> Stretches') /\ (PipeSleepers <=> PipeSleepers')
      BY <3>1 DEF PipeTypeOK, Stretches, PipeSleepers, PIPE_SIZE, Room, i_count, Copying
    <3>4. Use' = Use /\ (Plain' <=> Plain) /\ (Safe' <=> Safe)
      BY <3>2 DEF Use, Plain, Safe
    <3>5. (Typed => Typed') /\ (Calling => Calling') /\ (Sleeping => Sleeping')
      BY <3>1, <3>2, <3>4 DEF Typed, TtyTypeOK, Calling, Sleeping, Full, Left
    <3>6. LinesInv => LinesInv'
      BY <3>2, LinesStay
    <3>7. Chains => Chains'
      BY <3>1, <3>2, NothingWakes
    <3> QED
      BY <3>1, <3>3, <3>5, <3>6, <3>7 DEF IInv, PipeInv, TtyInv
  <2> QED
    BY <2>1, <2>2, <2>3 DEF Next
<1> QED
  BY <1>1, <1>2, PTL DEF Spec

\* Without faults bytes come out of a pipe in the order in which they went in:
\* read_pipe() and write_pipe() implement a queue, whoever reads and writes and
\* however long the page is.
THEOREM PipesImplementFifo == Spec => ImplementsFifo
<1> DEFINE seen == IF kind = "pipe" /\ ~faults THEN PipeBytes ELSE <<>>
           got  == IF kind = "pipe" THEN delivered ELSE <<>>
<1>1. Init => PipeFifo!Init
  <2> SUFFICES ASSUME Init PROVE seen = <<>> /\ got = <<>>
    BY DEF PipeFifo!Init
  <2>1. CASE kind = "pipe" /\ ~faults
    <3>1. PipeInv /\ \A p \in Process : ~Copying(p)
      BY <2>1, PipeStarts DEF Init, StreamInit, Copying
    <3>2. PipeBytes = Span(tail, PIPE_SIZE)
      BY <3>1, AtRest DEF PipeInv
    <3>3. head = tail
      BY DEF Init, PipeInit
    <3>4. PIPE_SIZE = 0
      BY <3>1, <3>3, SizeFacts DEF PipeInv
    <3>5. PipeBytes \in Seq(Byte) /\ Len(PipeBytes) = 0
      BY <3>1, <3>2, <3>4, SizeFacts, SpanFacts DEF PipeInv
    <3>6. PipeBytes = <<>>
      BY <3>5, EmptySeq
    <3> QED
      BY <2>1, <3>6 DEF Init, StreamInit
  <2> QED
    BY <2>1 DEF Init, StreamInit
<1>2. IInv /\ [Next]_vars => [PipeFifo!Next]_<<seen, got>>
  <2> SUFFICES ASSUME IInv, [Next]_vars PROVE PipeFifo!Next \/ UNCHANGED <<seen, got>>
    OBVIOUS
  <2>1. CASE PipeStep /\ ~faults
    <3>1. seen = PipeBytes /\ got = delivered /\ seen' = PipeBytes' /\ got' = delivered'
      BY <2>1 DEF PipeStep, PipeNext, InKernel, read_pipe, write_pipe, Returns, SleepsIn,
                  TakeStretch, ReadCopy, WriteCopy, CopyGoesOn, Call, sys_close
    <3> QED
      BY <2>1, <3>1, PipeMoves
         DEF IInv, PipeStep, PipeFifo!Next, PipeFifo!Get, PipeFifo!Put
  <2>2. CASE PipeStep /\ faults
    <3>1. faults' = faults /\ kind' = kind /\ kind = "pipe"
      BY <2>2 DEF PipeStep, PipeNext, InKernel, read_pipe, write_pipe, Returns, SleepsIn,
                  TakeStretch, ReadCopy, WriteCopy, CopyGoesOn, Call, sys_close
    <3>2. PipeInv /\ PipeInv'
      BY <2>2, PipeStays DEF IInv, PipeStep
    <3> QED
      BY <2>2, <3>1, <3>2 DEF PipeInv
  <2>3. CASE TtyStep
    BY <2>3 DEF TtyStep
  <2>4. CASE UNCHANGED vars
    <3>1. UNCHANGED <<pc, delivered, head, tail, page, left, faults, kind>>
      BY <2>4 DEF vars, streamVars, ownVars, ringVars
    <3>2. PipeBytes' = PipeBytes
      BY <3>1 DEF PipeBytes, PIPE_SIZE, Ahead, InTransit
    <3> QED
      BY <3>1, <3>2
  <2> QED
    BY <2>1, <2>2, <2>3, <2>4 DEF Next
<1>3. Spec => PipeFifo!Spec
  BY <1>1, <1>2, Always, PTL DEF Spec, PipeFifo!Spec
<1> QED
  BY <1>3 DEF ImplementsFifo

\* Characters come out of a terminal whose lines are not edited in the order in
\* which they went in, and out of the line in the order in which they were
\* written.
THEOREM TerminalsAreFifo == Spec => TerminalsImplementFifo
<1> DEFINE typed    == IF kind = "tty" /\ Plain THEN secondary \o read_q ELSE <<>>
           read     == IF kind = "tty" THEN delivered ELSE <<>>
           written  == IF kind = "tty" /\ Plain THEN write_q ELSE <<>>
           gone     == IF kind = "tty" /\ Plain THEN sent ELSE <<>>
<1>1. Init => InFifo!Init /\ OutFifo!Init
  <2> SUFFICES ASSUME Init PROVE typed = <<>> /\ read = <<>> /\ written = <<>> /\ gone = <<>>
    BY DEF InFifo!Init, OutFifo!Init
  <2>1. /\ delivered = <<>> /\ secondary = <<>> /\ read_q = <<>> /\ write_q = <<>> /\ sent = <<>>
    BY DEF Init, StreamInit, TtyInit
  <2>2. secondary \o read_q = <<>>
    <3>1. <<>> \in Seq(Char)
      BY EmptySeq
    <3> QED
      BY <2>1, <3>1, ConcatEmptySeq
  <2> QED
    BY <2>1, <2>2
<1>2. IInv /\ IInv' /\ [Next]_vars =>
        /\ [InFifo!Next]_<<typed, read>>
        /\ [OutFifo!Next]_<<written, gone>>
  <2> SUFFICES ASSUME IInv, IInv', [Next]_vars
               PROVE  /\ InFifo!Next \/ UNCHANGED <<typed, read>>
                      /\ OutFifo!Next \/ UNCHANGED <<written, gone>>
    OBVIOUS
  <2>1. CASE TtyStep /\ Plain
    <3>1. kind = "tty" /\ kind' = kind /\ TtyNext /\ use' = use /\ TtyInv
      BY <2>1, UseStays DEF TtyStep, IInv
    <3>2. Plain'
      BY <2>1, <3>1 DEF Plain, Use
    <3>3. /\ typed = In /\ typed' = In' /\ read = delivered /\ read' = delivered'
          /\ written = write_q /\ written' = write_q' /\ gone = sent /\ gone' = sent'
      BY <2>1, <3>1, <3>2 DEF In
    <3>4. Fifo1(typed, typed', read, read', 2 * Size)
      BY <2>1, <3>1, <3>3, InMoves
    <3>5. Fifo1(written, written', gone, gone', Size)
      BY <2>1, <3>1, <3>3, OutMoves
    <3> HIDE DEF typed, read, written, gone
    <3>6. InFifo!Next \/ UNCHANGED <<typed, read>>
      BY <3>4 DEF Fifo1, InFifo!Next, InFifo!Put, InFifo!Get, typed, read
    <3>7. OutFifo!Next \/ UNCHANGED <<written, gone>>
      BY <3>5 DEF Fifo1, OutFifo!Next, OutFifo!Put, OutFifo!Get, written, gone
    <3> QED
      BY <3>6, <3>7
  <2>2. CASE TtyStep /\ ~Plain
    <3>1. kind = "tty" /\ kind' = kind /\ TtyNext /\ use' = use
      BY <2>2, UseStays DEF TtyStep
    <3>2. ~Plain'
      BY <2>2, <3>1 DEF Plain, Use
    <3>3. delivered = <<>> /\ delivered' = <<>>
      BY <2>2, <3>1, <3>2 DEF IInv, TtyInv, Typed
    <3> QED
      BY <2>2, <3>1, <3>2, <3>3
  <2>3. CASE PipeStep
    BY <2>3 DEF PipeStep
  <2>4. CASE UNCHANGED vars
    <3>1. UNCHANGED <<delivered, kind, use, secondary, read_q, write_q, sent>>
      BY <2>4 DEF vars, streamVars, ttyVars, queueVars
    <3>2. Plain' <=> Plain
      BY <3>1 DEF Plain, Use
    <3> QED
      BY <3>1, <3>2
  <2> QED
    BY <2>1, <2>2, <2>3, <2>4 DEF Next
<1>3. Spec => InFifo!Spec
  BY <1>1, <1>2, Always, PTL DEF Spec, InFifo!Spec
<1>4. Spec => OutFifo!Spec
  BY <1>1, <1>2, Always, PTL DEF Spec, OutFifo!Spec
<1> QED
  BY <1>3, <1>4 DEF TerminalsImplementFifo

\* Nobody whom a queue names sleeps for what is there already or for what nobody
\* will tell it, and of one reader or writer the queue keeps the name, as long as
\* no line is erased between EMPTY and GETCH of its reader.
THEOREM SleepersAreWoken ==
  ASSUME ~EraseAnywhere
  PROVE  Spec => []SleepersHaveReason
<1>1. IInv => SleepersHaveReason
  BY DEF IInv, SleepersHaveReason, TypeOK, PipeInv, TtyInv, Typed, Sleeping, Safe, Chains, Chain,
         TtySleepers
<1> QED
  BY <1>1, Always, PTL

\* The ends of lines are counted on the way in and marked on the way out.
THEOREM LinesAreRight == Spec => []LineEndsAreRight
<1>1. IInv => LineEndsAreRight
  BY DEF IInv, LineEndsAreRight, TtyInv, LinesInv
<1> QED
  BY <1>1, Always, PTL
================================================================================
