-------------------------- MODULE BufferCacheProofs --------------------------
(***************************************************************************)
(* Theorems about BufferCache.tla and BlockRequests.tla, for any number of *)
(* processes, buffers, blocks and request slots.                           *)
(*                                                                         *)
(* The invariants build on each other: where a process is and what it      *)
(* holds there (Typed), who owns a lock (LockHasOneOwner), who refers to a *)
(* buffer (References), and what the data are worth (DataInv).             *)
(***************************************************************************)
EXTENDS BufferCache, SequenceTheorems, FiniteSetTheorems, TLAPS

-----------------------------------------------------------------------------
(* The invariants *)

\* A count is a number; that it is none below 0 follows from References.
Head0 == [block : Block \union {NoBlock}, count : Int, lock : BOOLEAN,
          dirt : BOOLEAN, uptodate : BOOLEAN, data : Data]

\* How far a sync can be.
Steps == 0..(2 * NR_BUFFERS + 1)

Types ==
  /\ buf       \in [Buffer -> Head0]
  /\ request   \in [Slot -> Request \union {NoRequest}]
  /\ queue     \in Seq(Slot)
  /\ disk      \in [Block -> Data]
  /\ pc        \in [Process -> Label]
  /\ arg       \in [Process -> Arguments \union {NoRequest}]
  /\ wait      \in [Process -> Buffer \union {WaitForRequest, BufferWait, NoQueue, Unnamed}]
  /\ cpu       \in Process \union {NoProcess}
  /\ free_list \in Seq(Buffer)
  /\ op        \in [Process -> Operation \union {"none"}]
  /\ want      \in [Process -> Block \union {NoBlock}]
  /\ bh        \in [Process -> Buffer \union {NoBuffer}]
  /\ first     \in [Process -> Buffer \union {NoBuffer}]
  /\ victim    \in [Process -> Buffer \union {NoBuffer}]
  /\ scan      \in [Process -> Steps]

\* The labels of make_request(), and the label a process is at outside it.
Making == {"lock", "find_request", "sleep_request", "linked_request"}
Place(p) == IF pc[p] \in Making THEN arg[p].ret ELSE pc[p]

\* The pointers of a process, and the arguments of its make_request(), are
\* those the label says.
Local(p) ==
  /\ arg[p] # NoRequest <=> pc[p] \in Making
  /\ pc[p] \in Making =>
       /\ arg[p].ret = "sync" => arg[p].cmd = "WRITE" /\ ~arg[p].ahead
       /\ arg[p].ret \in {"read_wait", "ahead"} =>
            arg[p].cmd = "READ" /\ arg[p].bh = bh[p] /\ ~arg[p].ahead
       /\ arg[p].ret = "drop" => arg[p].cmd = "READ" /\ arg[p].bh = first[p]
  /\ bh[p] # NoBuffer <=>
       Place(p) \in {"hash_wait", "read_wait", "ahead", "drop", "use", "brelse"}
  /\ first[p] # NoBuffer => Place(p) \in {"getblk", "hash_wait", "free_wait", "sync", "drop"}
  /\ Place(p) = "drop" => first[p] # NoBuffer
  /\ victim[p] # NoBuffer <=> Place(p) = "free_wait" \/ (Place(p) = "sync" /\ op[p] # "sync")
  /\ (first[p] # NoBuffer \/ Place(p) \in {"ahead", "drop"}) => op[p] = "breada"
  /\ Place(p) = "read_wait" => op[p] \in {"read", "modify", "breada"}
  /\ op[p] \in Ops[p] \union {"none"}
  /\ op[p] = "none" <=> pc[p] = "user"
  /\ op[p] = "sync" => Place(p) = "sync"
  /\ want[p] \in Block <=> op[p] \notin {"none", "sync"}
  /\ Place(p) = "sync" => scan[p] >= 1

Typed == Types /\ \A p \in Process : Local(p)

\* Whatever is used, asked for or dirty holds a block: a buffer that has one
\* never loses it, but for another.
HasBlock(b) == buf[b].block \in Block
HaveBlocks ==
  /\ \A b \in Buffer : buf[b].dirt => HasBlock(b)
  /\ \A s \in Slot : request[s] # NoRequest => HasBlock(request[s].bh)
  /\ \A p \in Process : /\ bh[p] # NoBuffer => HasBlock(bh[p])
                        /\ first[p] # NoBuffer => HasBlock(first[p])
                        /\ pc[p] \in Making => HasBlock(arg[p].bh)

\* bh and first are counted, a process has the block it asked for, and no
\* block is in two buffers.
References ==
  /\ \A b \in Buffer : buf[b].count = Cardinality(Holders(bh, b)) + Cardinality(Holders(first, b))
  /\ HeldBufferKeepsBlock
  /\ UniqueBuffer

\* The transfers that are being asked for or are under way: a buffer that is
\* read is not valid, and one that is written is.
Transfer(b, cmd) ==
  \/ \E p \in Lockers(b) : arg[p].cmd = cmd
  \/ \E s \in Requested(b) : request[s].cmd = cmd

BufferData(b) ==
  /\ buf[b].dirt => buf[b].uptodate
  /\ buf[b].uptodate => buf[b].data = "current"
  /\ Transfer(b, "READ") => ~buf[b].uptodate
  /\ Transfer(b, "WRITE") => buf[b].uptodate
  /\ \A p \in Lockers(b) : arg[p].cmd = "WRITE" => buf[b].dirt
  /\ \A s \in Requested(b) :
       request[s].cmd = "WRITE" /\ request[s].sent # "current" => buf[b].dirt

\* What is used is valid; new_block() makes it so before anybody else runs.
UserData(p) ==
  pc[p] = "use" => IF op[p] = "fresh" THEN cpu = p /\ ~buf[bh[p]].lock
                                      ELSE buf[bh[p]].uptodate

DataInv ==
  /\ \A b \in Buffer : BufferData(b)
  /\ \A p \in Process : UserData(p)
  /\ NothingLost

-----------------------------------------------------------------------------
(* What the stores into a buffer head do *)

\* b becomes h.
LEMMA HeadStored ==
  ASSUME Types, NEW b \in Buffer, NEW h \in Head0, buf' = [buf EXCEPT ![b] = h]
  PROVE  /\ buf' \in [Buffer -> Head0]
         /\ \A c \in Buffer \ {b} : buf'[c] = buf[c]
         /\ buf'[b] = h
BY DEF Types

\* b_count becomes n.
LEMMA CountStored ==
  ASSUME Types, NEW b \in Buffer, NEW n \in Int,
         buf' = [buf EXCEPT ![b].count = n]
  PROVE  /\ buf' \in [Buffer -> Head0]
         /\ \A c \in Buffer \ {b} : buf'[c] = buf[c]
         /\ buf'[b].block = buf[b].block /\ buf'[b].count = n
         /\ buf'[b].lock = buf[b].lock /\ buf'[b].dirt = buf[b].dirt
         /\ buf'[b].uptodate = buf[b].uptodate /\ buf'[b].data = buf[b].data
<1> DEFINE h(g) == [g EXCEPT !.count = n]
<1>1. ASSUME NEW g \in Head0
      PROVE  /\ h(g) \in Head0
             /\ h(g).block = g.block /\ h(g).count = n
             /\ h(g).lock = g.lock /\ h(g).dirt = g.dirt
             /\ h(g).uptodate = g.uptodate /\ h(g).data = g.data
  BY DEF Head0, Data
<1>2. buf[b] \in Head0
  BY DEF Types
<1>3. buf' = [buf EXCEPT ![b] = h(buf[b])]
  BY Zenon DEF Types
<1> HIDE DEF h
<1>4. h(buf[b]) \in Head0
  BY <1>1, <1>2, Zenon
<1>5. /\ buf' \in [Buffer -> Head0]
      /\ \A c \in Buffer \ {b} : buf'[c] = buf[c]
      /\ buf'[b] = h(buf[b])
  BY <1>3, <1>4, HeadStored, Zenon
<1> QED BY <1>1, <1>2, <1>5, Zenon

\* The buffer is taken for block k.
LEMMA TakenFor ==
  ASSUME Types, NEW b \in Buffer, NEW k \in Block, NEW n \in Int,
         buf' = [buf EXCEPT ![b].block = k, ![b].count = n, ![b].dirt = FALSE, ![b].uptodate = FALSE, ![b].data = "stale"]
  PROVE  /\ buf' \in [Buffer -> Head0]
         /\ \A c \in Buffer \ {b} : buf'[c] = buf[c]
         /\ buf'[b].block = k /\ buf'[b].count = n
         /\ buf'[b].lock = buf[b].lock /\ buf'[b].dirt = FALSE
         /\ buf'[b].uptodate = FALSE /\ buf'[b].data = "stale"
<1> DEFINE h(g) == [g EXCEPT !.block = k, !.count = n, !.dirt = FALSE, !.uptodate = FALSE, !.data = "stale"]
<1>1. ASSUME NEW g \in Head0
      PROVE  /\ h(g) \in Head0
             /\ h(g).block = k /\ h(g).count = n
             /\ h(g).lock = g.lock /\ h(g).dirt = FALSE
             /\ h(g).uptodate = FALSE /\ h(g).data = "stale"
  <2>1. /\ h(g).block = k /\ h(g).count = n
        /\ h(g).lock = g.lock /\ h(g).dirt = FALSE
        /\ h(g).uptodate = FALSE /\ h(g).data = "stale"
    BY DEF Head0, Data
  <2>2. [g EXCEPT !.block = k] \in Head0
    BY DEF Head0
  <2>3. \A f \in Head0 : [f EXCEPT !.count = n, !.dirt = FALSE, !.uptodate = FALSE,
                                  !.data = "stale"] \in Head0
    BY DEF Head0, Data
  <2>4. h(g) \in Head0
    BY <2>2, <2>3, Zenon
  <2> QED BY <2>1, <2>4
<1>2. buf[b] \in Head0
  BY DEF Types
<1>3. buf' = [buf EXCEPT ![b] = h(buf[b])]
  BY Zenon DEF Types
<1> HIDE DEF h
<1>4. h(buf[b]) \in Head0
  BY <1>1, <1>2, Zenon
<1>5. /\ buf' \in [Buffer -> Head0]
      /\ \A c \in Buffer \ {b} : buf'[c] = buf[c]
      /\ buf'[b] = h(buf[b])
  BY <1>3, <1>4, HeadStored, Zenon
<1> QED BY <1>1, <1>2, <1>5

\* New data: they are current, and the buffer is dirty.
LEMMA DataStored ==
  ASSUME Types, NEW b \in Buffer, NEW u \in BOOLEAN,
         buf' = [buf EXCEPT ![b].data = "current", ![b].dirt = TRUE, ![b].uptodate = u]
  PROVE  /\ buf' \in [Buffer -> Head0]
         /\ \A c \in Buffer \ {b} : buf'[c] = buf[c]
         /\ buf'[b].block = buf[b].block /\ buf'[b].count = buf[b].count
         /\ buf'[b].lock = buf[b].lock /\ buf'[b].dirt = TRUE
         /\ buf'[b].uptodate = u /\ buf'[b].data = "current"
<1> DEFINE h(g) == [g EXCEPT !.data = "current", !.dirt = TRUE, !.uptodate = u]
<1>1. ASSUME NEW g \in Head0
      PROVE  /\ h(g) \in Head0
             /\ h(g).block = g.block /\ h(g).count = g.count
             /\ h(g).lock = g.lock /\ h(g).dirt = TRUE
             /\ h(g).uptodate = u /\ h(g).data = "current"
  BY DEF Head0, Data
<1>2. buf[b] \in Head0
  BY DEF Types
<1>3. buf' = [buf EXCEPT ![b] = h(buf[b])]
  BY Zenon DEF Types
<1> HIDE DEF h
<1>4. h(buf[b]) \in Head0
  BY <1>1, <1>2, Zenon
<1>5. /\ buf' \in [Buffer -> Head0]
      /\ \A c \in Buffer \ {b} : buf'[c] = buf[c]
      /\ buf'[b] = h(buf[b])
  BY <1>3, <1>4, HeadStored, Zenon
<1> QED BY <1>1, <1>2, <1>5, Zenon

\* b_lock is set or cleared.
LEMMA LockStored ==
  ASSUME Types, NEW b \in Buffer, NEW l \in BOOLEAN,
         buf' = [buf EXCEPT ![b].lock = l]
  PROVE  /\ buf' \in [Buffer -> Head0]
         /\ \A c \in Buffer \ {b} : buf'[c] = buf[c]
         /\ buf'[b].block = buf[b].block /\ buf'[b].count = buf[b].count
         /\ buf'[b].lock = l /\ buf'[b].dirt = buf[b].dirt
         /\ buf'[b].uptodate = buf[b].uptodate /\ buf'[b].data = buf[b].data
<1> DEFINE h(g) == [g EXCEPT !.lock = l]
<1>1. ASSUME NEW g \in Head0
      PROVE  /\ h(g) \in Head0
             /\ h(g).block = g.block /\ h(g).count = g.count
             /\ h(g).lock = l /\ h(g).dirt = g.dirt
             /\ h(g).uptodate = g.uptodate /\ h(g).data = g.data
  BY DEF Head0, Data
<1>2. buf[b] \in Head0
  BY DEF Types
<1>3. buf' = [buf EXCEPT ![b] = h(buf[b])]
  BY Zenon DEF Types
<1> HIDE DEF h
<1>4. h(buf[b]) \in Head0
  BY <1>1, <1>2, Zenon
<1>5. /\ buf' \in [Buffer -> Head0]
      /\ \A c \in Buffer \ {b} : buf'[c] = buf[c]
      /\ buf'[b] = h(buf[b])
  BY <1>3, <1>4, HeadStored, Zenon
<1> QED BY <1>1, <1>2, <1>5, Zenon

\* add_request() clears b_dirt.
LEMMA DirtCleared ==
  ASSUME Types, NEW b \in Buffer, 
         buf' = [buf EXCEPT ![b].dirt = FALSE]
  PROVE  /\ buf' \in [Buffer -> Head0]
         /\ \A c \in Buffer \ {b} : buf'[c] = buf[c]
         /\ buf'[b].block = buf[b].block /\ buf'[b].count = buf[b].count
         /\ buf'[b].lock = buf[b].lock /\ buf'[b].dirt = FALSE
         /\ buf'[b].uptodate = buf[b].uptodate /\ buf'[b].data = buf[b].data
<1> DEFINE h(g) == [g EXCEPT !.dirt = FALSE]
<1>1. ASSUME NEW g \in Head0
      PROVE  /\ h(g) \in Head0
             /\ h(g).block = g.block /\ h(g).count = g.count
             /\ h(g).lock = g.lock /\ h(g).dirt = FALSE
             /\ h(g).uptodate = g.uptodate /\ h(g).data = g.data
  BY DEF Head0, Data
<1>2. buf[b] \in Head0
  BY DEF Types
<1>3. buf' = [buf EXCEPT ![b] = h(buf[b])]
  BY Zenon DEF Types
<1> HIDE DEF h
<1>4. h(buf[b]) \in Head0
  BY <1>1, <1>2, Zenon
<1>5. /\ buf' \in [Buffer -> Head0]
      /\ \A c \in Buffer \ {b} : buf'[c] = buf[c]
      /\ buf'[b] = h(buf[b])
  BY <1>3, <1>4, HeadStored, Zenon
<1> QED BY <1>1, <1>2, <1>5, Zenon

\* end_request() unlocks the buffer, with data d.
LEMMA TransferEnded ==
  ASSUME Types, NEW b \in Buffer, NEW u \in BOOLEAN, NEW d \in Data,
         buf' = [buf EXCEPT ![b].uptodate = u, ![b].lock = FALSE, ![b].data = d]
  PROVE  /\ buf' \in [Buffer -> Head0]
         /\ \A c \in Buffer \ {b} : buf'[c] = buf[c]
         /\ buf'[b].block = buf[b].block /\ buf'[b].count = buf[b].count
         /\ buf'[b].lock = FALSE /\ buf'[b].dirt = buf[b].dirt
         /\ buf'[b].uptodate = u /\ buf'[b].data = d
<1> DEFINE h(g) == [g EXCEPT !.uptodate = u, !.lock = FALSE, !.data = d]
<1>1. ASSUME NEW g \in Head0
      PROVE  /\ h(g) \in Head0
             /\ h(g).block = g.block /\ h(g).count = g.count
             /\ h(g).lock = FALSE /\ h(g).dirt = g.dirt
             /\ h(g).uptodate = u /\ h(g).data = d
  BY DEF Head0, Data
<1>2. buf[b] \in Head0
  BY DEF Types
<1>3. buf' = [buf EXCEPT ![b] = h(buf[b])]
  BY Zenon DEF Types
<1> HIDE DEF h
<1>4. h(buf[b]) \in Head0
  BY <1>1, <1>2, Zenon
<1>5. /\ buf' \in [Buffer -> Head0]
      /\ \A c \in Buffer \ {b} : buf'[c] = buf[c]
      /\ buf'[b] = h(buf[b])
  BY <1>3, <1>4, HeadStored, Zenon
<1> QED BY <1>1, <1>2, <1>5, Zenon

-----------------------------------------------------------------------------
(* Where a process is and what it holds there *)

\* What a step of p leaves alone about q stays as the label says.
LEMMA OthersLocal ==
  ASSUME NEW q \in Process, Local(q),
         pc'[q] = pc[q], arg'[q] = arg[q], op'[q] = op[q], want'[q] = want[q],
         bh'[q] = bh[q], first'[q] = first[q], victim'[q] = victim[q], scan'[q] = scan[q]
  PROVE  Local(q)'
BY DEF Local, Place

\* What the assumptions on the constants give, in the form the steps need it.
LEMMA Constants ==
  /\ 0 \in Steps /\ 1 \in Steps /\ NR_BUFFERS + 1 \in Steps
  /\ \A i \in Steps : i <= 2 * NR_BUFFERS => i + 1 \in Steps
  /\ "none" \notin Operation
  /\ \A p \in Process : Ops[p] \subseteq Operation
  /\ NoBlock \notin Block /\ NoBuffer \notin Buffer
BY BlockRequestsAssumption, BufferCacheAssumption DEF Steps, Operation

\* p is told to read, or gets what it asked for: b for its block.
Returned(p, b) ==
  /\ pc' \in [Process -> Label] /\ cpu' = p
  /\ arg' \in [Process -> Arguments \union {NoRequest}]
  /\ \A q \in Process \ {p} : pc'[q] = pc[q] /\ arg'[q] = arg[q]
  /\ pc'[p] = "lock" => arg'[p] \in Arguments
  /\ \/ /\ arg' = arg
        /\ pc'[p] = IF op[p] # "breada" THEN "use"
                    ELSE IF first[p] = NoBuffer THEN "ahead" ELSE "drop"
     \/ /\ pc'[p] = "lock"
        /\ arg'[p] = [cmd |-> "READ", bh |-> b, ahead |-> FALSE,
                      ret |-> IF op[p] = "breada" THEN "ahead" ELSE "read_wait"]
        /\ first[p] = NoBuffer
        /\ op[p] \in {"read", "modify", "breada"}
     \/ /\ pc'[p] = "lock"
        /\ arg'[p] = [cmd |-> "READ", bh |-> first[p], ahead |-> TRUE, ret |-> "drop"]
        /\ first[p] \in Buffer
        /\ op[p] = "breada"

\* getblk() returns b to its caller.
LEMMA GetblkReturnsTyped ==
  ASSUME Types, NEW p \in Process, NEW b \in Buffer, NEW u \in BOOLEAN,
         first[p] # NoBuffer => op[p] = "breada",
         op[p] \in {"read", "modify", "fresh", "write", "breada"},
         GetblkReturns(p, b, u)
  PROVE  Returned(p, b)
<1> USE DEF Returned
<1>1. CASE u \/ op[p] \in {"fresh", "write"}
  BY <1>1 DEF GetblkReturns, Goto, Types, Label
<1>2. CASE ~(u \/ op[p] \in {"fresh", "write"}) /\ op[p] # "breada"
  <2>1. LowLevel(p, "READ", b, FALSE, "read_wait")
    BY <1>2 DEF GetblkReturns
  <2>2. first[p] = NoBuffer
    BY <1>2
  <2> DEFINE a == [cmd |-> "READ", bh |-> b, ahead |-> FALSE, ret |-> "read_wait"]
  <2>3. a \in Arguments
    BY DEF Arguments
  <2>4. arg' = [arg EXCEPT ![p] = a] /\ pc' = [pc EXCEPT ![p] = "lock"] /\ cpu' = p
    BY <2>1 DEF LowLevel, Goto
  <2>5. arg'[p] = [cmd |-> "READ", bh |-> b, ahead |-> FALSE,
                   ret |-> IF op[p] = "breada" THEN "ahead" ELSE "read_wait"]
    BY <2>4, <1>2 DEF Types
  <2> HIDE DEF a
  <2> QED BY <1>2, <2>2, <2>3, <2>4, <2>5 DEF Types, Label
<1>3. CASE ~u /\ op[p] = "breada" /\ first[p] = NoBuffer
  <2>1. LowLevel(p, "READ", b, FALSE, "ahead")
    BY <1>3 DEF GetblkReturns
  <2> DEFINE a == [cmd |-> "READ", bh |-> b, ahead |-> FALSE, ret |-> "ahead"]
  <2>2. a \in Arguments
    BY DEF Arguments
  <2>3. arg' = [arg EXCEPT ![p] = a] /\ pc' = [pc EXCEPT ![p] = "lock"] /\ cpu' = p
    BY <2>1 DEF LowLevel, Goto
  <2>4. arg'[p] = [cmd |-> "READ", bh |-> b, ahead |-> FALSE,
                   ret |-> IF op[p] = "breada" THEN "ahead" ELSE "read_wait"]
    BY <2>3, <1>3 DEF Types
  <2> HIDE DEF a
  <2> QED BY <1>3, <2>2, <2>3, <2>4 DEF Types, Label
<1>4. CASE ~u /\ op[p] = "breada" /\ first[p] # NoBuffer
  <2>1. LowLevel(p, "READ", first[p], TRUE, "drop")
    BY <1>4 DEF GetblkReturns
  <2>2. first[p] \in Buffer
    BY <1>4 DEF Types
  <2>3. CASE buf[first[p]].lock
    BY <1>4, <2>1, <2>3 DEF LowLevel, Goto, Types, Label
  <2>4. CASE ~buf[first[p]].lock
    <3> DEFINE a == [cmd |-> "READ", bh |-> first[p], ahead |-> TRUE, ret |-> "drop"]
    <3>1. a \in Arguments
      BY <2>2 DEF Arguments
    <3>2. arg' = [arg EXCEPT ![p] = a] /\ pc' = [pc EXCEPT ![p] = "lock"] /\ cpu' = p
      BY <2>1, <2>4 DEF LowLevel, Goto
    <3>3. arg'[p] = [cmd |-> "READ", bh |-> first[p], ahead |-> TRUE, ret |-> "drop"]
      BY <3>2 DEF Types
    <3> HIDE DEF a
    <3> QED BY <1>4, <2>2, <3>1, <3>2, <3>3 DEF Types, Label
  <2> QED BY <2>3, <2>4
<1> QED BY <1>1, <1>2, <1>3, <1>4

\* Where getblk() returns to knows what it returned.
LEMMA ReturnedLocal ==
  ASSUME Types, NEW p \in Process, NEW b \in Buffer, Returned(p, b),
         arg[p] = NoRequest, want[p] \in Block,
         first[p] # NoBuffer => op[p] = "breada", op[p] \in Ops[p],
         op[p] \in {"read", "modify", "fresh", "write", "breada"},
         op'[p] = op[p], want'[p] = want[p], bh'[p] = b, first'[p] = first[p],
         victim'[p] = NoBuffer
  PROVE  Local(p)'
<1>1. b # NoBuffer /\ first[p] \in Buffer \union {NoBuffer}
  BY BufferCacheAssumption DEF Types
<1>2. CASE arg' = arg /\ pc'[p] = IF op[p] # "breada" THEN "use"
                                ELSE IF first[p] = NoBuffer THEN "ahead" ELSE "drop"
  BY <1>1, <1>2 DEF Local, Place, Making
<1>3. CASE pc'[p] = "lock" /\ first[p] = NoBuffer
           /\ arg'[p] = [cmd |-> "READ", bh |-> b, ahead |-> FALSE,
                         ret |-> IF op[p] = "breada" THEN "ahead" ELSE "read_wait"]
           /\ op[p] \in {"read", "modify", "breada"}
  <2>1. arg'[p] # NoRequest
    BY <1>3, NoRequestAssumption DEF Returned
  <2>2. /\ arg'[p].cmd = "READ" /\ arg'[p].bh = b /\ ~arg'[p].ahead
        /\ arg'[p].ret = IF op[p] = "breada" THEN "ahead" ELSE "read_wait"
    BY <1>3
  <2> QED BY <1>1, <1>3, <2>1, <2>2 DEF Local, Place, Making
<1>4. CASE pc'[p] = "lock" /\ first[p] \in Buffer /\ op[p] = "breada"
           /\ arg'[p] = [cmd |-> "READ", bh |-> first[p], ahead |-> TRUE, ret |-> "drop"]
  <2>1. arg'[p] # NoRequest
    BY <1>4, NoRequestAssumption DEF Returned
  <2>2. /\ arg'[p].cmd = "READ" /\ arg'[p].bh = first[p] /\ arg'[p].ret = "drop"
    BY <1>4
  <2>3. first[p] # NoBuffer
    BY <1>4, BufferCacheAssumption
  <2> QED BY <1>1, <1>4, <2>1, <2>2, <2>3 DEF Local, Place, Making
<1> QED BY <1>2, <1>3, <1>4 DEF Returned

\* A step of p that does its types right and moves nothing of the others.
LEMMA TypedStep ==
  ASSUME Typed, NEW p \in Process, Types', Local(p)',
         \A q \in Process \ {p} :
           /\ pc'[q] = pc[q] /\ arg'[q] = arg[q] /\ op'[q] = op[q] /\ want'[q] = want[q]
           /\ bh'[q] = bh[q] /\ first'[q] = first[q] /\ victim'[q] = victim[q]
           /\ scan'[q] = scan[q]
  PROVE  Typed'
BY OthersLocal DEF Typed

\* get_hash_table() finds a buffer, counts its user and waits for its lock.
LEMMA FindInHashTyped ==
  ASSUME Typed, NEW p \in Process, FindInHash(p) PROVE Typed'
<1> USE DEF Types
<1>1. Types /\ Local(p)
  BY DEF Typed
<1>2. PICK b \in Buffer : /\ buf' = [buf EXCEPT ![b].count = buf[b].count + 1]
                          /\ bh' = [bh EXCEPT ![p] = b]
  BY DEF FindInHash, find_buffer
<1>3. buf[b].count + 1 \in Int
  BY <1>1 DEF Head0
<1>4. buf' \in [Buffer -> Head0]
  BY <1>1, <1>2, <1>3, CountStored
<1>5. Types'
  BY <1>1, <1>2, <1>4 DEF FindInHash, Goto, Label
<1>6. Local(p)'
  BY <1>1, <1>2, Constants DEF FindInHash, At, Goto, Local, Place, Making
<1> QED BY <1>1, <1>2, <1>5, <1>6, TypedStep DEF FindInHash, Goto

\* The buffer is still the one asked for.
LEMMA HashReturned ==
  ASSUME Typed, NEW p \in Process, HashWaited(p), buf[bh[p]].block = want[p]
  PROVE  /\ Returned(p, bh[p]) /\ bh[p] \in Buffer
         /\ UNCHANGED <<buf, bh, request, queue, disk, wait, free_list, op, want,
                        first, victim, scan>>
<1> USE DEF Types
<1>1. Types /\ Local(p)
  BY DEF Typed
<1>2. pc[p] = "hash_wait" /\ bh[p] \in Buffer
  BY <1>1 DEF HashWaited, At, Local, Place, Making
<1>3. op[p] \in Ops[p] /\ op[p] \in {"read", "modify", "fresh", "write", "breada"}
  BY <1>1, <1>2, BufferCacheAssumption DEF Local, Place, Making, Operation
<1>4. GetblkReturns(p, bh[p], buf[bh[p]].uptodate) /\ UNCHANGED <<buf, bh>>
      /\ UNCHANGED <<request, queue, disk, wait, free_list, op, want, first, victim, scan>>
  BY DEF HashWaited
<1>5. buf[bh[p]].uptodate \in BOOLEAN
  BY <1>1, <1>2 DEF Head0
<1>6. first[p] # NoBuffer => op[p] = "breada"
  BY <1>1 DEF Local
<1>7. Returned(p, bh[p])
  BY <1>1, <1>2, <1>3, <1>4, <1>5, <1>6, GetblkReturnsTyped
<1> QED BY <1>2, <1>4, <1>7

\* The end of that wait: the buffer is taken, or given back and looked up again.
LEMMA HashWaitedTyped ==
  ASSUME Typed, NEW p \in Process, HashWaited(p) PROVE Typed'
<1> USE DEF Types
<1>1. Types /\ Local(p)
  BY DEF Typed
<1>2. pc[p] = "hash_wait" /\ bh[p] \in Buffer /\ bh[p] # NoBuffer /\ victim[p] = NoBuffer
  BY <1>1 DEF HashWaited, At, Local, Place, Making
<1>3. op[p] \in Ops[p] /\ op[p] \in {"read", "modify", "fresh", "write", "breada"}
  BY <1>1, <1>2, BufferCacheAssumption DEF Local, Place, Making, Operation
<1>4. CASE buf[bh[p]].block = want[p]
  <2>1. /\ Returned(p, bh[p])
        /\ UNCHANGED <<buf, bh, request, queue, disk, wait, free_list, op, want, first,
                       victim, scan>>
    BY <1>4, HashReturned
  <2>3. first[p] # NoBuffer => op[p] = "breada"
    BY <1>1 DEF Local
  <2>5. Types'
    BY <1>1, <2>1 DEF Returned
  <2>6. arg[p] = NoRequest /\ want[p] \in Block
    BY <1>1, <1>2, <1>3 DEF Local, Making
  <2>7. Local(p)'
    BY <1>1, <1>2, <1>3, <2>1, <2>3, <2>6, ReturnedLocal
  <2> QED BY <1>1, <2>1, <2>5, <2>7, TypedStep DEF Returned
<1>5. CASE buf[bh[p]].block # want[p]
  <2>1. /\ buf' = [buf EXCEPT ![bh[p]].count = buf[bh[p]].count - 1]
        /\ bh' = [bh EXCEPT ![p] = NoBuffer]
        /\ pc' = [pc EXCEPT ![p] = "getblk"] /\ cpu' = p /\ UNCHANGED arg
        /\ UNCHANGED <<request, queue, disk, wait, free_list, op, want, first, victim, scan>>
    BY <1>5 DEF HashWaited, Goto
  <2>2. buf[bh[p]].count - 1 \in Int
    BY <1>1, <1>2 DEF Head0
  <2>3. buf' \in [Buffer -> Head0]
    BY <1>1, <1>2, <2>1, <2>2, CountStored
  <2>4. Types'
    BY <1>1, <2>1, <2>3 DEF Label
  <2>5. Local(p)'
    BY <1>1, <1>2, <2>1 DEF Local, Place, Making
  <2> QED BY <1>1, <2>1, <2>4, <2>5, TypedStep
<1> QED BY <1>4, <1>5

\* getblk() chooses a victim among the unused buffers, or sleeps for one.
LEMMA GetblkTyped ==
  ASSUME Typed, NEW p \in Process, ChooseVictim(p) \/ SleepForBuffer(p) PROVE Typed'
<1> USE DEF Types
<1>1. Types /\ Local(p)
  BY DEF Typed
<1>2. CASE ChooseVictim(p)
  <2>1. PICK b \in Buffer : victim' = [victim EXCEPT ![p] = b]
    <3>1. PICK i \in 1..Len(free_list) : victim' = [victim EXCEPT ![p] = free_list[i]]
      BY <1>2 DEF ChooseVictim, Unused
    <3>2. free_list[i] \in Buffer
      BY <1>1
    <3> QED BY <3>1, <3>2
  <2>2. Types'
    BY <1>1, <1>2, <2>1 DEF ChooseVictim, Goto, Label
  <2>3. Local(p)'
    BY <1>1, <1>2, <2>1, Constants DEF ChooseVictim, At, Goto, Local, Place, Making
  <2> QED BY <1>1, <1>2, <2>1, <2>2, <2>3, TypedStep DEF ChooseVictim, Goto
<1>3. CASE SleepForBuffer(p)
  BY <1>1, <1>3, TypedStep DEF SleepForBuffer, SleepOn, cacheVars, Local, Place
<1> QED BY <1>2, <1>3

\* What getblk() stores in its victim.
LEMMA VictimTaken ==
  ASSUME Types, NEW p \in Process, NEW b \in Buffer, want[p] \in Block, TakeVictim(p, b)
  PROVE  /\ buf' \in [Buffer -> Head0]
         /\ \A c \in Buffer \ {b} : buf'[c] = buf[c]
         /\ buf'[b].block = want[p] /\ buf'[b].count = 1
         /\ buf'[b].lock = buf[b].lock /\ buf'[b].dirt = FALSE
         /\ buf'[b].uptodate = FALSE /\ buf'[b].data = "stale"
<1>1. PICK n \in Int : n = 1
  OBVIOUS
<1>2. PICK k \in Block : k = want[p]
  OBVIOUS
<1>3. buf' = [buf EXCEPT ![b].block = k, ![b].count = n, ![b].dirt = FALSE,
                        ![b].uptodate = FALSE, ![b].data = "stale"]
  BY <1>1, <1>2, Zenon DEF TakeVictim
<1>4. /\ buf' \in [Buffer -> Head0]
      /\ \A c \in Buffer \ {b} : buf'[c] = buf[c]
      /\ buf'[b].block = k /\ buf'[b].count = n
      /\ buf'[b].lock = buf[b].lock /\ buf'[b].dirt = FALSE
      /\ buf'[b].uptodate = FALSE /\ buf'[b].data = "stale"
  BY <1>3, TakenFor
<1> QED BY <1>1, <1>2, <1>4

\* The victim goes to the process that asks for it.
LEMMA VictimReturned ==
  ASSUME Typed, NEW p \in Process, VictimWaited(p), TakeVictim(p, victim[p])
  PROVE  /\ victim[p] \in Buffer /\ arg[p] = NoRequest /\ bh[p] = NoBuffer
         /\ op[p] \in {"read", "modify", "fresh", "write", "breada"} /\ want[p] \in Block
         /\ Returned(p, victim[p])
         /\ bh' = [bh EXCEPT ![p] = victim[p]]
         /\ victim' = [victim EXCEPT ![p] = NoBuffer]
         /\ UNCHANGED <<request, queue, disk, wait, op, want, first, scan>>
<1> USE DEF Types
<1>1. Types /\ Local(p)
  BY DEF Typed
<1>2. pc[p] = "free_wait" /\ victim[p] \in Buffer /\ bh[p] = NoBuffer /\ arg[p] = NoRequest
  BY <1>1 DEF VictimWaited, At, Local, Place, Making
<1>3. op[p] \in Ops[p] /\ op[p] \in {"read", "modify", "fresh", "write", "breada"} /\ want[p] \in Block
  BY <1>1, <1>2, BufferCacheAssumption DEF Local, Place, Making, Operation
<1>4. /\ bh' = [bh EXCEPT ![p] = victim[p]]
      /\ victim' = [victim EXCEPT ![p] = NoBuffer]
      /\ GetblkReturns(p, victim[p], FALSE)
      /\ UNCHANGED scan
      /\ UNCHANGED <<request, queue, disk, wait, op, want, first>>
  BY DEF TakeVictim, VictimWaited
<1>5. first[p] # NoBuffer => op[p] = "breada"
  BY <1>1 DEF Local
<1>6. Returned(p, victim[p])
  BY <1>1, <1>2, <1>3, <1>4, <1>5, GetblkReturnsTyped
<1> QED BY <1>2, <1>3, <1>4, <1>6

\* The end of the wait for the victim: start again, clean it, or take it.
LEMMA VictimWaitedTyped ==
  ASSUME Typed, NEW p \in Process, VictimWaited(p) PROVE Typed'
<1> USE DEF Types
<1> DEFINE b == victim[p]
<1>1. Types /\ Local(p)
  BY DEF Typed
<1>2. pc[p] = "free_wait" /\ b \in Buffer /\ b # NoBuffer /\ bh[p] = NoBuffer
      /\ arg[p] = NoRequest
  BY <1>1 DEF VictimWaited, At, Local, Place, Making
<1>3. op[p] \in Ops[p] /\ op[p] \in {"read", "modify", "fresh", "write", "breada"} /\ want[p] \in Block
  BY <1>1, <1>2, BufferCacheAssumption DEF Local, Place, Making, Operation
<1>4. UNCHANGED <<request, queue, disk, wait, op, want, first>>
  BY DEF VictimWaited
<1> HIDE DEF b
<1>5. CASE GetblkRepeats(p, b)
  <2>1. Types'
    BY <1>1, <1>4, <1>5 DEF GetblkRepeats, Goto, Label
  <2>2. Local(p)'
    BY <1>1, <1>2, <1>3, <1>4, <1>5 DEF GetblkRepeats, Goto, Local, Place, Making
  <2> QED BY <1>1, <1>4, <1>5, <2>1, <2>2, TypedStep DEF GetblkRepeats, Goto
<1>6. CASE CleanVictim(p)
  <2>1. Types'
    BY <1>1, <1>4, <1>6, Constants DEF CleanVictim, Goto, Label
  <2>2. Local(p)'
    <3>1. scan'[p] = 1 /\ 1 >= 1
      BY <1>1, <1>6 DEF CleanVictim
    <3> QED BY <1>1, <1>2, <1>3, <1>4, <1>6, <3>1 DEF CleanVictim, Goto, Local, Place, Making
  <2> QED BY <1>1, <1>4, <1>6, <2>1, <2>2, TypedStep DEF CleanVictim, Goto
<1>7. CASE TakeVictim(p, b)
  <2>1. buf' \in [Buffer -> Head0]
    BY <1>1, <1>2, <1>3, <1>7, VictimTaken
  <2>2. /\ Returned(p, b)
        /\ bh' = [bh EXCEPT ![p] = b]
        /\ victim' = [victim EXCEPT ![p] = NoBuffer]
        /\ UNCHANGED scan
    BY <1>7, VictimReturned DEF b
  <2>3. free_list' \in Seq(Buffer)
    <3>1. free_list \in Seq(Buffer) /\ <<b>> \in Seq(Buffer)
      BY <1>1, <1>2
    <3>2. \A i \in 1..Len(free_list) : SubSeq(free_list, 1, i - 1) \in Seq(Buffer)
                                       /\ SubSeq(free_list, i + 1, Len(free_list)) \in Seq(Buffer)
      BY <3>1, SubSeqProperties
    <3> QED BY <1>7, <3>1, <3>2 DEF ToEnd, TakeVictim
  <2>4. first[p] # NoBuffer => op[p] = "breada"
    BY <1>1 DEF Local
  <2>6. Types'
    BY <1>1, <1>2, <1>4, <2>1, <2>2, <2>3 DEF Returned
  <2>7. /\ op'[p] = op[p] /\ want'[p] = want[p] /\ bh'[p] = b
        /\ first'[p] = first[p] /\ victim'[p] = NoBuffer
    BY <1>1, <1>4, <2>2
  <2>8. Local(p)'
    BY <1>1, <1>2, <1>3, <2>2, <2>4, <2>7, ReturnedLocal
  <2> QED BY <1>1, <1>4, <2>2, <2>6, <2>8, TypedStep DEF Returned
<1> QED BY <1>5, <1>6, <1>7 DEF VictimWaited, b

\* sync_dev() scans the buffers, waits for each, and ends.
LEMMA SyncTyped ==
  ASSUME Typed, NEW p \in Process, SyncBuffer(p) \/ SyncWait(p) \/ SyncDone(p)
  PROVE  Typed'
<1> USE DEF Types
<1>1. Types /\ Local(p)
  BY DEF Typed
<1>2. pc[p] = "sync" /\ bh[p] = NoBuffer /\ arg[p] = NoRequest
  BY <1>1 DEF SyncBuffer, SyncWait, SyncDone, At, Local, Place, Making
<1>3. scan[p] \in Steps /\ scan[p] >= 1
  BY <1>1, <1>2 DEF Local, Place, Making
<1>4. scan[p] <= 2 * NR_BUFFERS => Scanned(p) \in Buffer
  BY <1>3, BlockRequestsAssumption DEF Scanned, Steps, Buffer
<1>5. CASE SyncBuffer(p)
  <2>1. /\ scan[p] <= 2 * NR_BUFFERS
        /\ scan' = [scan EXCEPT ![p] = scan[p] + 1]
        /\ UNCHANGED <<buf, request, queue, disk, wait, free_list, op, want, bh, first, victim>>
    BY <1>5 DEF SyncBuffer
  <2>2. scan[p] + 1 \in Steps /\ scan[p] + 1 >= 1
    BY <1>3, <2>1, BlockRequestsAssumption DEF Steps
  <2>3. scan' \in [Process -> Steps] /\ scan'[p] >= 1
    BY <1>1, <2>1, <2>2
  <2>4. CASE Goto(p, "sync") /\ UNCHANGED arg
    <3>1. Types'
      BY <1>1, <2>1, <2>3, <2>4 DEF Goto, Label
    <3>2. Local(p)'
      BY <1>1, <1>2, <2>1, <2>3, <2>4 DEF Goto, Local, Place, Making
    <3> QED BY <1>1, <2>1, <2>4, <3>1, <3>2, TypedStep DEF Goto
  <2>5. CASE LowLevel(p, "WRITE", Scanned(p), FALSE, "sync")
    <3> DEFINE a == [cmd |-> "WRITE", bh |-> Scanned(p), ahead |-> FALSE, ret |-> "sync"]
    <3>1. a \in Arguments /\ a.ret = "sync" /\ a.cmd = "WRITE" /\ ~a.ahead
      BY <1>4, <2>1 DEF Arguments
    <3>2. arg' = [arg EXCEPT ![p] = a] /\ pc' = [pc EXCEPT ![p] = "lock"] /\ cpu' = p
      BY <2>5 DEF LowLevel, Goto
    <3> HIDE DEF a
    <3>3. Types'
      BY <1>1, <2>1, <2>3, <3>1, <3>2 DEF Label
    <3>4. Local(p)'
      BY <1>1, <1>2, <2>1, <2>3, <3>1, <3>2, NoRequestAssumption DEF Local, Place, Making
    <3> QED BY <1>1, <2>1, <3>2, <3>3, <3>4, TypedStep
  <2> QED BY <1>5, <2>4, <2>5 DEF SyncBuffer
<1>6. CASE SyncWait(p)
  <2>1. /\ scan[p] <= 2 * NR_BUFFERS /\ wait' = [wait EXCEPT ![p] = Scanned(p)]
        /\ cpu' = NoProcess
        /\ UNCHANGED <<buf, request, queue, disk, pc, arg>> /\ UNCHANGED cacheVars
    BY <1>6 DEF SyncWait, WaitOnBuffer, SleepOn
  <2>2. Types'
    BY <1>1, <1>4, <2>1 DEF cacheVars
  <2> QED BY <1>1, <2>1, <2>2, TypedStep DEF cacheVars, Local, Place
<1>7. CASE SyncDone(p)
  <2>1. Types'
    BY <1>1, <1>7, Constants DEF SyncDone, Goto, Finish, Label
  <2>2. Local(p)'
    BY <1>1, <1>2, <1>7, Constants DEF SyncDone, Goto, Finish, Local, Place, Making
  <2> QED BY <1>1, <1>7, <2>1, <2>2, TypedStep DEF SyncDone, Goto, Finish
<1> QED BY <1>5, <1>6, <1>7

\* Going to sleep on a buffer.
LEMMA WaitTyped ==
  ASSUME Typed, NEW p \in Process, NEW b \in Buffer, NEW label,
         WaitOnBuffer(p, label, b), UNCHANGED cacheVars
  PROVE  Typed'
<1>1. /\ wait' = [wait EXCEPT ![p] = b] /\ cpu' = NoProcess
      /\ UNCHANGED <<buf, request, queue, disk, pc, arg, free_list, op, want, bh,
                     first, victim, scan>>
  BY DEF WaitOnBuffer, SleepOn, cacheVars
<1>2. Types'
  BY <1>1 DEF Typed, Types
<1>3. \A q \in Process : Local(q)'
  BY <1>1 DEF Typed, Local, Place
<1> QED BY <1>2, <1>3 DEF Typed

\* A wake-up keeps the types.
LEMMA AwakenedTyped ==
  ASSUME Types, NEW Q
  PROVE  Awakened(Q) \in [Process -> Buffer \union {WaitForRequest, BufferWait, NoQueue, Unnamed}]
BY DEF Types, Awakened

LEMMA SlotWaitersTyped ==
  ASSUME Types, NEW Q
  PROVE  SlotWaitersAwakened(Awakened(Q))
           \in [Process -> Buffer \union {WaitForRequest, BufferWait, NoQueue, Unnamed}]
BY DEF Types, Awakened, SlotWaitersAwakened

\* bread() looks at what it read, and gives up what could not be read.
LEMMA ReadWaitedTyped ==
  ASSUME Typed, NEW p \in Process, ReadWaited(p) \/ Ahead(p) \/ Nap(p)
  PROVE  Typed'
<1> USE DEF Types
<1>1. Types /\ Local(p)
  BY DEF Typed
<1>2. CASE ReadWaited(p)
  <2>1. PICK label \in {"use", "brelse"} : Goto(p, label)
    BY <1>2 DEF ReadWaited
  <2>2. Types'
    BY <1>1, <1>2, <2>1 DEF ReadWaited, Goto, Label, cacheVars
  <2>3. Local(p)'
    BY <1>1, <1>2, <2>1 DEF ReadWaited, At, Goto, Local, Place, Making, cacheVars
  <2> QED BY <1>1, <1>2, <2>1, <2>2, <2>3, TypedStep DEF ReadWaited, Goto, cacheVars
<1>3. CASE Ahead(p)
  <2>1. PICK k \in Block : want' = [want EXCEPT ![p] = k]
    BY <1>3 DEF Ahead
  <2>2. Types'
    BY <1>1, <1>3, <2>1 DEF Ahead, Goto, Label
  <2>3. Local(p)'
    BY <1>1, <1>3, <2>1, BufferCacheAssumption DEF Ahead, At, Goto, Local, Place, Making
  <2> QED BY <1>1, <1>3, <2>1, <2>2, <2>3, TypedStep DEF Ahead, Goto
<1>4. CASE Nap(p)
  <2>1. Types'
    BY <1>1, <1>4 DEF Nap, cacheVars
  <2>2. \A q \in Process : Local(q)'
    BY <1>4 DEF Nap, Typed, Local, Place, cacheVars
  <2> QED BY <2>1, <2>2 DEF Typed
<1> QED BY <1>2, <1>3, <1>4

\* breada() gives back the buffer it read ahead with a plain b_count--.
LEMMA DropTyped ==
  ASSUME Typed, HaveBlocks, NEW p \in Process, Drop(p) PROVE Typed'
<1> USE DEF Types
<1>1. Types /\ Local(p)
  BY DEF Typed
<1>2. /\ pc[p] = "drop" /\ bh[p] \in Buffer /\ first[p] \in Buffer /\ first[p] # NoBuffer
      /\ op[p] = "breada" /\ victim[p] = NoBuffer /\ arg[p] = NoRequest
  BY <1>1 DEF Drop, At, Local, Place, Making
<1>3. /\ buf' = [buf EXCEPT ![bh[p]].count = buf[bh[p]].count - 1]
      /\ bh' = [bh EXCEPT ![p] = first[p]]
      /\ first' = [first EXCEPT ![p] = NoBuffer]
      /\ pc' = [pc EXCEPT ![p] = "read_wait"] /\ cpu' = p
      /\ UNCHANGED <<request, queue, disk, arg, wait, free_list, op, victim, scan>>
  BY DEF Drop, Goto
<1>4. PICK k \in Block : want' = [want EXCEPT ![p] = k]
  BY <1>2 DEF HaveBlocks, HasBlock, Drop
<1>5. buf[bh[p]].count - 1 \in Int
  BY <1>1, <1>2 DEF Head0
<1>6. buf' \in [Buffer -> Head0]
  BY <1>1, <1>2, <1>3, <1>5, CountStored
<1>7. Types'
  BY <1>1, <1>3, <1>4, <1>6 DEF Label
<1>8. Local(p)'
  BY <1>1, <1>2, <1>3, <1>4 DEF Local, Place, Making
<1> QED BY <1>1, <1>3, <1>4, <1>7, <1>8, TypedStep

\* A change of the data of b, and of what its requests have sent.
LEMMA WrittenTyped ==
  ASSUME Types, NEW b \in Buffer, NEW u \in BOOLEAN, Written(b, u)
  PROVE  /\ buf' \in [Buffer -> Head0]
         /\ disk' \in [Block -> Data]
         /\ request' \in [Slot -> Request \union {NoRequest}]
         /\ \A s \in Slot : /\ request'[s] # NoRequest <=> request[s] # NoRequest
                            /\ request[s] # NoRequest =>
                                 request'[s].bh = request[s].bh /\ request'[s].cmd = request[s].cmd
<1>1. buf' \in [Buffer -> Head0]
  BY DataStored DEF Written
<1>2. disk' \in [Block -> Data]
  BY DEF Written, Types, Data
<1>3. ASSUME NEW r \in Request
      PROVE  /\ [r EXCEPT !.sent = "stale"] \in Request
             /\ [r EXCEPT !.sent = "stale"].bh = r.bh
             /\ [r EXCEPT !.sent = "stale"].cmd = r.cmd
  BY DEF Request, Data
<1>4. ASSUME NEW s \in Slot
      PROVE  /\ request'[s] \in Request \union {NoRequest}
             /\ request'[s] # NoRequest <=> request[s] # NoRequest
             /\ request[s] # NoRequest =>
                  request'[s].bh = request[s].bh /\ request'[s].cmd = request[s].cmd
  <2>1. request'[s] = IF s \in Requested(b) THEN [request[s] EXCEPT !.sent = "stale"]
                                            ELSE request[s]
    BY Zenon DEF Written
  <2>2. request[s] \in Request \union {NoRequest}
    BY DEF Types
  <2>3. CASE s \in Requested(b)
    BY <1>3, <2>1, <2>2, <2>3, NoRequestAssumption DEF Requested
  <2>4. CASE s \notin Requested(b)
    BY <2>1, <2>2, <2>4
  <2> QED BY <2>3, <2>4
<1>5. request' = [s \in Slot |-> request'[s]]
  BY DEF Written
<1> QED BY <1>1, <1>2, <1>4, <1>5

\* A process reads or changes the block it holds.
LEMMA UseTyped ==
  ASSUME Typed, NEW p \in Process, Use(p) \/ brelse(p) PROVE Typed'
<1> USE DEF Types
<1>1. Types /\ Local(p)
  BY DEF Typed
<1>2. bh[p] \in Buffer /\ arg[p] = NoRequest /\ pc[p] \in {"use", "brelse"}
  BY <1>1 DEF Use, brelse, At, Local, Place, Making
<1>3. CASE Use(p)
  <2>1. /\ buf' \in [Buffer -> Head0]
        /\ disk' \in [Block -> Data]
        /\ request' \in [Slot -> Request \union {NoRequest}]
    <3>1. (buf[bh[p]].uptodate \/ op[p] = "fresh") \in BOOLEAN
      OBVIOUS
    <3> QED BY <1>1, <1>2, <1>3, <3>1, WrittenTyped DEF Use
  <2>2. /\ pc' = [pc EXCEPT ![p] = "brelse"] /\ cpu' = p
        /\ UNCHANGED <<queue, arg, wait, free_list, op, want, bh, first, victim, scan>>
    BY <1>3 DEF Use, Goto, cacheVars
  <2>3. Types'
    BY <1>1, <2>1, <2>2 DEF Label
  <2>4. Local(p)'
    BY <1>1, <1>2, <1>3, <2>2 DEF Use, At, Local, Place, Making
  <2> QED BY <1>1, <2>2, <2>3, <2>4, TypedStep
<1>4. CASE brelse(p)
  <2>1. /\ buf' = [buf EXCEPT ![bh[p]].count = buf[bh[p]].count - 1]
        /\ bh' = [bh EXCEPT ![p] = NoBuffer]
        /\ wait' = Awakened({BufferWait})
        /\ UNCHANGED <<request, queue, disk, arg, free_list, first, victim, scan>>
    BY <1>4 DEF brelse
  <2>2. /\ op' = [op EXCEPT ![p] = "none"]
        /\ want' = [want EXCEPT ![p] = NoBlock]
        /\ pc' = [pc EXCEPT ![p] = "user"]
        /\ cpu' = NoProcess
    BY <1>4 DEF brelse, Finish
  <2>3. buf[bh[p]].count - 1 \in Int
    BY <1>1, <1>2 DEF Head0
  <2>4. buf' \in [Buffer -> Head0]
    BY <1>1, <1>2, <2>1, <2>3, CountStored
  <2>5. wait' \in [Process -> Buffer \union {WaitForRequest, BufferWait, NoQueue, Unnamed}]
    BY <1>1, <2>1, AwakenedTyped
  <2>6. Types'
    BY <1>1, <2>1, <2>2, <2>4, <2>5 DEF Label
  <2>7. Local(p)'
    BY <1>1, <1>2, <1>4, <2>1, <2>2, Constants DEF brelse, At, Local, Place, Making
  <2> QED BY <1>1, <2>1, <2>2, <2>6, <2>7, TypedStep
<1> QED BY <1>3, <1>4

\* The arguments of a make_request() are there.
LEMMA MakingHasArguments ==
  ASSUME Typed, NEW p \in Process, pc[p] \in Making
  PROVE  /\ arg[p] \in Arguments /\ arg[p].bh \in Buffer
         /\ arg[p].ret \in {"sync", "read_wait", "ahead", "drop"}
         /\ arg[p].cmd \in {"READ", "WRITE"}
<1>1. arg[p] \in Arguments
  BY DEF Typed, Types, Local
<1> QED BY <1>1 DEF Arguments

\* add_request() puts slot s somewhere behind the head of the queue.
LEMMA AddRequestInserts ==
  ASSUME queue \in Seq(Slot), NEW s \in Slot, NEW r, AddRequest(s, r)
  PROVE  \E i \in 0..Len(queue) :
           queue' = [j \in 1..(Len(queue) + 1) |->
                       IF j <= i THEN queue[j] ELSE IF j = i + 1 THEN s ELSE queue[j - 1]]
<1>1. CASE queue = <<>>
  <2>1. queue' = <<s>> /\ Len(queue) = 0
    BY <1>1 DEF AddRequest
  <2>2. <<s>> = [j \in 1..(Len(queue) + 1) |->
                   IF j <= 0 THEN queue[j] ELSE IF j = 0 + 1 THEN s ELSE queue[j - 1]]
    BY <2>1
  <2> QED BY <2>1, <2>2
<1>2. CASE queue # <<>>
  <2>1. PICK i \in 1..Len(queue) :
          queue' = [j \in 1..(Len(queue) + 1) |->
                      IF j <= i THEN queue[j] ELSE IF j = i + 1 THEN s ELSE queue[j - 1]]
    BY <1>2 DEF AddRequest
  <2>2. i \in 0..Len(queue)
    OBVIOUS
  <2> QED BY <2>1, <2>2
<1> QED BY <1>1, <1>2

\* So it is one slot longer, and s and the slots before are what it holds.
LEMMA AddRequestQueue ==
  ASSUME queue \in Seq(Slot), NEW s \in Slot, NEW r, AddRequest(s, r)
  PROVE  /\ queue' \in Seq(Slot)
         /\ \E i \in 0..Len(queue) :
              /\ DOMAIN queue' = 1..(Len(queue) + 1) /\ Len(queue') = Len(queue) + 1
              /\ \A j \in 1..i : queue'[j] = queue[j]
              /\ queue'[i + 1] = s
              /\ \A j \in (i + 2)..(Len(queue) + 1) : queue'[j] = queue[j - 1]
<1>1. PICK i \in 0..Len(queue) :
        queue' = [j \in 1..(Len(queue) + 1) |->
                    IF j <= i THEN queue[j] ELSE IF j = i + 1 THEN s ELSE queue[j - 1]]
  BY AddRequestInserts
<1>2. \A j \in 1..(Len(queue) + 1) : queue'[j] \in Slot
  BY <1>1
<1>3. Len(queue) + 1 \in Nat /\ queue' \in [1..(Len(queue) + 1) -> Slot]
  BY <1>1, <1>2
<1>4. queue' \in Seq(Slot) /\ Len(queue') = Len(queue) + 1 /\ DOMAIN queue' = 1..(Len(queue) + 1)
  BY <1>3
<1>5. \A j \in 1..i : queue'[j] = queue[j]
  BY <1>1
<1>6. queue'[i + 1] = s
  BY <1>1
<1>7. \A j \in (i + 2)..(Len(queue) + 1) : queue'[j] = queue[j - 1]
  BY <1>1
<1> QED BY <1>4, <1>5, <1>6, <1>7

\* What make_request() does to the variables it has for itself.
LEMMA LockBufferTyped ==
  ASSUME Typed, NEW p \in Process, LockBuffer(p), UNCHANGED cacheVars PROVE Typed'
<1> USE DEF Types
<1> DEFINE b == arg[p].bh
<1>1. Types /\ Local(p)
  BY DEF Typed
<1>2. pc[p] = "lock" /\ pc[p] \in Making /\ arg[p] # NoRequest
  BY <1>1 DEF LockBuffer, At, Local, Making
<1>3. b \in Buffer /\ arg[p].ret \in {"sync", "read_wait", "ahead", "drop"}
  BY <1>2, MakingHasArguments
<1>4. UNCHANGED <<request, queue, disk, free_list, op, want, bh, first, victim, scan>>
  BY DEF LockBuffer, cacheVars
<1>5. CASE wait' = Awakened({b}) /\ Return(p) /\ UNCHANGED buf
  <2>1. wait' \in [Process -> Buffer \union {WaitForRequest, BufferWait, NoQueue, Unnamed}]
    BY <1>1, <1>5, AwakenedTyped
  <2>2. /\ pc' = [pc EXCEPT ![p] = arg[p].ret] /\ cpu' = p
        /\ arg' = [arg EXCEPT ![p] = NoRequest]
    BY <1>5 DEF Return, Goto
  <2> HIDE DEF b
  <2>3. Types'
    BY <1>1, <1>3, <1>4, <1>5, <2>1, <2>2 DEF Label
  <2>4. Local(p)'
    BY <1>1, <1>2, <1>3, <1>4, <2>2 DEF Local, Place, Making
  <2> QED BY <1>1, <1>4, <2>2, <2>3, <2>4, TypedStep
<1>6. CASE /\ buf' = [buf EXCEPT ![b].lock = TRUE]
           /\ Goto(p, "find_request")
           /\ UNCHANGED <<wait, arg>>
  <2> HIDE DEF b
  <2>1. buf' \in [Buffer -> Head0]
    BY <1>1, <1>3, <1>6, LockStored
  <2>2. Types'
    BY <1>1, <1>4, <1>6, <2>1 DEF Goto, Label
  <2>3. Local(p)'
    BY <1>1, <1>2, <1>4, <1>6 DEF Goto, Local, Place, Making
  <2> QED BY <1>1, <1>4, <1>6, <2>2, <2>3, TypedStep DEF Goto
<1> QED BY <1>5, <1>6 DEF LockBuffer

\* make_request() fills a slot and gives its arguments away.
LEMMA FillRequestTyped ==
  ASSUME Typed, NEW p \in Process, FillRequest(p), UNCHANGED cacheVars PROVE Typed'
<1> USE DEF Types
<1> DEFINE b == arg[p].bh
           r == [cmd |-> arg[p].cmd, bh |-> b, sent |-> buf[b].data]
<1>1. Types /\ Local(p)
  BY DEF Typed
<1>2. pc[p] = "find_request" /\ pc[p] \in Making /\ arg[p] # NoRequest
  BY <1>1 DEF FillRequest, At, Local, Making
<1>3. b \in Buffer /\ arg[p].ret \in {"sync", "read_wait", "ahead", "drop"}
      /\ arg[p].cmd \in {"READ", "WRITE"}
  BY <1>2, MakingHasArguments
<1>4. UNCHANGED <<disk, wait, free_list, op, want, bh, first, victim, scan>>
  BY DEF FillRequest, cacheVars
<1>5. PICK s \in Slot : request' = [request EXCEPT ![s] = r] /\ AddRequest(s, r)
  BY DEF FillRequest, FreeSlots
<1>6. /\ pc' = [pc EXCEPT ![p] = arg[p].ret] /\ cpu' = p
      /\ arg' = [arg EXCEPT ![p] = NoRequest]
      /\ buf' = [buf EXCEPT ![b].dirt = FALSE]
  BY DEF FillRequest, Return, Goto
<1>7. r \in Request
  BY <1>1, <1>3 DEF Request, Head0
<1> HIDE DEF b, r
<1>8. buf' \in [Buffer -> Head0]
  BY <1>1, <1>3, <1>6, DirtCleared
<1>9. queue' \in Seq(Slot)
  BY <1>1, <1>5, AddRequestQueue
<1>10. Types'
  BY <1>1, <1>3, <1>4, <1>5, <1>6, <1>7, <1>8, <1>9 DEF Label
<1>11. Local(p)'
  BY <1>1, <1>2, <1>3, <1>4, <1>6 DEF Local, Place, Making
<1> QED BY <1>1, <1>4, <1>6, <1>10, <1>11, TypedStep

\* Whatever make_request() does, the types stay.
LEMMA MakeRequestTyped ==
  ASSUME Typed, NEW p \in Process, MakeRequest(p), UNCHANGED cacheVars PROVE Typed'
<1> USE DEF Types
<1> DEFINE b == arg[p].bh
<1>1. Types /\ Local(p)
  BY DEF Typed
<1>2. CASE WaitOnBuffer(p, "lock", b)
  <2>1. b \in Buffer
    BY <1>2, MakingHasArguments DEF WaitOnBuffer, At, Making
  <2> QED BY <1>2, <2>1, WaitTyped
<1>3. CASE GiveUpAhead(p)
  <2>1. /\ buf' = [buf EXCEPT ![b].lock = FALSE]
        /\ wait' = Awakened({b})
        /\ pc' = [pc EXCEPT ![p] = arg[p].ret] /\ cpu' = p
        /\ arg' = [arg EXCEPT ![p] = NoRequest]
        /\ UNCHANGED <<request, queue, disk, free_list, op, want, bh, first, victim, scan>>
    BY <1>3 DEF GiveUpAhead, Return, Goto, cacheVars
  <2>2. pc[p] \in Making /\ arg[p] # NoRequest
    BY <1>1, <1>3 DEF GiveUpAhead, At, Making, Local
  <2>3. b \in Buffer /\ arg[p].ret \in {"sync", "read_wait", "ahead", "drop"}
    BY <2>2, MakingHasArguments
  <2>4. wait' \in [Process -> Buffer \union {WaitForRequest, BufferWait, NoQueue, Unnamed}]
    BY <1>1, <2>1, AwakenedTyped
  <2> HIDE DEF b
  <2>5. buf' \in [Buffer -> Head0]
    BY <1>1, <2>1, <2>3, LockStored
  <2>6. Types'
    BY <1>1, <2>1, <2>3, <2>4, <2>5 DEF Label
  <2>7. Local(p)'
    BY <1>1, <2>1, <2>2, <2>3 DEF Local, Place, Making
  <2> QED BY <1>1, <2>1, <2>6, <2>7, TypedStep
<1>4. CASE NoSlotFound(p) \/ SleepForRequest(p)
  <2>1. PICK label \in {"find_request", "sleep_request", "linked_request"} : pc' = [pc EXCEPT ![p] = label]
    BY <1>4 DEF NoSlotFound, SleepForRequest, LinkForRequest, LieDownForRequest, Goto
  <2>2. /\ cpu' \in {p, NoProcess}
        /\ wait' = wait \/ wait' = [wait EXCEPT ![p] = WaitForRequest]
        /\ UNCHANGED <<buf, request, queue, disk, arg, free_list, op, want, bh, first,
                       victim, scan>>
    BY <1>4 DEF NoSlotFound, SleepForRequest, LinkForRequest, LieDownForRequest, SleepOn, Goto, cacheVars
  <2>3. pc[p] \in Making /\ arg[p] # NoRequest
    BY <1>1, <1>4 DEF NoSlotFound, SleepForRequest, LinkForRequest, LieDownForRequest, At, Making, Local
  <2>4. Types'
    BY <1>1, <2>1, <2>2 DEF Label
  <2>5. Local(p)'
    BY <1>1, <2>1, <2>2, <2>3 DEF Local, Place, Making
  <2> QED BY <1>1, <2>1, <2>2, <2>4, <2>5, TypedStep
<1> QED BY <1>2, <1>3, <1>4, LockBufferTyped, FillRequestTyped DEF MakeRequest

\* A process starts an operation, a sync, or leaves the buffer for a while.
LEMMA StartTyped ==
  ASSUME Typed, NEW p \in Process, Start(p) \/ StartSync(p) PROVE Typed'
<1> USE DEF Types
<1>1. Types /\ Local(p)
  BY DEF Typed
<1>2. pc[p] = "user" /\ arg[p] = NoRequest /\ op[p] = "none" /\ bh[p] = NoBuffer
      /\ first[p] = NoBuffer /\ victim[p] = NoBuffer
  BY <1>1 DEF Start, StartSync, At, Local, Place, Making
<1>3. CASE Start(p)
  <2>1. PICK o \in Ops[p] \ {"sync"}, k \in Block :
          op' = [op EXCEPT ![p] = o] /\ want' = [want EXCEPT ![p] = k]
    BY <1>3 DEF Start
  <2>2. /\ pc' = [pc EXCEPT ![p] = "getblk"] /\ cpu' = p
        /\ UNCHANGED <<buf, request, queue, disk, arg, wait, free_list, bh, first, victim, scan>>
    BY <1>3 DEF Start, Goto
  <2>3. Types'
    BY <1>1, <2>1, <2>2, Constants DEF Label
  <2>4. Local(p)'
    BY <1>1, <1>2, <2>1, <2>2, Constants DEF Local, Place, Making
  <2> QED BY <1>1, <2>1, <2>2, <2>3, <2>4, TypedStep
<1>4. CASE StartSync(p)
  <2>1. /\ "sync" \in Operation /\ "sync" \in Ops[p] /\ op' = [op EXCEPT ![p] = "sync"]
        /\ scan' = [scan EXCEPT ![p] = NR_BUFFERS + 1]
        /\ pc' = [pc EXCEPT ![p] = "sync"] /\ cpu' = p
        /\ UNCHANGED <<buf, request, queue, disk, arg, wait, free_list, want, bh, first, victim>>
    BY <1>4 DEF StartSync, Goto, Operation
  <2>2. scan' \in [Process -> Steps] /\ scan'[p] >= 1
    BY <1>1, <2>1, Constants, BlockRequestsAssumption
  <2>3. Types'
    BY <1>1, <2>1, <2>2 DEF Label
  <2>4. Local(p)'
    BY <1>1, <1>2, <2>1, <2>2 DEF Local, Place, Making
  <2> QED BY <1>1, <2>1, <2>3, <2>4, TypedStep
<1> QED BY <1>3, <1>4

\* The request that ends, its buffer and its block.
LEMMA FirstRequest ==
  ASSUME Typed, QueueHoldsRequests, HaveBlocks, queue # <<>>
  PROVE  /\ Head(queue) \in Slot
         /\ request[Head(queue)] \in Request /\ request[Head(queue)] # NoRequest
         /\ request[Head(queue)].bh \in Buffer /\ request[Head(queue)].sent \in Data
         /\ request[Head(queue)].cmd \in {"READ", "WRITE"}
         /\ buf[request[Head(queue)].bh].block \in Block
<1>1. Head(queue) = queue[1] /\ 1 \in 1..Len(queue) /\ queue[1] \in Slot
  BY DEF Typed, Types
<1>2. request[Head(queue)] # NoRequest
  BY <1>1 DEF QueueHoldsRequests
<1>3. request[Head(queue)] \in Request
  BY <1>1, <1>2 DEF Typed, Types
<1> QED BY <1>1, <1>2, <1>3 DEF Request, HaveBlocks, HasBlock

\* The request in slot s, for buffer b and block k, ends with data d and e.
Ended(u, s, b, k, d, e) ==
  /\ buf' = [buf EXCEPT ![b].uptodate = u, ![b].lock = FALSE, ![b].data = d]
  /\ disk' = [disk EXCEPT ![k] = e]
  /\ wait' = SlotWaitersAwakened(Awakened({b}))
  /\ request' = [request EXCEPT ![s] = NoRequest]
  /\ queue' = Tail(queue)
  /\ request[s].cmd = "WRITE" => d = buf[b].data
  /\ request[s].cmd = "READ" => e = disk[k] /\ (u => d = disk[k])
  /\ request[s].cmd = "WRITE" =>
       e \in {request[s].sent, buf[b].data} \/ (~u /\ e = disk[k])

\* What the end of a request stores: the data of its buffer and of its block
\* are old or new ones.
LEMMA RequestEnded ==
  ASSUME Typed, QueueHoldsRequests, HaveBlocks, NEW u \in BOOLEAN, EndRequest(u),
         NEW s, NEW b, NEW k,
         s = Head(queue), b = request[s].bh, k = buf[b].block
  PROVE  \E d, e \in Data : Ended(u, s, b, k, d, e)
<1>1. queue # <<>>
  BY DEF EndRequest
<1>2. b \in Buffer /\ k \in Block /\ request[s].sent \in Data
      /\ request[s].cmd \in {"READ", "WRITE"} /\ "READ" # "WRITE"
  BY <1>1, FirstRequest
<1>3. buf[b].data \in Data /\ disk[k] \in Data
  BY <1>2 DEF Typed, Types, Head0
<1> DEFINE read == IF request[s].cmd = "WRITE" THEN {buf[b].data}
                   ELSE IF u THEN {disk[k]} ELSE {disk[k], buf[b].data}
           written == IF request[s].cmd = "READ" THEN {disk[k]}
                      ELSE IF u THEN {request[s].sent, buf[b].data}
                      ELSE {disk[k], request[s].sent, buf[b].data}
<1>4. PICK d \in read :
        buf' = [buf EXCEPT ![b].uptodate = u, ![b].lock = FALSE, ![b].data = d]
  BY Zenon DEF EndRequest
<1>5. PICK e \in written : disk' = [disk EXCEPT ![k] = e]
  BY Zenon DEF EndRequest
<1>6. /\ wait' = SlotWaitersAwakened(Awakened({b}))
      /\ request' = [request EXCEPT ![s] = NoRequest]
      /\ queue' = Tail(queue)
  BY DEF EndRequest
<1>7. d \in Data /\ e \in Data
  BY <1>2, <1>3, <1>4, <1>5
<1>8. /\ request[s].cmd = "WRITE" => d = buf[b].data
      /\ request[s].cmd = "READ" => e = disk[k] /\ (u => d = disk[k])
      /\ request[s].cmd = "WRITE" =>
           e \in {request[s].sent, buf[b].data} \/ (~u /\ e = disk[k])
  BY <1>2, <1>4, <1>5
<1> HIDE DEF read, written
<1>9. Ended(u, s, b, k, d, e)
  BY <1>4, <1>5, <1>6, <1>8, Zenon DEF Ended
<1> QED BY <1>7, <1>9

\* end_request() stores data, unlocks the buffer and frees the slot.
LEMMA EndRequestTyped ==
  ASSUME Typed, QueueHoldsRequests, HaveBlocks, NEW u \in BOOLEAN, EndRequest(u),
         UNCHANGED cacheVars
  PROVE  Typed'
<1> USE DEF Types
<1>1. Types
  BY DEF Typed
<1>2. PICK s, b, k : s = Head(queue) /\ b = request[s].bh /\ k = buf[b].block
  OBVIOUS
<1>3. queue # <<>>
  BY DEF EndRequest
<1>4. s \in Slot /\ b \in Buffer /\ k \in Block
  BY <1>2, <1>3, FirstRequest
<1>5. PICK d, e \in Data : Ended(u, s, b, k, d, e)
  BY <1>2, RequestEnded
<1>6. /\ wait' = SlotWaitersAwakened(Awakened({b}))
      /\ request' = [request EXCEPT ![s] = NoRequest]
      /\ disk' = [disk EXCEPT ![k] = e]
      /\ queue' = Tail(queue)
      /\ UNCHANGED <<pc, arg, cpu, free_list, op, want, bh, first, victim, scan>>
  BY <1>5 DEF EndRequest, Ended, cacheVars
<1>7. buf' \in [Buffer -> Head0]
  BY <1>1, <1>4, <1>5, TransferEnded DEF Ended
<1>8. wait' \in [Process -> Buffer \union {WaitForRequest, BufferWait, NoQueue, Unnamed}]
  BY <1>1, <1>6, SlotWaitersTyped
<1>9. queue' \in Seq(Slot)
  BY <1>1, <1>3, <1>6
<1>10. Types'
  BY <1>1, <1>4, <1>6, <1>7, <1>8, <1>9
<1>11. \A q \in Process : Local(q)'
  BY <1>6 DEF Typed, Local, Place
<1> QED BY <1>10, <1>11 DEF Typed

-----------------------------------------------------------------------------
(* Requests, locks and blocks *)

\* The steps of p that neither take nor give up a lock: all but those of
\* make_request() behind its first sleep.
CacheAction(p) ==
  \/ FindInHash(p) \/ HashWaited(p)
  \/ ChooseVictim(p) \/ SleepForBuffer(p) \/ VictimWaited(p)
  \/ SyncBuffer(p) \/ SyncWait(p) \/ SyncDone(p)
  \/ ReadWaited(p) \/ Ahead(p) \/ Drop(p) \/ Use(p) \/ brelse(p)
  \/ Start(p) \/ StartSync(p) \/ Nap(p)
  \/ /\ \/ WaitOnBuffer(p, "hash_wait", bh[p])
        \/ WaitOnBuffer(p, "free_wait", victim[p])
        \/ WaitOnBuffer(p, "read_wait", bh[p])
        \/ WaitOnBuffer(p, "brelse", bh[p])
        \/ WaitOnBuffer(p, "lock", arg[p].bh)
     /\ UNCHANGED cacheVars

\* They leave locks and queues alone, and a buffer that holds a block has one
\* afterwards.
Frame(p) ==
  /\ pc[p] \notin {"find_request", "sleep_request", "linked_request"}
  /\ pc'[p] \notin {"find_request", "sleep_request", "linked_request"}
  /\ \A q \in Process \ {p} : /\ pc'[q] = pc[q] /\ arg'[q] = arg[q]
                              /\ bh'[q] = bh[q] /\ first'[q] = first[q]
  /\ queue' = queue
  /\ \A s \in Slot : /\ request'[s] # NoRequest <=> request[s] # NoRequest
                     /\ request[s] # NoRequest =>
                          request'[s].bh = request[s].bh /\ request'[s].cmd = request[s].cmd
  /\ \A b \in Buffer : /\ buf'[b].lock = buf[b].lock
                       /\ buf[b].block \in Block => buf'[b].block \in Block
                       /\ buf'[b].dirt => buf[b].dirt \/ buf'[b].block \in Block

\* What p has after the step holds a block.
OwnBlocks(p) ==
  /\ bh'[p] # NoBuffer => buf'[bh'[p]].block \in Block
  /\ first'[p] # NoBuffer => buf'[first'[p]].block \in Block
  /\ pc'[p] \in Making => buf'[arg'[p].bh].block \in Block

\* wait_on_buffer() changes nothing but the sleeper.
LEMMA WaitFrame ==
  ASSUME Typed, HaveBlocks, NEW p \in Process, NEW b, NEW label,
         WaitOnBuffer(p, label, b), UNCHANGED cacheVars,
         label \notin {"find_request", "sleep_request", "linked_request"}
  PROVE  Frame(p) /\ OwnBlocks(p)
<1>1. UNCHANGED <<buf, request, queue, pc, arg, bh, first>> /\ pc[p] = label
  BY DEF WaitOnBuffer, At, cacheVars
<1>2. Frame(p)
  BY <1>1 DEF Frame
<1>3. OwnBlocks(p)
  BY <1>1 DEF OwnBlocks, HaveBlocks, HasBlock
<1> QED BY <1>2, <1>3

\* Where only the buffer heads are not written and p is outside make_request().
LEMMA PlainFrame ==
  ASSUME Typed, HaveBlocks, NEW p \in Process,
         pc[p] \notin Making, pc'[p] \notin Making,
         \A q \in Process \ {p} : /\ pc'[q] = pc[q] /\ arg'[q] = arg[q]
                                  /\ bh'[q] = bh[q] /\ first'[q] = first[q],
         UNCHANGED <<buf, request, queue>>,
         bh'[p] \in {bh[p], NoBuffer},
         first'[p] \in {first[p], bh[p], NoBuffer}
  PROVE  Frame(p) /\ OwnBlocks(p)
BY DEF Frame, OwnBlocks, HaveBlocks, HasBlock, Making

\* What looks at buffers without a change of their heads.
LEMMA ScanFrame ==
  ASSUME Typed, HaveBlocks, NEW p \in Process,
         ChooseVictim(p) \/ SleepForBuffer(p) \/ SyncDone(p) \/ ReadWaited(p) \/ Ahead(p)
           \/ Start(p) \/ StartSync(p) \/ Nap(p)
  PROVE  Frame(p) /\ OwnBlocks(p)
<1>1. Types /\ Local(p)
  BY DEF Typed
<1>2. CASE ChooseVictim(p)
  BY <1>1, <1>2, PlainFrame DEF Types, ChooseVictim, At, Goto, Making
<1>3. CASE SleepForBuffer(p)
  BY <1>1, <1>3, PlainFrame DEF Types, SleepForBuffer, At, cacheVars, Making
<1>4. CASE SyncDone(p)
  BY <1>1, <1>4, PlainFrame DEF Types, SyncDone, At, Goto, Finish, Making
<1>5. CASE ReadWaited(p)
  BY <1>1, <1>5, PlainFrame DEF Types, ReadWaited, At, Goto, cacheVars, Making
<1>6. CASE Ahead(p)
  BY <1>1, <1>6, PlainFrame DEF Types, Ahead, At, Goto, Making
<1>7. CASE Start(p)
  BY <1>1, <1>7, PlainFrame DEF Types, Start, At, Goto, Making
<1>8. CASE StartSync(p)
  BY <1>1, <1>8, PlainFrame DEF Types, StartSync, At, Goto, Making
<1>9. CASE Nap(p)
  BY <1>1, <1>9, PlainFrame DEF Types, Nap, cacheVars, Making
<1> QED BY <1>2, <1>3, <1>4, <1>5, <1>6, <1>7, <1>8, <1>9

\* Where a count is changed.
LEMMA CountFrame ==
  ASSUME Typed, HaveBlocks, NEW p \in Process, NEW b \in Buffer, NEW n \in Int,
         buf' = [buf EXCEPT ![b].count = n],
         pc[p] \notin Making, pc'[p] \notin Making,
         \A q \in Process \ {p} : /\ pc'[q] = pc[q] /\ arg'[q] = arg[q]
                                  /\ bh'[q] = bh[q] /\ first'[q] = first[q],
         UNCHANGED <<request, queue>>,
         buf[b].block \in Block,
         bh'[p] \in {bh[p], first[p], b, NoBuffer},
         first'[p] \in {first[p], NoBuffer}
  PROVE  Frame(p) /\ OwnBlocks(p)
<1>1. \A c \in Buffer : /\ buf'[c].block = buf[c].block /\ buf'[c].lock = buf[c].lock
                        /\ buf'[c].dirt = buf[c].dirt
  BY CountStored DEF Typed
<1>2. Frame(p)
  BY <1>1 DEF Frame, Making
<1>3. /\ bh[p] \in Buffer \union {NoBuffer} /\ first[p] \in Buffer \union {NoBuffer}
      /\ NoBuffer \notin Buffer
  BY BufferCacheAssumption DEF Typed, Types
<1>4. OwnBlocks(p)
  BY <1>1, <1>3 DEF OwnBlocks, HaveBlocks, HasBlock
<1> QED BY <1>2, <1>4

\* What changes a count only.
LEMMA HoldFrame ==
  ASSUME Typed, HaveBlocks, NEW p \in Process, FindInHash(p) \/ Drop(p) \/ brelse(p)
  PROVE  Frame(p) /\ OwnBlocks(p)
<1>1. Types /\ Local(p)
  BY DEF Typed
<1>2. CASE FindInHash(p)
  <2>1. PICK b \in find_buffer(want[p]) : /\ buf' = [buf EXCEPT ![b].count = buf[b].count + 1]
                                          /\ bh' = [bh EXCEPT ![p] = b]
    BY <1>2 DEF FindInHash
  <2>2. op[p] \notin {"none", "sync"}
    BY <1>1, <1>2 DEF FindInHash, At, Local, Place, Making
  <2>3. b \in Buffer /\ buf[b].block \in Block
    BY <1>1, <2>2 DEF find_buffer, Local
  <2>4. PICK n \in Int : n = buf[b].count + 1
    BY <1>1, <2>3 DEF Types, Head0
  <2>5. buf' = [buf EXCEPT ![b].count = n]
    BY <2>1, <2>4, Zenon
  <2> QED BY <1>1, <1>2, <2>1, <2>3, <2>5, CountFrame DEF FindInHash, At, Goto, Types, Making
<1>3. CASE Drop(p)
  <2>1. pc[p] = "drop" /\ bh[p] \in Buffer /\ buf[bh[p]].block \in Block
    BY <1>1, <1>3 DEF Drop, At, Types, Local, Place, Making, HaveBlocks, HasBlock
  <2>2. PICK n \in Int : n = buf[bh[p]].count - 1
    BY <1>1, <2>1 DEF Types, Head0
  <2>3. buf' = [buf EXCEPT ![bh[p]].count = n]
    BY <1>3, <2>2, Zenon DEF Drop
  <2> QED BY <1>1, <1>3, <2>1, <2>3, CountFrame DEF Drop, At, Goto, Types, Making
<1>4. CASE brelse(p)
  <2>1. pc[p] = "brelse" /\ bh[p] \in Buffer /\ buf[bh[p]].block \in Block
    BY <1>1, <1>4 DEF brelse, At, Types, Local, Place, Making, HaveBlocks, HasBlock
  <2>2. PICK n \in Int : n = buf[bh[p]].count - 1
    BY <1>1, <2>1 DEF Types, Head0
  <2>3. buf' = [buf EXCEPT ![bh[p]].count = n]
    BY <1>4, <2>2, Zenon DEF brelse
  <2> QED BY <1>1, <1>4, <2>1, <2>3, CountFrame DEF brelse, At, Finish, Types, Making
<1> QED BY <1>2, <1>3, <1>4

\* get_hash_table() after its wait changes a count at most.
LEMMA HashWaitedFrame ==
  ASSUME Typed, HaveBlocks, NEW p \in Process, HashWaited(p)
  PROVE  Frame(p) /\ OwnBlocks(p)
<1>1. Types /\ Local(p)
  BY DEF Typed
<1>2. pc[p] = "hash_wait" /\ bh[p] \in Buffer /\ buf[bh[p]].block \in Block
  BY <1>1 DEF HashWaited, At, Types, Local, Place, Making, HaveBlocks, HasBlock
<1>3. CASE buf[bh[p]].block = want[p]
  <2>1. /\ Returned(p, bh[p])
        /\ UNCHANGED <<buf, bh, request, queue, first>>
    BY <1>3, HashReturned
  <2>2. Frame(p)
    BY <1>2, <2>1 DEF Frame, Returned
  <2>3. pc'[p] \in Making => arg'[p].bh = bh[p] \/ (arg'[p].bh = first[p] /\ first[p] # NoBuffer)
    BY <2>1, BufferCacheAssumption DEF Returned, Making
  <2>4. OwnBlocks(p)
    BY <1>2, <2>1, <2>3 DEF OwnBlocks, HaveBlocks, HasBlock
  <2> QED BY <2>2, <2>4
<1>4. CASE buf[bh[p]].block # want[p]
  <2>1. PICK n \in Int : n = buf[bh[p]].count - 1
    BY <1>1, <1>2 DEF Types, Head0
  <2>2. buf' = [buf EXCEPT ![bh[p]].count = n]
    BY <1>4, <2>1, Zenon DEF HashWaited
  <2> QED BY <1>1, <1>2, <1>4, <2>2, CountFrame DEF HashWaited, At, Goto, Types, Making
<1> QED BY <1>3, <1>4

\* getblk() after its wait gives a new block to a buffer nobody refers to.
LEMMA VictimWaitedFrame ==
  ASSUME Typed, HaveBlocks, NEW p \in Process, VictimWaited(p)
  PROVE  Frame(p) /\ OwnBlocks(p)
<1>1. Types /\ Local(p)
  BY DEF Typed
<1>2. pc[p] = "free_wait" /\ UNCHANGED <<request, queue, first>>
  BY DEF VictimWaited, At
<1>3. CASE GetblkRepeats(p, victim[p]) \/ CleanVictim(p)
  BY <1>1, <1>2, <1>3, PlainFrame DEF GetblkRepeats, CleanVictim, Goto, Types, Making
<1>4. CASE TakeVictim(p, victim[p])
  <2> DEFINE b == victim[p]
  <2>1. /\ b \in Buffer /\ want[p] \in Block
        /\ Returned(p, b) /\ bh' = [bh EXCEPT ![p] = b]
    BY <1>4, VictimReturned
  <2>2. /\ \A c \in Buffer \ {b} : buf'[c] = buf[c]
        /\ buf'[b].block \in Block /\ buf'[b].lock = buf[b].lock /\ buf'[b].dirt = FALSE
    BY <1>1, <1>4, <2>1, VictimTaken
  <2>3. /\ \A q \in Process \ {p} : bh'[q] = bh[q]
        /\ bh'[p] = b /\ first'[p] = first[p] /\ first[p] \in Buffer \union {NoBuffer}
    BY <1>1, <1>2, <2>1 DEF Types
  <2> HIDE DEF b
  <2>4. \A c \in Buffer : /\ buf'[c].lock = buf[c].lock
                          /\ buf[c].block \in Block => buf'[c].block \in Block
                          /\ buf'[c].dirt => buf[c].dirt \/ buf'[c].block \in Block
    BY <2>1, <2>2
  <2>5. Frame(p)
    BY <1>2, <2>1, <2>3, <2>4 DEF Frame, Returned
  <2>6. pc'[p] \in Making => arg'[p].bh = b \/ (arg'[p].bh = first[p] /\ first[p] # NoBuffer)
    BY <2>1, BufferCacheAssumption DEF Returned, Making
  <2>7. first[p] # NoBuffer => first[p] \in Buffer /\ buf[first[p]].block \in Block
    BY <1>1 DEF Types, HaveBlocks, HasBlock
  <2>8. OwnBlocks(p)
    BY <2>1, <2>2, <2>3, <2>4, <2>6, <2>7 DEF OwnBlocks
  <2> QED BY <2>5, <2>8
<1> QED BY <1>3, <1>4 DEF VictimWaited

\* The next buffer a sync looks at.
LEMMA ScannedBuffer ==
  ASSUME Typed, NEW p \in Process, pc[p] = "sync", scan[p] <= 2 * NR_BUFFERS
  PROVE  Scanned(p) \in Buffer
<1>1. scan[p] \in Steps /\ scan[p] >= 1
  BY DEF Typed, Types, Local, Place, Making
<1> QED BY <1>1, BlockRequestsAssumption DEF Scanned, Steps, Buffer

\* sync_dev() starts a request with the buffer it came to.
LEMMA SyncBufferFrame ==
  ASSUME Typed, HaveBlocks, NEW p \in Process, SyncBuffer(p)
  PROVE  Frame(p) /\ OwnBlocks(p)
<1> DEFINE b == Scanned(p)
<1>1. pc[p] = "sync" /\ UNCHANGED <<buf, request, queue, bh, first>>
  BY DEF SyncBuffer, At
<1>2. b \in Buffer
  BY <1>1, ScannedBuffer DEF SyncBuffer
<1>3. pc \in [Process -> Label] /\ arg \in [Process -> Arguments \union {NoRequest}]
  BY DEF Typed, Types
<1>4. CASE Goto(p, "sync") /\ UNCHANGED arg
  BY <1>1, <1>3, <1>4, PlainFrame DEF Goto, Making
<1>5. CASE buf[b].dirt /\ LowLevel(p, "WRITE", b, FALSE, "sync")
  <2>1. /\ pc' = [pc EXCEPT ![p] = "lock"]
        /\ arg' = [arg EXCEPT ![p] = [cmd |-> "WRITE", bh |-> b, ahead |-> FALSE, ret |-> "sync"]]
    BY <1>5 DEF LowLevel, Goto
  <2>2. arg'[p].bh = b /\ buf[b].block \in Block
    BY <1>2, <1>3, <1>5, <2>1 DEF HaveBlocks, HasBlock
  <2>3. Frame(p)
    BY <1>1, <1>3, <2>1 DEF Frame
  <2>4. OwnBlocks(p)
    BY <1>1, <2>2 DEF OwnBlocks, HaveBlocks, HasBlock
  <2> QED BY <2>3, <2>4
<1> QED BY <1>4, <1>5 DEF SyncBuffer

\* A change of data sets b_dirt, or starts a read or a write.
LEMMA UseFrame ==
  ASSUME Typed, HaveBlocks, NEW p \in Process, Use(p)
  PROVE  Frame(p) /\ OwnBlocks(p)
<1>1. Types /\ Local(p)
  BY DEF Typed
<1>2. /\ pc[p] = "use" /\ bh[p] \in Buffer /\ bh[p] # NoBuffer
      /\ pc' = [pc EXCEPT ![p] = "brelse"] /\ UNCHANGED <<queue, arg, bh, first>>
  BY <1>1 DEF Use, At, Goto, Types, cacheVars, Local, Place, Making
<1>3. CASE UNCHANGED <<buf, disk, request>>
  BY <1>1, <1>2, <1>3, PlainFrame DEF Types, Making
<1>4. CASE Written(bh[p], buf[bh[p]].uptodate \/ op[p] = "fresh")
  <2>1. PICK u \in BOOLEAN : Written(bh[p], u)
    <3>1. (buf[bh[p]].uptodate \/ op[p] = "fresh") \in BOOLEAN
      OBVIOUS
    <3> QED BY <1>4, <3>1
  <2>2. \A s \in Slot : /\ request'[s] # NoRequest <=> request[s] # NoRequest
                        /\ request[s] # NoRequest =>
                             request'[s].bh = request[s].bh /\ request'[s].cmd = request[s].cmd
    BY <1>1, <1>2, <2>1, WrittenTyped
  <2>3. buf' = [buf EXCEPT ![bh[p]].data = "current", ![bh[p]].dirt = TRUE, ![bh[p]].uptodate = u]
    BY <2>1, Zenon DEF Written
  <2>4. \A c \in Buffer : /\ buf'[c].block = buf[c].block /\ buf'[c].lock = buf[c].lock
                          /\ c # bh[p] => buf'[c].dirt = buf[c].dirt
    BY <1>1, <1>2, <2>3, DataStored
  <2>5. buf[bh[p]].block \in Block
    BY <1>2 DEF HaveBlocks, HasBlock
  <2>6. Frame(p)
    BY <1>1, <1>2, <2>2, <2>4, <2>5 DEF Frame, Types
  <2>7. /\ bh[p] \in Buffer \union {NoBuffer} /\ first[p] \in Buffer \union {NoBuffer}
        /\ pc'[p] \notin Making
    BY <1>1, <1>2 DEF Types, Making
  <2>8. OwnBlocks(p)
    BY <1>2, <2>4, <2>5, <2>7, BufferCacheAssumption DEF OwnBlocks, HaveBlocks, HasBlock
  <2> QED BY <2>6, <2>8
<1> QED BY <1>3, <1>4 DEF Use

\* So does every step outside make_request().
LEMMA CacheFrame ==
  ASSUME Typed, HaveBlocks, NEW p \in Process, CacheAction(p)
  PROVE  Frame(p) /\ OwnBlocks(p)
<1>1. CASE SyncWait(p)
  BY <1>1, WaitFrame DEF SyncWait
<1> QED
  BY <1>1, WaitFrame, ScanFrame, HoldFrame, HashWaitedFrame, VictimWaitedFrame,
     SyncBufferFrame, UseFrame DEF CacheAction

\* The steps that move a request on: from the lock to the queue and out of it.
RequestAction(p) ==
  \/ LockBuffer(p) \/ FillRequest(p) \/ GiveUpAhead(p) \/ NoSlotFound(p) \/ SleepForRequest(p)

\* The two kinds of steps together are those of Next.
LEMMA NextActions ==
  ASSUME NEW p \in Process
  PROVE  CacheStep(p) \/ Start(p) \/ StartSync(p) \/ Nap(p)
           <=> CacheAction(p) \/ (RequestAction(p) /\ UNCHANGED cacheVars)
BY DEF CacheStep, CacheAction, RequestAction, MakeRequest

\* A filled slot.
LEMMA RequestType ==
  ASSUME Types, NEW s \in Slot, request[s] # NoRequest
  PROVE  /\ request[s] \in Request
         /\ request[s].bh \in Buffer /\ request[s].cmd \in {"READ", "WRITE"}
         /\ request[s].sent \in Data
<1>1. request[s] \in Request
  BY DEF Types
<1> QED BY <1>1 DEF Request

\* What make_request() does: its buffer b keeps its block, and p is at the next
\* label, or back.
RequestFrame(p, b) ==
  /\ b = arg[p].bh /\ b \in Buffer
  /\ \A q \in Process \ {p} : pc'[q] = pc[q] /\ arg'[q] = arg[q]
  /\ \/ pc'[p] \in Making /\ arg'[p] = arg[p]
     \/ pc'[p] \notin Making
  /\ \A c \in Buffer : /\ buf'[c].block = buf[c].block /\ buf'[c].count = buf[c].count
                       /\ buf'[c].uptodate = buf[c].uptodate /\ buf'[c].data = buf[c].data
                       /\ buf'[c].dirt => buf[c].dirt
                       /\ c # b => buf'[c] = buf[c]
  /\ UNCHANGED <<bh, first>>

\* make_request() touches the lock and the dirt of its own buffer only.
LEMMA RequestActionFrame ==
  ASSUME Typed, NEW p \in Process, RequestAction(p), UNCHANGED cacheVars
  PROVE  RequestFrame(p, arg[p].bh)
<1> DEFINE b == arg[p].bh
<1>1. Types
  BY DEF Typed
<1>2. pc[p] \in Making
  BY DEF RequestAction, LockBuffer, FillRequest, GiveUpAhead, NoSlotFound, SleepForRequest, LinkForRequest, LieDownForRequest,
         At, Making
<1>3. b \in Buffer /\ arg[p].ret \in {"sync", "read_wait", "ahead", "drop"}
  BY <1>2, MakingHasArguments
<1>4. /\ \A q \in Process \ {p} : pc'[q] = pc[q] /\ arg'[q] = arg[q]
      /\ (pc'[p] \in Making /\ arg'[p] = arg[p]) \/ pc'[p] \notin Making
  BY <1>1, <1>3 DEF RequestAction, LockBuffer, FillRequest, GiveUpAhead, NoSlotFound,
         SleepForRequest, LinkForRequest, LieDownForRequest, Return, Goto, Making, Types
<1>5. \A c \in Buffer : /\ buf'[c].block = buf[c].block /\ buf'[c].count = buf[c].count
                        /\ buf'[c].uptodate = buf[c].uptodate /\ buf'[c].data = buf[c].data
                        /\ buf'[c].dirt => buf[c].dirt
                        /\ c # b => buf'[c] = buf[c]
  <2>1. \/ UNCHANGED buf
        \/ \E l \in BOOLEAN : buf' = [buf EXCEPT ![b].lock = l]
        \/ buf' = [buf EXCEPT ![b].dirt = FALSE]
    BY DEF RequestAction, LockBuffer, FillRequest, GiveUpAhead, NoSlotFound, SleepForRequest, LinkForRequest, LieDownForRequest
  <2>2. CASE UNCHANGED buf
    BY <2>2
  <2>3. CASE \E l \in BOOLEAN : buf' = [buf EXCEPT ![b].lock = l]
    <3>1. PICK l \in BOOLEAN : buf' = [buf EXCEPT ![b].lock = l]
      BY <2>3
    <3> HIDE DEF b
    <3>2. /\ \A c \in Buffer \ {b} : buf'[c] = buf[c]
          /\ buf'[b].block = buf[b].block /\ buf'[b].count = buf[b].count
          /\ buf'[b].uptodate = buf[b].uptodate /\ buf'[b].data = buf[b].data
          /\ buf'[b].dirt = buf[b].dirt
      BY <1>1, <1>3, <3>1, LockStored
    <3> QED BY <3>2
  <2>4. CASE buf' = [buf EXCEPT ![b].dirt = FALSE]
    <3> HIDE DEF b
    <3>1. /\ \A c \in Buffer \ {b} : buf'[c] = buf[c]
          /\ buf'[b].block = buf[b].block /\ buf'[b].count = buf[b].count
          /\ buf'[b].uptodate = buf[b].uptodate /\ buf'[b].data = buf[b].data
          /\ buf'[b].dirt = FALSE
      BY <1>1, <1>3, <2>4, DirtCleared
    <3> QED BY <3>1
  <2> QED BY <2>1, <2>2, <2>3, <2>4
<1>6. UNCHANGED <<bh, first>>
  BY DEF cacheVars
<1> QED BY <1>3, <1>4, <1>5, <1>6 DEF RequestFrame

\* A buffer somebody refers to has a block, after each step of a process,
LEMMA BlocksStep ==
  ASSUME Typed, HaveBlocks, NEW p \in Process,
         CacheAction(p) \/ (RequestAction(p) /\ UNCHANGED cacheVars)
  PROVE  HaveBlocks'
<1>1. /\ \A q \in Process : /\ bh[q] # NoBuffer => bh[q] \in Buffer
                            /\ first[q] # NoBuffer => first[q] \in Buffer
                            /\ pc[q] \in Making => arg[q].bh \in Buffer
      /\ \A s \in Slot : request[s] # NoRequest => request[s].bh \in Buffer
  BY MakingHasArguments, RequestType DEF Typed, Types
<1>2. CASE CacheAction(p)
  <2>1. Frame(p) /\ OwnBlocks(p)
    BY <1>2, CacheFrame
  <2>2. \A s \in Slot : request'[s] # NoRequest => buf'[request'[s].bh].block \in Block
    BY <1>1, <2>1 DEF Frame, HaveBlocks, HasBlock
  <2>3. \A b \in Buffer : buf'[b].dirt => buf'[b].block \in Block
    BY <2>1 DEF Frame, HaveBlocks, HasBlock
  <2>4. \A q \in Process \ {p} :
          /\ bh'[q] # NoBuffer => buf'[bh'[q]].block \in Block
          /\ first'[q] # NoBuffer => buf'[first'[q]].block \in Block
          /\ pc'[q] \in Making => buf'[arg'[q].bh].block \in Block
    BY <1>1, <2>1 DEF Frame, HaveBlocks, HasBlock
  <2> QED BY <2>1, <2>2, <2>3, <2>4 DEF OwnBlocks, HaveBlocks, HasBlock
<1>3. CASE RequestAction(p) /\ UNCHANGED cacheVars
  <2> DEFINE b == arg[p].bh
  <2>1. RequestFrame(p, b)
    BY <1>3, RequestActionFrame
  <2>2. pc[p] \in Making /\ buf[b].block \in Block
    BY <1>3 DEF RequestAction, LockBuffer, FillRequest, GiveUpAhead, NoSlotFound, SleepForRequest, LinkForRequest, LieDownForRequest,
           At, Making, HaveBlocks, HasBlock
  <2>3. \A s \in Slot : request'[s] = request[s] \/ request'[s].bh = b
    <3>1. CASE FillRequest(p)
      <4>1. PICK s \in Slot : request' = [request EXCEPT ![s] =
                                [cmd |-> arg[p].cmd, bh |-> b, sent |-> buf[b].data]]
        BY <3>1 DEF FillRequest, FreeSlots
      <4> QED BY <4>1 DEF Typed, Types
    <3>2. CASE ~FillRequest(p)
      BY <1>3, <3>2 DEF RequestAction, LockBuffer, GiveUpAhead, NoSlotFound, SleepForRequest, LinkForRequest, LieDownForRequest
    <3> QED BY <3>1, <3>2
  <2> HIDE DEF b
  <2>4. \A s \in Slot : request'[s] # NoRequest => buf'[request'[s].bh].block \in Block
    BY <1>1, <2>1, <2>2, <2>3 DEF RequestFrame, HaveBlocks, HasBlock
  <2>5. \A c \in Buffer : buf'[c].dirt => buf'[c].block \in Block
    BY <2>1 DEF RequestFrame, HaveBlocks, HasBlock
  <2>6. \A q \in Process :
          /\ bh'[q] # NoBuffer => buf'[bh'[q]].block \in Block
          /\ first'[q] # NoBuffer => buf'[first'[q]].block \in Block
          /\ pc'[q] \in Making => buf'[arg'[q].bh].block \in Block
    BY <1>1, <2>1, <2>2 DEF RequestFrame, HaveBlocks, HasBlock
  <2> QED BY <2>4, <2>5, <2>6 DEF HaveBlocks, HasBlock
<1> QED BY <1>2, <1>3

\* and after the end of a request.
LEMMA BlocksEndRequest ==
  ASSUME Typed, QueueHoldsRequests, HaveBlocks, NEW u \in BOOLEAN, EndRequest(u),
         UNCHANGED cacheVars
  PROVE  HaveBlocks'
<1>1. PICK s, b, k : s = Head(queue) /\ b = request[s].bh /\ k = buf[b].block
  OBVIOUS
<1>2. s \in Slot /\ b \in Buffer
  BY <1>1, FirstRequest DEF EndRequest
<1>3. PICK d, e \in Data : Ended(u, s, b, k, d, e)
  BY <1>1, RequestEnded
<1>4. \A c \in Buffer : buf'[c].block = buf[c].block /\ buf'[c].dirt = buf[c].dirt
  BY <1>2, <1>3, TransferEnded DEF Ended, Typed
<1>5. \A t \in Slot : request'[t] = request[t] \/ request'[t] = NoRequest
  BY <1>2, <1>3 DEF Ended, Typed, Types
<1>6. UNCHANGED <<pc, arg, bh, first>>
  BY DEF EndRequest, cacheVars
<1>7. /\ \A q \in Process : /\ bh[q] # NoBuffer => bh[q] \in Buffer
                            /\ first[q] # NoBuffer => first[q] \in Buffer
                            /\ pc[q] \in Making => arg[q].bh \in Buffer
      /\ \A t \in Slot : request[t] # NoRequest => request[t].bh \in Buffer
  BY MakingHasArguments, RequestType DEF Typed, Types
<1> QED BY <1>4, <1>5, <1>6, <1>7 DEF HaveBlocks, HasBlock

\* A free slot that is filled goes into the queue, and nothing leaves it.
LEMMA QueueFilled ==
  ASSUME queue \in Seq(Slot), QueueHoldsRequests, NEW s \in Slot, request[s] = NoRequest,
         NEW r, r # NoRequest, AddRequest(s, r),
         \A t \in Slot : request'[t] = IF t = s THEN r ELSE request[t]
  PROVE  QueueHoldsRequests'
<1> DEFINE n == Len(queue)
<1>1. PICK i \in 0..n :
        /\ DOMAIN queue' = 1..(n + 1) /\ Len(queue') = n + 1
        /\ \A j \in 1..i : queue'[j] = queue[j]
        /\ queue'[i + 1] = s
        /\ \A j \in (i + 2)..(n + 1) : queue'[j] = queue[j - 1]
  BY AddRequestQueue
<1>2. n \in Nat /\ \A j \in 1..n : queue[j] \in Slot /\ queue[j] # s
  BY DEF QueueHoldsRequests
<1>3. ASSUME NEW t \in Slot
      PROVE  request'[t] # NoRequest <=> \E j \in 1..Len(queue') : queue'[j] = t
  <2>1. CASE t = s
    <3>1. i + 1 \in 1..Len(queue')
      BY <1>1, <1>2
    <3> QED BY <1>1, <2>1, <3>1
  <2>2. CASE t # s
    <3>1. ASSUME NEW j \in 1..n, queue[j] = t PROVE \E l \in 1..(n + 1) : queue'[l] = t
      <4>1. CASE j <= i
        <5>1. j \in 1..i /\ j \in 1..(n + 1)
          BY <1>2, <4>1
        <5> QED BY <1>1, <3>1, <5>1
      <4>2. CASE j > i
        <5>1. j + 1 \in (i + 2)..(n + 1) /\ j + 1 \in 1..(n + 1) /\ (j + 1) - 1 = j
          BY <1>2, <4>2
        <5> QED BY <1>1, <3>1, <5>1
      <4> QED BY <4>1, <4>2
    <3>2. ASSUME NEW j \in 1..(n + 1), queue'[j] = t PROVE \E l \in 1..n : queue[l] = t
      <4>1. CASE j <= i
        <5>1. j \in 1..i /\ j \in 1..n
          BY <1>2, <4>1
        <5> QED BY <1>1, <3>2, <5>1
      <4>2. CASE j = i + 1
        BY <1>1, <2>2, <3>2, <4>2
      <4>3. CASE j > i + 1
        <5>1. j \in (i + 2)..(n + 1) /\ j - 1 \in 1..n
          BY <1>2, <4>3
        <5> QED BY <1>1, <3>2, <5>1
      <4> QED BY <1>2, <4>1, <4>2, <4>3
    <3>3. request'[t] = request[t]
      BY <2>2
    <3>4. request[t] # NoRequest <=> \E j \in 1..n : queue[j] = t
      BY DEF QueueHoldsRequests
    <3> QED BY <1>1, <3>1, <3>2, <3>3, <3>4
  <2> QED BY <2>1, <2>2
<1>4. ASSUME NEW j \in 1..(n + 1), NEW l \in 1..(n + 1), queue'[j] = queue'[l]
      PROVE  j = l
  <2> DEFINE old(m) == IF m <= i THEN m ELSE m - 1
  <2>1. ASSUME NEW m \in 1..(n + 1), m # i + 1
        PROVE  old(m) \in 1..n /\ queue'[m] = queue[old(m)]
    <3>1. CASE m <= i
      BY <1>1, <1>2, <3>1
    <3>2. CASE m > i
      <4>1. m \in (i + 2)..(n + 1)
        BY <1>2, <2>1, <3>2
      <4> QED BY <1>1, <1>2, <3>2, <4>1
    <3> QED BY <1>2, <3>1, <3>2
  <2>2. CASE j = i + 1 \/ l = i + 1
    BY <1>1, <1>2, <1>4, <2>1, <2>2
  <2>3. CASE j # i + 1 /\ l # i + 1
    <3>1. old(j) = old(l)
      BY <1>4, <2>1, <2>3 DEF QueueHoldsRequests
    <3> QED BY <1>2, <2>3, <3>1
  <2> QED BY <2>2, <2>3
<1> QED BY <1>1, <1>3, <1>4 DEF QueueHoldsRequests

\* The first request leaves the queue.
LEMMA QueueAdvanced ==
  ASSUME queue \in Seq(Slot), QueueHoldsRequests, queue # <<>>, queue' = Tail(queue),
         \A t \in Slot : request'[t] = IF t = Head(queue) THEN NoRequest ELSE request[t]
  PROVE  QueueHoldsRequests'
<1> DEFINE n == Len(queue)
<1>1. /\ n \in Nat \ {0} /\ Head(queue) = queue[1]
      /\ Len(queue') = n - 1 /\ \A j \in 1..(n - 1) : queue'[j] = queue[j + 1]
  OBVIOUS
<1>2. \A j, l \in 1..n : queue[j] = queue[l] => j = l
  BY DEF QueueHoldsRequests
<1>3. ASSUME NEW t \in Slot
      PROVE  request'[t] # NoRequest <=> \E j \in 1..(n - 1) : queue'[j] = t
  <2>1. request[t] # NoRequest <=> \E j \in 1..n : queue[j] = t
    BY DEF QueueHoldsRequests
  <2>2. CASE t = Head(queue)
    <3>1. \A j \in 1..(n - 1) : queue[j + 1] # queue[1]
      BY <1>1, <1>2
    <3> QED BY <1>1, <2>2, <3>1
  <2>3. CASE t # Head(queue)
    <3>1. ASSUME NEW j \in 1..n, queue[j] = t PROVE \E l \in 1..(n - 1) : queue'[l] = t
      <4>1. j - 1 \in 1..(n - 1) /\ (j - 1) + 1 = j
        BY <1>1, <2>3, <3>1
      <4> QED BY <1>1, <3>1, <4>1
    <3>2. ASSUME NEW j \in 1..(n - 1), queue'[j] = t PROVE \E l \in 1..n : queue[l] = t
      <4>1. j + 1 \in 1..n /\ queue[j + 1] = t
        BY <1>1, <3>2
      <4> QED BY <4>1
    <3> QED BY <2>1, <2>3, <3>1, <3>2
  <2> QED BY <2>2, <2>3
<1>4. \A j, l \in 1..(n - 1) : queue'[j] = queue'[l] => j = l
  BY <1>1, <1>2
<1> QED BY <1>1, <1>3, <1>4 DEF QueueHoldsRequests

\* The queue holds the filled slots, each once, after each step of a process,
LEMMA QueueStep ==
  ASSUME Typed, HaveBlocks, QueueHoldsRequests, NEW p \in Process,
         CacheAction(p) \/ (RequestAction(p) /\ UNCHANGED cacheVars)
  PROVE  QueueHoldsRequests'
<1>1. CASE CacheAction(p)
  <2>1. Frame(p)
    BY <1>1, CacheFrame
  <2>2. queue' = queue /\ \A s \in Slot : request'[s] # NoRequest <=> request[s] # NoRequest
    BY <2>1 DEF Frame
  <2> QED BY <2>2 DEF QueueHoldsRequests
<1>2. CASE FillRequest(p)
  <2> DEFINE r == [cmd |-> arg[p].cmd, bh |-> arg[p].bh, sent |-> buf[arg[p].bh].data]
  <2>1. PICK s \in Slot : /\ request[s] = NoRequest
                          /\ request' = [request EXCEPT ![s] = r]
                          /\ AddRequest(s, r)
    BY <1>2 DEF FillRequest, FreeSlots
  <2>2. pc[p] \in Making
    BY <1>2 DEF FillRequest, At, Making
  <2>3. r \in Request
    <3>1. arg[p].bh \in Buffer /\ arg[p].cmd \in {"READ", "WRITE"}
      BY <2>2, MakingHasArguments
    <3>2. buf[arg[p].bh] \in Head0
      BY <3>1 DEF Typed, Types
    <3> QED BY <3>1, <3>2 DEF Request, Head0
  <2> HIDE DEF r
  <2>4. r # NoRequest
    BY <2>3, NoRequestAssumption
  <2>5. \A t \in Slot : request'[t] = IF t = s THEN r ELSE request[t]
    BY <2>1 DEF Typed, Types
  <2> QED BY <2>1, <2>4, <2>5, QueueFilled DEF Typed, Types
<1>3. CASE LockBuffer(p) \/ GiveUpAhead(p) \/ NoSlotFound(p) \/ SleepForRequest(p)
  BY <1>3 DEF LockBuffer, GiveUpAhead, NoSlotFound, SleepForRequest, LinkForRequest, LieDownForRequest, QueueHoldsRequests
<1> QED BY <1>1, <1>2, <1>3 DEF RequestAction

\* and after the end of the first request.
LEMMA QueueEndRequest ==
  ASSUME Typed, HaveBlocks, QueueHoldsRequests, NEW u \in BOOLEAN, EndRequest(u)
  PROVE  QueueHoldsRequests'
<1>1. /\ queue # <<>> /\ queue' = Tail(queue)
      /\ request' = [request EXCEPT ![Head(queue)] = NoRequest]
  BY DEF EndRequest
<1>2. \A t \in Slot : request'[t] = IF t = Head(queue) THEN NoRequest ELSE request[t]
  BY <1>1 DEF Typed, Types
<1> QED BY <1>1, <1>2, QueueAdvanced DEF Typed, Types

-----------------------------------------------------------------------------
(* LockHasOneOwner *)

OneOwner(b) ==
  /\ buf[b].lock <=> Lockers(b) # {} \/ Requested(b) # {}
  /\ Lockers(b) = {} \/ Requested(b) = {}
  /\ \A p, q \in Lockers(b) : p = q
  /\ \A s, r \in Requested(b) : s = r

\* Nothing changes for a buffer whose lock and whose owners stay.
LEMMA OwnersKept ==
  ASSUME NEW b \in Buffer, OneOwner(b),
         buf'[b].lock = buf[b].lock, Lockers(b)' = Lockers(b), Requested(b)' = Requested(b)
  PROVE  OneOwner(b)'
BY DEF OneOwner

\* Nothing outside make_request() changes who owns a lock.
LEMMA LockCacheAction ==
  ASSUME Typed, HaveBlocks, NEW p \in Process, CacheAction(p), NEW b \in Buffer, OneOwner(b)
  PROVE  OneOwner(b)'
<1>1. Frame(p)
  BY CacheFrame
<1>2. Lockers(b)' = Lockers(b)
  BY <1>1 DEF Frame, Lockers
<1>3. Requested(b)' = Requested(b)
  BY <1>1 DEF Frame, Requested
<1> QED BY <1>1, <1>2, <1>3, OwnersKept DEF Frame

\* lock_buffer() makes p the owner of a lock that was free.
LEMMA LockBufferOwner ==
  ASSUME Typed, NEW p \in Process, LockBuffer(p), NEW c \in Buffer, OneOwner(c)
  PROVE  OneOwner(c)'
<1> DEFINE b == arg[p].bh
<1>1. Types /\ pc[p] = "lock" /\ ~buf[b].lock /\ UNCHANGED request
  BY DEF LockBuffer, At, Typed
<1>2. b \in Buffer /\ arg[p].ret \in {"sync", "read_wait", "ahead", "drop"}
  BY <1>1, MakingHasArguments DEF Making
<1>3. Requested(c)' = Requested(c)
  BY <1>1 DEF Requested
<1>4. CASE Return(p) /\ UNCHANGED buf
  <2>1. pc' = [pc EXCEPT ![p] = arg[p].ret] /\ arg' = [arg EXCEPT ![p] = NoRequest]
    BY <1>4 DEF Return, Goto
  <2>2. Lockers(c)' = Lockers(c)
    BY <1>1, <1>2, <2>1 DEF Lockers, Types
  <2> QED BY <1>3, <1>4, <2>2, OwnersKept
<1>5. CASE buf' = [buf EXCEPT ![b].lock = TRUE] /\ Goto(p, "find_request") /\ UNCHANGED arg
  <2>1. pc' = [pc EXCEPT ![p] = "find_request"] /\ arg' = arg
    BY <1>5 DEF Goto
  <2> HIDE DEF b
  <2>2. /\ \A g \in Buffer \ {b} : buf'[g] = buf[g]
        /\ buf'[b].lock = TRUE
    BY <1>1, <1>2, <1>5, LockStored
  <2>3. CASE c = b
    <3>1. Lockers(c) = {} /\ Requested(c) = {}
      BY <1>1, <2>3 DEF OneOwner
    <3>2. Lockers(c)' = {p}
      BY <1>1, <2>1, <2>3, <3>1 DEF Lockers, Types, b
    <3> QED BY <1>3, <2>2, <2>3, <3>1, <3>2 DEF OneOwner
  <2>4. CASE c # b
    <3>1. Lockers(c)' = Lockers(c)
      BY <1>1, <2>1, <2>4 DEF Lockers, Types, b
    <3> QED BY <1>3, <2>2, <2>4, <3>1, OwnersKept
  <2> QED BY <2>3, <2>4
<1> QED BY <1>4, <1>5 DEF LockBuffer

\* The request inherits the lock of the process that filled it.
LEMMA FillRequestOwner ==
  ASSUME Typed, NEW p \in Process, FillRequest(p), NEW c \in Buffer, OneOwner(c)
  PROVE  OneOwner(c)'
<1> DEFINE b == arg[p].bh
           r == [cmd |-> arg[p].cmd, bh |-> b, sent |-> buf[b].data]
<1>1. Types /\ pc[p] = "find_request"
  BY DEF FillRequest, At, Typed
<1>2. b \in Buffer /\ arg[p].ret \in {"sync", "read_wait", "ahead", "drop"}
      /\ arg[p].cmd \in {"READ", "WRITE"}
  BY <1>1, MakingHasArguments DEF Making
<1>3. PICK s \in Slot : request[s] = NoRequest /\ request' = [request EXCEPT ![s] = r]
  BY DEF FillRequest, FreeSlots
<1>4. r \in Request /\ r.bh = b
  BY <1>1, <1>2 DEF Types, Head0, Request
<1>5. /\ pc' = [pc EXCEPT ![p] = arg[p].ret] /\ arg' = [arg EXCEPT ![p] = NoRequest]
      /\ buf' = [buf EXCEPT ![b].dirt = FALSE]
  BY DEF FillRequest, Return, Goto
<1>6. p \in Lockers(b)
  BY <1>1 DEF Lockers
<1>7. Lockers(c)' = Lockers(c) \ {p}
  BY <1>1, <1>2, <1>5 DEF Lockers, Types
<1> HIDE DEF b, r
<1>8. buf'[c].lock = buf[c].lock
  BY <1>1, <1>2, <1>5, DirtCleared
<1>9. r # NoRequest
  BY <1>4, NoRequestAssumption
<1>10. CASE c = b
  <2>1. Lockers(c) = {p} /\ Requested(c) = {} /\ buf[c].lock
    BY <1>6, <1>10 DEF OneOwner
  <2>2. Requested(c)' = {s}
    BY <1>1, <1>3, <1>4, <1>9, <1>10, <2>1 DEF Requested, Types
  <2> QED BY <1>7, <1>8, <2>1, <2>2 DEF OneOwner
<1>11. CASE c # b
  <2>1. p \notin Lockers(c)
    BY <1>11 DEF Lockers, b
  <2>2. Requested(c)' = Requested(c)
    BY <1>1, <1>3, <1>4, <1>11 DEF Requested, Types
  <2> QED BY <1>7, <1>8, <2>1, <2>2, OwnersKept
<1> QED BY <1>10, <1>11

\* A read-ahead without a slot gives up its lock; a sleeper keeps his.
LEMMA GiveUpOwner ==
  ASSUME Typed, NEW p \in Process, GiveUpAhead(p) \/ NoSlotFound(p) \/ SleepForRequest(p),
         NEW c \in Buffer, OneOwner(c)
  PROVE  OneOwner(c)'
<1> DEFINE b == arg[p].bh
<1>1. Types /\ pc[p] \in {"find_request", "sleep_request", "linked_request"} /\ UNCHANGED request
  BY DEF GiveUpAhead, NoSlotFound, SleepForRequest, LinkForRequest, LieDownForRequest, At, Typed
<1>2. b \in Buffer /\ arg[p].ret \in {"sync", "read_wait", "ahead", "drop"}
  BY <1>1, MakingHasArguments DEF Making
<1>3. Requested(c)' = Requested(c)
  BY <1>1 DEF Requested
<1>4. CASE GiveUpAhead(p)
  <2>1. /\ pc' = [pc EXCEPT ![p] = arg[p].ret] /\ arg' = [arg EXCEPT ![p] = NoRequest]
        /\ buf' = [buf EXCEPT ![b].lock = FALSE]
    BY <1>4 DEF GiveUpAhead, Return, Goto
  <2>2. p \in Lockers(b)
    BY <1>1 DEF Lockers
  <2>3. Lockers(c)' = Lockers(c) \ {p}
    BY <1>1, <1>2, <2>1 DEF Lockers, Types
  <2>4. c # b => p \notin Lockers(c)
    BY DEF Lockers
  <2> HIDE DEF b
  <2>5. /\ \A g \in Buffer \ {b} : buf'[g] = buf[g]
        /\ buf'[b].lock = FALSE
    BY <1>1, <1>2, <2>1, LockStored
  <2>6. CASE c = b
    <3>1. Lockers(c) = {p} /\ Requested(c) = {}
      BY <2>2, <2>6 DEF OneOwner
    <3> QED BY <1>3, <2>3, <2>5, <2>6, <3>1 DEF OneOwner
  <2>7. CASE c # b
    BY <1>3, <2>3, <2>4, <2>5, <2>7, OwnersKept
  <2> QED BY <2>6, <2>7
<1>5. CASE NoSlotFound(p) \/ SleepForRequest(p)
  <2>1. /\ \E label \in {"find_request", "sleep_request", "linked_request"} :
             pc' = [pc EXCEPT ![p] = label]
        /\ arg' = arg /\ buf' = buf
    BY <1>5 DEF NoSlotFound, SleepForRequest, LinkForRequest, LieDownForRequest, Goto
  <2>2. Lockers(c)' = Lockers(c)
    BY <1>1, <2>1 DEF Lockers, Types
  <2> QED BY <1>3, <2>1, <2>2, OwnersKept
<1> QED BY <1>4, <1>5

\* The end of a request frees the lock the request owned.
LEMMA EndRequestOwner ==
  ASSUME Typed, HaveBlocks, QueueHoldsRequests, NEW u \in BOOLEAN, EndRequest(u),
         NEW c \in Buffer, OneOwner(c)
  PROVE  OneOwner(c)'
<1>1. PICK s, b, k : s = Head(queue) /\ b = request[s].bh /\ k = buf[b].block
  OBVIOUS
<1>2. s \in Slot /\ b \in Buffer /\ request[s] # NoRequest
  BY <1>1, FirstRequest DEF EndRequest
<1>3. PICK d, e \in Data : Ended(u, s, b, k, d, e)
  BY <1>1, RequestEnded
<1>4. /\ \A g \in Buffer \ {b} : buf'[g] = buf[g]
      /\ buf'[b].lock = FALSE
  BY <1>2, <1>3, TransferEnded DEF Ended, Typed
<1>5. request' = [request EXCEPT ![s] = NoRequest] /\ request \in [Slot -> Request \union {NoRequest}]
  BY <1>3 DEF Ended, Typed, Types
<1>6. Lockers(c)' = Lockers(c)
  BY DEF EndRequest, Lockers
<1>7. Requested(c)' = Requested(c) \ {s}
  BY <1>2, <1>5 DEF Requested
<1>8. s \in Requested(b)
  BY <1>1, <1>2 DEF Requested
<1>9. CASE c = b
  <2>1. Requested(c) = {s} /\ Lockers(c) = {}
    BY <1>8, <1>9 DEF OneOwner
  <2> QED BY <1>4, <1>6, <1>7, <1>9, <2>1 DEF OneOwner
<1>10. CASE c # b
  <2>1. s \notin Requested(c)
    BY <1>1, <1>10 DEF Requested
  <2> QED BY <1>4, <1>6, <1>7, <1>10, <2>1, OwnersKept
<1> QED BY <1>9, <1>10

\* One buffer through one step of a process.
LEMMA OwnerStep ==
  ASSUME Typed, HaveBlocks, NEW p \in Process,
         CacheAction(p) \/ (RequestAction(p) /\ UNCHANGED cacheVars),
         NEW c \in Buffer, OneOwner(c)
  PROVE  OneOwner(c)'
BY LockCacheAction, LockBufferOwner, FillRequestOwner, GiveUpOwner DEF RequestAction

\* Every step keeps the types and the places.
LEMMA TypedNext ==
  ASSUME Typed, HaveBlocks, NEW p \in Process,
         CacheAction(p) \/ (RequestAction(p) /\ UNCHANGED cacheVars)
  PROVE  Typed'
<1>1. CASE RequestAction(p) /\ UNCHANGED cacheVars
  BY <1>1, MakeRequestTyped DEF RequestAction, MakeRequest
<1>2. CASE /\ \/ WaitOnBuffer(p, "hash_wait", bh[p])
              \/ WaitOnBuffer(p, "free_wait", victim[p])
              \/ WaitOnBuffer(p, "read_wait", bh[p])
              \/ WaitOnBuffer(p, "brelse", bh[p])
           /\ UNCHANGED cacheVars
  <2>1. pc[p] \in {"hash_wait", "read_wait", "brelse"} => bh[p] \in Buffer
    BY DEF Typed, Types, Local, Place, Making
  <2>2. pc[p] = "free_wait" => victim[p] \in Buffer
    BY DEF Typed, Types, Local, Place, Making
  <2> QED BY <1>2, <2>1, <2>2, WaitTyped DEF WaitOnBuffer, At
<1>3. CASE WaitOnBuffer(p, "lock", arg[p].bh) /\ UNCHANGED cacheVars
  BY <1>3, MakeRequestTyped DEF MakeRequest
<1> QED
  BY <1>1, <1>2, <1>3, FindInHashTyped, HashWaitedTyped, GetblkTyped, VictimWaitedTyped,
     SyncTyped, ReadWaitedTyped, DropTyped, UseTyped, StartTyped DEF CacheAction

\* What holds of the locks, and what it rests on.
LockInv ==
  /\ Typed
  /\ HaveBlocks
  /\ QueueHoldsRequests
  /\ \A b \in Buffer : OneOwner(b)

\* The three facts of the inductive invariant: at the start,
LEMMA LockInvInit == Init => LockInv
<1> SUFFICES ASSUME Init PROVE LockInv
  OBVIOUS
<1>1. buf \in [Buffer -> Head0]
  BY DEF Init, Head0, Data
<1>2. free_list \in Seq(Buffer)
  BY BlockRequestsAssumption DEF Init, Buffer
<1>3. scan \in [Process -> Steps]
  BY Constants DEF Init
<1>4. Types
  <2>1. /\ request \in [Slot -> Request \union {NoRequest}]
        /\ queue \in Seq(Slot)
        /\ disk \in [Block -> Data]
        /\ arg \in [Process -> Arguments \union {NoRequest}]
    BY DEF Init, Data
  <2>2. /\ pc \in [Process -> Label]
        /\ wait \in [Process -> Buffer \union {WaitForRequest, BufferWait, NoQueue, Unnamed}]
        /\ cpu \in Process \union {NoProcess}
        /\ op \in [Process -> Operation \union {"none"}]
        /\ want \in [Process -> Block \union {NoBlock}]
    BY DEF Init, Label
  <2>3. /\ bh \in [Process -> Buffer \union {NoBuffer}]
        /\ first \in [Process -> Buffer \union {NoBuffer}]
        /\ victim \in [Process -> Buffer \union {NoBuffer}]
    BY DEF Init
  <2> QED BY <1>1, <1>2, <1>3, <2>1, <2>2, <2>3 DEF Types
<1>5. ASSUME NEW p \in Process PROVE Local(p)
  <2>1. /\ pc[p] = "user" /\ arg[p] = NoRequest /\ op[p] = "none" /\ want[p] = NoBlock
        /\ bh[p] = NoBuffer /\ first[p] = NoBuffer /\ victim[p] = NoBuffer
    BY DEF Init
  <2> QED BY <2>1, Constants DEF Local, Place, Making
<1>6. \A s \in Slot : request[s] = NoRequest
  BY DEF Init
<1>7. HaveBlocks
  BY <1>6 DEF Init, HaveBlocks, Making
<1>8. QueueHoldsRequests
  BY <1>6 DEF Init, QueueHoldsRequests
<1>9. ASSUME NEW b \in Buffer PROVE OneOwner(b)
  <2>1. ~buf[b].lock
    BY DEF Init
  <2>2. Lockers(b) = {} /\ Requested(b) = {}
    BY <1>6 DEF Init, Lockers, Requested
  <2> QED BY <2>1, <2>2 DEF OneOwner
<1> QED BY <1>4, <1>5, <1>7, <1>8, <1>9 DEF LockInv, Typed

\* in every step,
LEMMA LockInvStep == LockInv /\ [Next]_vars => LockInv'
<1> SUFFICES ASSUME LockInv, [Next]_vars PROVE LockInv'
  OBVIOUS
<1> USE DEF LockInv
<1>1. ASSUME NEW p \in Process, CacheAction(p) \/ (RequestAction(p) /\ UNCHANGED cacheVars)
      PROVE  LockInv'
  BY <1>1, TypedNext, BlocksStep, QueueStep, OwnerStep
<1>2. ASSUME NEW u \in BOOLEAN, EndRequest(u), UNCHANGED cacheVars PROVE LockInv'
  BY <1>2, EndRequestTyped, BlocksEndRequest, QueueEndRequest, EndRequestOwner
<1>3. CASE UNCHANGED vars
  <2>1. Typed'
    BY <1>3 DEF Typed, Types, Local, Place, vars, requestVars, cacheVars
  <2>2. HaveBlocks' /\ QueueHoldsRequests'
    BY <1>3 DEF HaveBlocks, HasBlock, QueueHoldsRequests, vars, requestVars, cacheVars
  <2>3. ASSUME NEW b \in Buffer PROVE OneOwner(b)'
    BY <1>3 DEF OneOwner, Lockers, Requested, vars, requestVars
  <2> QED BY <2>1, <2>2, <2>3
<1> QED BY <1>1, <1>2, <1>3, NextActions DEF Next

\* and so always.
LEMMA LockInvAlways == Spec => []LockInv
BY LockInvInit, LockInvStep, PTL DEF Spec

\* A buffer is locked exactly while one process makes a request for it, or one
\* request for it is in the queue of the device: make_request() and
\* end_request() hand the lock on, and nobody else takes it.
THEOREM LockOwnership == Spec => []LockHasOneOwner
<1>1. LockInv => LockHasOneOwner
  BY DEF LockInv, LockHasOneOwner, OneOwner
<1> QED BY <1>1, LockInvAlways, PTL

-----------------------------------------------------------------------------
(* CountIsReferences, HeldBufferKeepsBlock and UniqueBuffer *)

\* What the number of pointers to c does when p, of those that f says, points
\* to x, as g says.
Moved(f, g, p, x, c) ==
  /\ Cardinality(Holders(f, c)) \in Nat /\ Cardinality(Holders(g, c)) \in Nat
  /\ (f[p] = c <=> x = c) => Cardinality(Holders(g, c)) = Cardinality(Holders(f, c))
  /\ f[p] = c /\ x # c => Cardinality(Holders(g, c)) = Cardinality(Holders(f, c)) - 1
  /\ f[p] # c /\ x = c => Cardinality(Holders(g, c)) = Cardinality(Holders(f, c)) + 1

\* One process points elsewhere.
LEMMA HoldersMoved ==
  ASSUME NEW f, NEW g, NEW p \in Process, NEW x, NEW b,
         g[p] = x, \A q \in Process \ {p} : g[q] = f[q]
  PROVE  Moved(f, g, p, x, b)
<1> USE DEF Moved
<1> DEFINE F == Holders(f, b)
           G == Holders(g, b)
<1>1. F \subseteq Process /\ G \subseteq Process
  BY DEF Holders
<1>2. IsFiniteSet(F) /\ IsFiniteSet(G)
  BY <1>1, FS_Subset, BufferCacheAssumption
<1>3. Cardinality(F) \in Nat /\ Cardinality(G) \in Nat
  BY <1>2, FS_CardinalityType
<1>4. (f[p] = b <=> x = b) => G = F
  BY DEF Holders
<1>5. CASE f[p] = b /\ x # b
  <2>1. p \in F /\ G = F \ {p}
    BY <1>5 DEF Holders
  <2> HIDE DEF F, G
  <2>2. Cardinality(G) = Cardinality(F) - 1
    BY <1>2, <2>1, FS_RemoveElement
  <2> QED BY <1>3, <1>5, <2>2 DEF F, G
<1>6. CASE f[p] # b /\ x = b
  <2>1. p \notin F /\ G = F \union {p}
    BY <1>6 DEF Holders
  <2> HIDE DEF F, G
  <2>2. Cardinality(G) = Cardinality(F) + 1
    BY <1>2, <2>1, FS_AddElement
  <2> QED BY <1>3, <1>6, <2>2 DEF F, G
<1> QED BY <1>3, <1>4, <1>5, <1>6

\* How the holders of a buffer change with the pointer bh of p,
LEMMA BhMoved ==
  ASSUME Types, NEW p \in Process, NEW x \in Buffer \union {NoBuffer}, NEW c,
         bh' = [bh EXCEPT ![p] = x]
  PROVE  Moved(bh, bh', p, x, c)
<1>1. bh'[p] = x /\ \A q \in Process \ {p} : bh'[q] = bh[q]
  BY DEF Types
<1> QED BY <1>1, HoldersMoved, Zenon

\* and with first, the buffer breada() returns.
LEMMA FirstMoved ==
  ASSUME Types, NEW p \in Process, NEW x \in Buffer \union {NoBuffer}, NEW c,
         first' = [first EXCEPT ![p] = x]
  PROVE  Moved(first, first', p, x, c)
<1>1. first'[p] = x /\ \A q \in Process \ {p} : first'[q] = first[q]
  BY DEF Types
<1> QED BY <1>1, HoldersMoved, Zenon

\* The processes whose pointers count are as many as there are.
LEMMA HoldersCount ==
  ASSUME Types, NEW c
  PROVE  Cardinality(Holders(bh, c)) \in Nat /\ Cardinality(Holders(first, c)) \in Nat
<1>1. Holders(bh, c) \subseteq Process /\ Holders(first, c) \subseteq Process
  BY DEF Holders
<1> QED BY <1>1, FS_Subset, FS_CardinalityType, BufferCacheAssumption

\* Steps that move no pointer and no count.
LEMMA ReferencesKept ==
  ASSUME Typed, References, UNCHANGED <<bh, first>>,
         \A b \in Buffer : buf'[b].count = buf[b].count /\ buf'[b].block = buf[b].block,
         \A q \in Process : bh[q] # NoBuffer => want'[q] = want[q]
  PROVE  References'
<1>1. \A q \in Process : bh[q] # NoBuffer => bh[q] \in Buffer
  BY DEF Typed, Types
<1>2. \A b \in Buffer : Holders(bh, b)' = Holders(bh, b) /\ Holders(first, b)' = Holders(first, b)
  BY DEF Holders
<1> QED BY <1>1, <1>2 DEF References, HeldBufferKeepsBlock, UniqueBuffer

\* Steps without a change of a count or a pointer.
LEMMA ReferencesPlain ==
  ASSUME Typed, References, NEW p \in Process,
         \/ ChooseVictim(p) \/ SleepForBuffer(p)
         \/ SyncBuffer(p) \/ SyncWait(p) \/ SyncDone(p) \/ ReadWaited(p) \/ Nap(p)
         \/ Start(p) \/ StartSync(p)
         \/ VictimWaited(p) /\ (GetblkRepeats(p, victim[p]) \/ CleanVictim(p))
         \/ HashWaited(p) /\ buf[bh[p]].block = want[p]
         \/ \E label : (\E b : WaitOnBuffer(p, label, b)) /\ UNCHANGED cacheVars
  PROVE  References'
<1>1. Types /\ Local(p)
  BY DEF Typed
<1>2. UNCHANGED <<buf, bh, first>>
  BY HashReturned DEF ChooseVictim, SleepForBuffer, SyncBuffer, SyncWait, SyncDone, ReadWaited, Nap,
     Start, StartSync, VictimWaited, GetblkRepeats, CleanVictim, WaitOnBuffer, cacheVars
<1>3. CASE Start(p) \/ SyncDone(p)
  <2>1. bh[p] = NoBuffer
    BY <1>1, <1>3 DEF Start, SyncDone, At, Local, Place, Making
  <2>2. \A q \in Process \ {p} : want'[q] = want[q]
    BY <1>1, <1>3 DEF Start, SyncDone, Finish, Types
  <2> QED BY <1>2, <2>1, <2>2, ReferencesKept
<1>4. CASE ~Start(p) /\ ~SyncDone(p)
  <2>1. UNCHANGED want
    BY <1>4 DEF ChooseVictim, SleepForBuffer, SyncBuffer, SyncWait, ReadWaited, Nap,
       StartSync, VictimWaited, HashWaited, WaitOnBuffer, cacheVars
  <2> QED BY <1>2, <2>1, ReferencesKept
<1> QED BY <1>3, <1>4

\* Neither does the use of a buffer,
LEMMA ReferencesUse ==
  ASSUME Typed, References, NEW p \in Process, Use(p)
  PROVE  References'
<1>1. Types /\ bh[p] \in Buffer
  BY DEF Typed, Types, Use, At, Local, Place, Making
<1>2. UNCHANGED <<bh, first, want>>
  BY DEF Use, cacheVars
<1>3. CASE UNCHANGED buf
  BY <1>2, <1>3, ReferencesKept
<1>4. CASE Written(bh[p], buf[bh[p]].uptodate \/ op[p] = "fresh")
  <2>1. PICK u \in BOOLEAN : Written(bh[p], u)
    <3>1. (buf[bh[p]].uptodate \/ op[p] = "fresh") \in BOOLEAN
      OBVIOUS
    <3> QED BY <1>4, <3>1
  <2>2. buf' = [buf EXCEPT ![bh[p]].data = "current", ![bh[p]].dirt = TRUE, ![bh[p]].uptodate = u]
    BY <2>1, Zenon DEF Written
  <2>3. \A c \in Buffer : buf'[c].block = buf[c].block /\ buf'[c].count = buf[c].count
    BY <1>1, <2>2, DataStored
  <2> QED BY <1>2, <2>3, ReferencesKept
<1> QED BY <1>3, <1>4 DEF Use

\* nor make_request(),
LEMMA ReferencesRequest ==
  ASSUME Typed, References, NEW p \in Process, RequestAction(p), UNCHANGED cacheVars
  PROVE  References'
<1>1. RequestFrame(p, arg[p].bh) /\ UNCHANGED <<bh, first, want>>
  BY RequestActionFrame DEF cacheVars
<1> QED BY <1>1, ReferencesKept DEF RequestFrame

\* nor end_request().
LEMMA ReferencesEndRequest ==
  ASSUME Typed, HaveBlocks, QueueHoldsRequests, References, NEW u \in BOOLEAN, EndRequest(u),
         UNCHANGED cacheVars
  PROVE  References'
<1>1. PICK s, b, k : s = Head(queue) /\ b = request[s].bh /\ k = buf[b].block
  OBVIOUS
<1>2. b \in Buffer
  BY <1>1, FirstRequest DEF EndRequest
<1>3. PICK d, e \in Data : Ended(u, s, b, k, d, e)
  BY <1>1, RequestEnded
<1>4. \A c \in Buffer : buf'[c].block = buf[c].block /\ buf'[c].count = buf[c].count
  BY <1>2, <1>3, TransferEnded DEF Ended, Typed
<1>5. UNCHANGED <<bh, first, want>>
  BY DEF cacheVars
<1> QED BY <1>4, <1>5, ReferencesKept

\* Whoever gets a buffer counts himself.
LEMMA ReferencesFind ==
  ASSUME Typed, References, NEW p \in Process, FindInHash(p)
  PROVE  References'
<1>1. Types /\ Local(p)
  BY DEF Typed
<1>2. PICK b \in find_buffer(want[p]) : /\ buf' = [buf EXCEPT ![b].count = buf[b].count + 1]
                                        /\ bh' = [bh EXCEPT ![p] = b]
  BY DEF FindInHash
<1>3. b \in Buffer /\ buf[b].block = want[p] /\ bh[p] = NoBuffer /\ b # NoBuffer
  BY <1>1, <1>2, BufferCacheAssumption DEF find_buffer, FindInHash, At, Local, Place, Making
<1>4. PICK n \in Int : n = buf[b].count + 1
  BY <1>1, <1>3 DEF Types, Head0
<1>5. buf' = [buf EXCEPT ![b].count = n]
  BY <1>2, <1>4, Zenon
<1>6. /\ \A c \in Buffer \ {b} : buf'[c] = buf[c]
      /\ buf'[b].block = buf[b].block /\ buf'[b].count = n
  BY <1>1, <1>3, <1>5, CountStored
<1>7. UNCHANGED <<first, want>>
  BY DEF FindInHash
<1>8. ASSUME NEW c \in Buffer
      PROVE  buf'[c].count = Cardinality(Holders(bh', c)) + Cardinality(Holders(first', c))
  <2>0. Moved(bh, bh', p, b, c)
    BY <1>1, <1>2, <1>3, BhMoved, FirstMoved
  <2>1. buf[c].count = Cardinality(Holders(bh, c)) + Cardinality(Holders(first, c))
    BY DEF References
  <2>2. Cardinality(Holders(bh, c)) \in Nat /\ Cardinality(Holders(first, c)) \in Nat
    BY <1>1, HoldersCount
  <2>3. c = b => Cardinality(Holders(bh', c)) = Cardinality(Holders(bh, c)) + 1
    BY <1>1, <1>2, <1>3, <2>0 DEF Moved
  <2>4. c # b => Cardinality(Holders(bh', c)) = Cardinality(Holders(bh, c))
    BY <1>1, <1>2, <1>3, <2>0, BufferCacheAssumption DEF Moved
  <2> QED BY <1>4, <1>6, <1>7, <2>1, <2>2, <2>3, <2>4
<1>9. HeldBufferKeepsBlock'
  BY <1>1, <1>2, <1>3, <1>6, <1>7 DEF References, HeldBufferKeepsBlock, Types
<1>10. UniqueBuffer'
  BY <1>6 DEF References, UniqueBuffer
<1> QED BY <1>8, <1>9, <1>10 DEF References, Holders

\* Whoever gives a buffer up leaves it.
LEMMA ReferencesRelease ==
  ASSUME Typed, References, NEW p \in Process, bh[p] \in Buffer,
         buf' = [buf EXCEPT ![bh[p]].count = buf[bh[p]].count - 1],
         bh' = [bh EXCEPT ![p] = NoBuffer],
         UNCHANGED first, \A q \in Process \ {p} : want'[q] = want[q]
  PROVE  References'
<1> DEFINE b == bh[p]
<1>1. Types /\ b # NoBuffer
  BY BufferCacheAssumption DEF Typed
<1>2. PICK n \in Int : n = buf[b].count - 1
  BY <1>1 DEF Types, Head0
<1>3. buf' = [buf EXCEPT ![b].count = n]
  BY <1>2, Zenon
<1>4. /\ \A c \in Buffer \ {b} : buf'[c] = buf[c]
      /\ buf'[b].block = buf[b].block /\ buf'[b].count = n
  BY <1>1, <1>3, CountStored
<1>5. ASSUME NEW c \in Buffer
      PROVE  buf'[c].count = Cardinality(Holders(bh', c)) + Cardinality(Holders(first', c))
  <2>0. Moved(bh, bh', p, NoBuffer, c)
    BY <1>1, BhMoved, FirstMoved
  <2>1. buf[c].count = Cardinality(Holders(bh, c)) + Cardinality(Holders(first, c))
    BY DEF References
  <2>2. Cardinality(Holders(bh, c)) \in Nat /\ Cardinality(Holders(first, c)) \in Nat
    BY <1>1, HoldersCount
  <2>3. c # NoBuffer
    BY BufferCacheAssumption
  <2>4. c = b => Cardinality(Holders(bh', c)) = Cardinality(Holders(bh, c)) - 1
    BY <1>1, <2>3, <2>0 DEF Moved
  <2>5. c # b => Cardinality(Holders(bh', c)) = Cardinality(Holders(bh, c))
    BY <1>1, <2>3, <2>0 DEF Moved
  <2> QED BY <1>2, <1>4, <2>1, <2>2, <2>4, <2>5
<1>6. HeldBufferKeepsBlock'
  <2>1. ASSUME NEW q \in Process, bh'[q] # NoBuffer PROVE buf'[bh'[q]].block = want'[q]
    <3>1. q # p /\ bh'[q] = bh[q] /\ bh[q] \in Buffer
      BY <1>1, <2>1 DEF Types
    <3>2. buf[bh[q]].block = want[q]
      BY <2>1, <3>1 DEF References, HeldBufferKeepsBlock
    <3> QED BY <1>4, <3>1, <3>2
  <2> QED BY <2>1 DEF HeldBufferKeepsBlock
<1>7. UniqueBuffer'
  BY <1>4 DEF References, UniqueBuffer
<1> QED BY <1>5, <1>6, <1>7 DEF References, Holders

\* Whoever leaves a buffer is no longer counted.
LEMMA ReferencesLeave ==
  ASSUME Typed, References, NEW p \in Process,
         brelse(p) \/ (HashWaited(p) /\ buf[bh[p]].block # want[p])
  PROVE  References'
<1>1. Types /\ bh[p] \in Buffer
  BY DEF Typed, Types, HashWaited, brelse, At, Local, Place, Making
<1>2. /\ buf' = [buf EXCEPT ![bh[p]].count = buf[bh[p]].count - 1]
      /\ bh' = [bh EXCEPT ![p] = NoBuffer]
      /\ UNCHANGED first
  BY Zenon DEF HashWaited, brelse
<1>3. \A q \in Process \ {p} : want'[q] = want[q]
  BY <1>1 DEF HashWaited, brelse, Finish, Types
<1> QED BY <1>1, <1>2, <1>3, ReferencesRelease

\* breada() hands its first buffer on, and the reference with it.
LEMMA ReferencesAhead ==
  ASSUME Typed, References, NEW p \in Process, Ahead(p)
  PROVE  References'
<1> DEFINE b == bh[p]
<1>1. Types /\ bh[p] \in Buffer /\ first[p] = NoBuffer
  BY DEF Typed, Types, Ahead, At, Local, Place, Making
<1>2. /\ first' = [first EXCEPT ![p] = b]
      /\ bh' = [bh EXCEPT ![p] = NoBuffer]
      /\ UNCHANGED buf
  BY DEF Ahead
<1>3. \A q \in Process \ {p} : want'[q] = want[q]
  BY <1>1 DEF Ahead, Types
<1> HIDE DEF b
<1>4. ASSUME NEW c \in Buffer
      PROVE  buf'[c].count = Cardinality(Holders(bh', c)) + Cardinality(Holders(first', c))
  <2>0. Moved(bh, bh', p, NoBuffer, c) /\ Moved(first, first', p, b, c)
    BY <1>1, <1>2, BhMoved, FirstMoved DEF b
  <2>1. buf[c].count = Cardinality(Holders(bh, c)) + Cardinality(Holders(first, c))
    BY DEF References
  <2>2. Cardinality(Holders(bh, c)) \in Nat /\ Cardinality(Holders(first, c)) \in Nat
    BY <1>1, HoldersCount
  <2>3. c # NoBuffer /\ b \in Buffer /\ b = bh[p]
    BY <1>1, BufferCacheAssumption DEF b
  <2>4. c = b => /\ Cardinality(Holders(bh', c)) = Cardinality(Holders(bh, c)) - 1
                 /\ Cardinality(Holders(first', c)) = Cardinality(Holders(first, c)) + 1
    BY <1>1, <1>2, <2>3, <2>0 DEF Moved
  <2>5. c # b => /\ Cardinality(Holders(bh', c)) = Cardinality(Holders(bh, c))
                 /\ Cardinality(Holders(first', c)) = Cardinality(Holders(first, c))
    BY <1>1, <1>2, <2>3, <2>0 DEF Moved
  <2> QED BY <1>2, <2>1, <2>2, <2>4, <2>5
<1>5. HeldBufferKeepsBlock'
  <2>1. ASSUME NEW q \in Process, bh'[q] # NoBuffer PROVE buf'[bh'[q]].block = want'[q]
    <3>1. q # p /\ bh'[q] = bh[q]
      BY <1>1, <1>2, <2>1 DEF Types
    <3>2. buf[bh[q]].block = want[q]
      BY <2>1, <3>1 DEF References, HeldBufferKeepsBlock
    <3> QED BY <1>2, <1>3, <3>1, <3>2
  <2> QED BY <2>1 DEF HeldBufferKeepsBlock
<1>6. UniqueBuffer'
  BY <1>2 DEF References, UniqueBuffer
<1> QED BY <1>4, <1>5, <1>6 DEF References, Holders

\* and gets it back for the one it read ahead.
LEMMA ReferencesDrop ==
  ASSUME Typed, References, NEW p \in Process, Drop(p)
  PROVE  References'
<1> DEFINE b == bh[p]
           f == first[p]
<1>1. Types /\ b \in Buffer /\ f \in Buffer /\ NoBuffer \notin Buffer
  BY BufferCacheAssumption DEF Typed, Types, Drop, At, Local, Place, Making
<1>2. /\ first' = [first EXCEPT ![p] = NoBuffer]
      /\ bh' = [bh EXCEPT ![p] = f]
      /\ want' = [want EXCEPT ![p] = buf[f].block]
  BY DEF Drop
<1>3. PICK n \in Int : n = buf[b].count - 1
  BY <1>1 DEF Types, Head0
<1>4. buf' = [buf EXCEPT ![b].count = n]
  BY <1>3, Zenon DEF Drop
<1>5. /\ \A c \in Buffer \ {b} : buf'[c] = buf[c]
      /\ buf'[b].block = buf[b].block /\ buf'[b].count = n
  BY <1>1, <1>4, CountStored
<1>6. b = bh[p] /\ f = first[p]
  OBVIOUS
<1> HIDE DEF b, f
<1>7. ASSUME NEW c \in Buffer
      PROVE  buf'[c].count = Cardinality(Holders(bh', c)) + Cardinality(Holders(first', c))
  <2>0. Moved(bh, bh', p, f, c) /\ Moved(first, first', p, NoBuffer, c)
    BY <1>1, <1>2, BhMoved, FirstMoved
  <2>1. buf[c].count = Cardinality(Holders(bh, c)) + Cardinality(Holders(first, c))
    BY DEF References
  <2>2. Cardinality(Holders(bh, c)) \in Nat /\ Cardinality(Holders(first, c)) \in Nat
    BY <1>1, HoldersCount
  <2>3. /\ c = b /\ c # f => Cardinality(Holders(bh', c)) = Cardinality(Holders(bh, c)) - 1
        /\ c # b /\ c = f => Cardinality(Holders(bh', c)) = Cardinality(Holders(bh, c)) + 1
        /\ (c = b <=> c = f) => Cardinality(Holders(bh', c)) = Cardinality(Holders(bh, c))
    BY <1>1, <1>2, <1>6, <2>0 DEF Moved
  <2>4. /\ c = f => Cardinality(Holders(first', c)) = Cardinality(Holders(first, c)) - 1
        /\ c # f => Cardinality(Holders(first', c)) = Cardinality(Holders(first, c))
    BY <1>1, <1>2, <1>6, <2>0 DEF Moved
  <2> QED BY <1>3, <1>5, <2>1, <2>2, <2>3, <2>4
<1>8. HeldBufferKeepsBlock'
  <2>1. ASSUME NEW q \in Process, bh'[q] # NoBuffer PROVE buf'[bh'[q]].block = want'[q]
    <3>1. CASE q = p
      BY <1>1, <1>2, <1>5, <3>1 DEF Types
    <3>2. CASE q # p
      <4>1. bh'[q] = bh[q] /\ want'[q] = want[q] /\ bh[q] \in Buffer
        BY <1>1, <1>2, <2>1, <3>2 DEF Types
      <4>2. buf[bh[q]].block = want[q]
        BY <2>1, <4>1 DEF References, HeldBufferKeepsBlock
      <4> QED BY <1>5, <4>1, <4>2
    <3> QED BY <3>1, <3>2
  <2> QED BY <2>1 DEF HeldBufferKeepsBlock
<1>9. UniqueBuffer'
  BY <1>5 DEF References, UniqueBuffer
<1> QED BY <1>7, <1>8, <1>9 DEF References, Holders

\* A buffer nobody refers to gets a block no buffer has.
LEMMA ReferencesTake ==
  ASSUME Typed, References, NEW p \in Process, VictimWaited(p), TakeVictim(p, victim[p]),
         buf[victim[p]].count = 0, find_buffer(want[p]) = {}
  PROVE  References'
<1> DEFINE b == victim[p]
<1>1. /\ b \in Buffer /\ bh[p] = NoBuffer /\ want[p] \in Block
      /\ bh' = [bh EXCEPT ![p] = b] /\ UNCHANGED <<want, first>>
  BY VictimReturned
<1>2. Types /\ NoBuffer \notin Buffer
  BY BufferCacheAssumption DEF Typed
<1>3. /\ \A c \in Buffer \ {b} : buf'[c] = buf[c]
      /\ buf'[b].block = want[p] /\ buf'[b].count = 1
  BY <1>1, <1>2, VictimTaken
<1>4. buf[b].count = 0 /\ find_buffer(want[p]) = {}
  OBVIOUS
<1> HIDE DEF b
<1>5. ASSUME NEW c \in Buffer
      PROVE  buf'[c].count = Cardinality(Holders(bh', c)) + Cardinality(Holders(first', c))
  <2>0. Moved(bh, bh', p, b, c)
    BY <1>1, <1>2, BhMoved, FirstMoved
  <2>1. buf[c].count = Cardinality(Holders(bh, c)) + Cardinality(Holders(first, c))
    BY DEF References
  <2>2. Cardinality(Holders(bh, c)) \in Nat /\ Cardinality(Holders(first, c)) \in Nat
    BY <1>2, HoldersCount
  <2>3. /\ c = b => Cardinality(Holders(bh', c)) = Cardinality(Holders(bh, c)) + 1
        /\ c # b => Cardinality(Holders(bh', c)) = Cardinality(Holders(bh, c))
    BY <1>1, <1>2, <2>0 DEF Moved
  <2> QED BY <1>1, <1>3, <1>4, <2>1, <2>2, <2>3
<1>6. Holders(bh, b) = {}
  <2>1. buf[b].count = Cardinality(Holders(bh, b)) + Cardinality(Holders(first, b))
    BY <1>1 DEF References
  <2>2. Cardinality(Holders(bh, b)) \in Nat /\ Cardinality(Holders(first, b)) \in Nat
    BY <1>2, HoldersCount
  <2>3. Cardinality(Holders(bh, b)) = 0
    BY <1>4, <2>1, <2>2
  <2>4. Holders(bh, b) \subseteq Process
    BY DEF Holders
  <2>5. IsFiniteSet(Holders(bh, b))
    BY <2>4, FS_Subset, BufferCacheAssumption
  <2> QED BY <2>3, <2>5, FS_EmptySet
<1>7. HeldBufferKeepsBlock'
  <2>1. ASSUME NEW q \in Process, bh'[q] # NoBuffer PROVE buf'[bh'[q]].block = want'[q]
    <3>1. CASE q = p
      BY <1>1, <1>2, <1>3, <3>1 DEF Types
    <3>2. CASE q # p
      <4>1. bh'[q] = bh[q] /\ bh[q] \in Buffer
        BY <1>1, <1>2, <2>1, <3>2 DEF Types
      <4>2. buf[bh[q]].block = want[q] /\ bh[q] # b
        BY <1>6, <2>1, <4>1 DEF References, HeldBufferKeepsBlock, Holders
      <4> QED BY <1>1, <1>3, <4>1, <4>2
    <3> QED BY <3>1, <3>2
  <2> QED BY <2>1 DEF HeldBufferKeepsBlock
<1>8. UniqueBuffer'
  <2>1. \A c \in Buffer : buf[c].block # want[p]
    BY <1>4 DEF find_buffer
  <2> QED BY <1>3, <2>1 DEF References, UniqueBuffer
<1> QED BY <1>5, <1>7, <1>8 DEF References, Holders

\* All the steps of a process.
LEMMA ReferencesStep ==
  ASSUME Typed, References, NEW p \in Process,
         CacheAction(p) \/ (RequestAction(p) /\ UNCHANGED cacheVars)
  PROVE  References'
<1>1. CASE VictimWaited(p)
  <2>1. CASE TakeVictim(p, victim[p]) /\ buf[victim[p]].count = 0 /\ find_buffer(want[p]) = {}
    BY <1>1, <2>1, ReferencesTake
  <2>2. CASE GetblkRepeats(p, victim[p]) \/ CleanVictim(p)
    BY <1>1, <2>2, ReferencesPlain
  <2> QED BY <1>1, <2>1, <2>2 DEF VictimWaited
<1> QED
  BY <1>1, ReferencesPlain, ReferencesUse, ReferencesRequest, ReferencesFind, ReferencesLeave,
     ReferencesAhead, ReferencesDrop DEF CacheAction

\* What holds of the references, and what it rests on.
CountInv == LockInv /\ References

\* The three facts again: at the start,
LEMMA CountInvInit == Init => CountInv
<1> SUFFICES ASSUME Init PROVE References
  BY LockInvInit DEF CountInv
<1>1. ASSUME NEW b \in Buffer
      PROVE  buf[b].count = Cardinality(Holders(bh, b)) + Cardinality(Holders(first, b))
  <2>1. buf[b].count = 0
    BY DEF Init
  <2>2. Holders(bh, b) = {} /\ Holders(first, b) = {}
    BY BufferCacheAssumption DEF Init, Holders
  <2> QED BY <2>1, <2>2, FS_EmptySet
<1>2. HeldBufferKeepsBlock
  BY DEF Init, HeldBufferKeepsBlock
<1>3. UniqueBuffer
  BY DEF Init, UniqueBuffer
<1> QED BY <1>1, <1>2, <1>3 DEF References

\* in every step,
LEMMA CountInvStep == CountInv /\ [Next]_vars => CountInv'
<1> SUFFICES ASSUME CountInv, [Next]_vars PROVE References'
  BY LockInvStep DEF CountInv
<1>1. Typed /\ HaveBlocks /\ QueueHoldsRequests /\ References
  BY DEF CountInv, LockInv
<1>2. ASSUME NEW p \in Process, CacheAction(p) \/ (RequestAction(p) /\ UNCHANGED cacheVars)
      PROVE  References'
  BY <1>1, <1>2, ReferencesStep
<1>3. ASSUME NEW u \in BOOLEAN, EndRequest(u), UNCHANGED cacheVars PROVE References'
  BY <1>1, <1>3, ReferencesEndRequest
<1>4. CASE UNCHANGED vars
  BY <1>1, <1>4, ReferencesKept DEF vars, requestVars, cacheVars
<1> QED BY <1>2, <1>3, <1>4, NextActions DEF Next

\* and so always.
LEMMA CountInvAlways == Spec => []CountInv
BY CountInvInit, CountInvStep, PTL DEF Spec

\* The number of pointers to a buffer is none below 0.
LEMMA CountIsNatural ==
  ASSUME CountInv PROVE TypeOK
<1>1. Types /\ References
  BY DEF CountInv, LockInv, Typed
<1>2. ASSUME NEW b \in Buffer PROVE buf[b] \in BufferHead
  <2>1. buf[b] \in Head0
    BY <1>1 DEF Types
  <2>2. buf[b].count = Cardinality(Holders(bh, b)) + Cardinality(Holders(first, b))
    BY <1>1 DEF References
  <2>3. buf[b].count \in Nat
    BY <1>1, <2>2, HoldersCount
  <2> QED BY <2>1, <2>3 DEF Head0, BufferHead
<1>3. buf \in [Buffer -> BufferHead]
  BY <1>1, <1>2 DEF Types
<1>4. scan \in [Process -> 0..(2 * NR_BUFFERS + 1)]
  BY <1>1 DEF Types, Steps
<1> QED BY <1>1, <1>3, <1>4 DEF Types, TypeOK, Queue

\* Every variable keeps its type, and b_count is the number of pointers that
\* processes have to the buffer, through every sleep in getblk(), breada() and
\* sync_dev(): no buffer in use is free for getblk(), and brelse() never finds
\* a count of 0 ("Trying to free free buffer").
THEOREM CountCorrect == Spec => []CountIsReferences
<1>1. CountInv => CountIsReferences
  BY CountIsNatural DEF CountInv, References, CountIsReferences
<1> QED BY <1>1, CountInvAlways, PTL

\* However long a process sleeps, the buffer it got from getblk() holds the
\* block it asked for.
THEOREM HeldBuffer == Spec => []HeldBufferKeepsBlock
<1>1. CountInv => HeldBufferKeepsBlock
  BY DEF CountInv, References
<1> QED BY <1>1, CountInvAlways, PTL

\* "we know that this buffer is the only one of it's kind": getblk() brings no
\* block in twice.
THEOREM OneOfItsKind == Spec => []UniqueBuffer
<1>1. CountInv => UniqueBuffer
  BY DEF CountInv, References
<1> QED BY <1>1, CountInvAlways, PTL

-----------------------------------------------------------------------------
(* NothingLost and ReadsAreCurrent *)

\* The step changes no data, and nothing that says what they are worth.
SameData ==
  /\ \A b \in Buffer :
       /\ buf'[b].block = buf[b].block /\ buf'[b].lock = buf[b].lock
       /\ buf'[b].dirt = buf[b].dirt
       /\ buf'[b].uptodate = buf[b].uptodate /\ buf'[b].data = buf[b].data
  /\ UNCHANGED <<request, disk>>

\* A step without a change of data keeps what is known of a buffer,
LEMMA SameBufferData ==
  ASSUME SameData, NEW p \in Process, Frame(p), NEW b \in Buffer, BufferData(b)
  PROVE  BufferData(b)'
<1>1. Lockers(b)' = Lockers(b) /\ \A q \in Lockers(b) : arg'[q] = arg[q]
  BY DEF Frame, Lockers
<1>2. Requested(b)' = Requested(b)
  BY DEF SameData, Requested
<1> QED BY <1>1, <1>2 DEF SameData, BufferData, Transfer

\* and loses nothing.
LEMMA SameNothingLost ==
  ASSUME SameData, NothingLost PROVE NothingLost'
<1>1. \A k \in Block : find_buffer(k)' = find_buffer(k)
  BY DEF SameData, find_buffer
<1>2. \A b \in Buffer : Requested(b)' = Requested(b)
  BY DEF SameData, Requested
<1> QED BY <1>1, <1>2 DEF SameData, NothingLost, find_buffer

\* A change of a count is such a step.
LEMMA CountSameData ==
  ASSUME Types, NEW b \in Buffer, NEW n \in Int, buf' = [buf EXCEPT ![b].count = n],
         UNCHANGED <<request, disk>>
  PROVE  SameData
BY CountStored DEF SameData

\* What p does on the way to its buffer, and with a buffer it only reads.
LEMMA CacheSameData ==
  ASSUME Typed, NEW p \in Process, CacheAction(p),
         ~Use(p), ~(VictimWaited(p) /\ TakeVictim(p, victim[p]))
  PROVE  SameData
<1>1. Types /\ Local(p)
  BY DEF Typed
<1>2. CASE UNCHANGED <<buf, request, disk>>
  BY <1>2 DEF SameData
<1>3. CASE FindInHash(p)
  <2>1. PICK b \in Buffer : buf' = [buf EXCEPT ![b].count = buf[b].count + 1]
    BY <1>3 DEF FindInHash, find_buffer
  <2>2. PICK n \in Int : n = buf[b].count + 1
    BY <1>1 DEF Types, Head0
  <2>3. buf' = [buf EXCEPT ![b].count = n]
    BY <2>1, <2>2, Zenon
  <2> QED BY <1>1, <1>3, <2>3, CountSameData DEF FindInHash
<1>4. CASE Drop(p) \/ brelse(p) \/ (HashWaited(p) /\ buf[bh[p]].block # want[p])
  <2>1. bh[p] \in Buffer
    BY <1>1, <1>4 DEF Drop, brelse, HashWaited, At, Types, Local, Place, Making
  <2>2. PICK n \in Int : n = buf[bh[p]].count - 1
    BY <1>1, <2>1 DEF Types, Head0
  <2>3. buf' = [buf EXCEPT ![bh[p]].count = n]
    BY <1>4, <2>2, Zenon DEF Drop, brelse, HashWaited
  <2>4. UNCHANGED <<request, disk>>
    BY <1>4 DEF Drop, brelse, HashWaited
  <2> QED BY <1>1, <2>1, <2>3, <2>4, CountSameData
<1>5. CASE HashWaited(p) /\ buf[bh[p]].block = want[p]
  BY <1>2, <1>5, HashReturned
<1>6. CASE VictimWaited(p)
  BY <1>2, <1>6 DEF VictimWaited, GetblkRepeats, CleanVictim
<1>7. CASE \/ ChooseVictim(p) \/ SleepForBuffer(p)
           \/ SyncBuffer(p) \/ SyncDone(p) \/ ReadWaited(p) \/ Ahead(p)
           \/ Start(p) \/ StartSync(p) \/ Nap(p)
  BY <1>2, <1>7 DEF ChooseVictim, SleepForBuffer, SyncBuffer, SyncDone, ReadWaited,
     Ahead, Start, StartSync, Nap
<1>8. CASE SyncWait(p) \/ \E label, b : WaitOnBuffer(p, label, b)
  BY <1>2, <1>8 DEF SyncWait, WaitOnBuffer
<1> QED BY <1>3, <1>4, <1>5, <1>6, <1>7, <1>8 DEF CacheAction

\* Whoever runs, no other process is between getting a fresh block and
\* clearing it.
LEMMA OtherUsers ==
  ASSUME NEW p \in Process, cpu \in {p, NoProcess}, NEW q \in Process \ {p}, UserData(q),
         pc'[q] = pc[q], op'[q] = op[q], bh'[q] = bh[q],
         pc[q] = "use" /\ buf[bh[q]].uptodate => buf'[bh[q]].uptodate
  PROVE  UserData(q)'
BY BlockRequestsAssumption DEF UserData

\* A process does these steps on the processor, which nobody else has in the kernel.
LEMMA CacheCpu ==
  ASSUME NEW p \in Process, CacheAction(p) \/ RequestAction(p)
  PROVE  cpu \in {p, NoProcess}
BY DEF CacheAction, RequestAction, FindInHash, HashWaited, ChooseVictim, SleepForBuffer, VictimWaited,
   SyncBuffer, SyncWait, SyncDone, ReadWaited, Ahead, Drop, Use, brelse, Start, StartSync, Nap,
   WaitOnBuffer, LockBuffer, FillRequest, GiveUpAhead, NoSlotFound, SleepForRequest, LinkForRequest, LieDownForRequest, At

\* A step of p is p's own: the operations and pointers of the others stay.
LEMMA OthersStay ==
  ASSUME Types, NEW p \in Process,
         CacheAction(p) \/ (RequestAction(p) /\ UNCHANGED cacheVars),
         NEW q \in Process \ {p}
  PROVE  op'[q] = op[q]
BY DEF Types, CacheAction, RequestAction, FindInHash, HashWaited, ChooseVictim, SleepForBuffer,
   VictimWaited, SyncBuffer, SyncWait, SyncDone, ReadWaited, Ahead, Drop, Use, brelse, Start,
   StartSync, Nap, Finish, cacheVars

\* getblk() goes straight to the use of a buffer that is valid or will be
\* overwritten.
LEMMA UseReturned ==
  ASSUME Types, NEW p \in Process, NEW b, NEW u, GetblkReturns(p, b, u), pc'[p] = "use"
  PROVE  (u \/ op[p] \in {"fresh", "write"}) /\ cpu' = p
BY DEF Types, GetblkReturns, LowLevel, Goto

\* What p knows of the data it is about to use lasts through its own steps,
LEMMA OwnUse ==
  ASSUME Typed, NEW p \in Process, UserData(p), \A proc \in Process : "write" \notin Ops[proc], CacheAction(p),
         ~Use(p), ~(VictimWaited(p) /\ TakeVictim(p, victim[p]))
  PROVE  UserData(p)'
<1>1. Types /\ Local(p) /\ op[p] # "write"
  BY DEF Typed, Local
<1>2. SameData
  BY CacheSameData
<1>3. SUFFICES ASSUME pc'[p] = "use"
               PROVE  IF op'[p] = "fresh" THEN cpu' = p /\ ~buf'[bh'[p]].lock
                                          ELSE buf'[bh'[p]].uptodate
  BY DEF UserData
<1>4. CASE HashWaited(p)
  <2>1. GetblkReturns(p, bh[p], buf[bh[p]].uptodate) /\ ~buf[bh[p]].lock
        /\ op' = op /\ bh' = bh
    BY <1>1, <1>3, <1>4 DEF HashWaited, Goto, Types
  <2>2. (buf[bh[p]].uptodate \/ op[p] = "fresh") /\ cpu' = p
    BY <1>1, <1>3, <2>1, UseReturned
  <2>3. bh[p] \in Buffer
    BY <1>1, <1>4 DEF HashWaited, At, Types, Local, Place, Making
  <2> QED BY <1>2, <2>1, <2>2, <2>3 DEF SameData
<1>5. CASE ReadWaited(p)
  <2>1. pc[p] = "read_wait" /\ bh[p] \in Buffer /\ op[p] # "fresh"
    BY <1>1, <1>5 DEF ReadWaited, At, Types, Local, Place, Making
  <2>2. buf[bh[p]].uptodate /\ op' = op /\ bh' = bh
    BY <1>1, <1>3, <1>5 DEF ReadWaited, Goto, Types, cacheVars
  <2> QED BY <1>2, <2>1, <2>2 DEF SameData
<1>6. CASE Nap(p)
  <2>1. pc[p] = "use" /\ bh[p] \in Buffer /\ op[p] # "fresh" /\ op' = op /\ bh' = bh
    BY <1>1, <1>6 DEF Nap, Types, Local, Place, Making, cacheVars
  <2> QED BY <1>2, <2>1 DEF SameData, UserData
<1>7. CASE VictimWaited(p)
  BY <1>1, <1>3, <1>7 DEF VictimWaited, GetblkRepeats, CleanVictim, Goto, Types
<1>8. CASE \/ FindInHash(p) \/ ChooseVictim(p) \/ SleepForBuffer(p)
           \/ SyncWait(p) \/ SyncDone(p) \/ Ahead(p) \/ Drop(p) \/ brelse(p)
           \/ Start(p) \/ StartSync(p)
  BY <1>1, <1>3, <1>8 DEF FindInHash, ChooseVictim, SleepForBuffer, SyncWait, WaitOnBuffer,
     SyncDone, Ahead, Drop, brelse, Start, StartSync, Finish, Goto, At, Types
<1>9. CASE SyncBuffer(p)
  BY <1>1, <1>3, <1>9 DEF SyncBuffer, LowLevel, Goto, Types
<1>10. CASE \E label \in {"hash_wait", "free_wait", "read_wait", "brelse", "lock"} :
              \E b : WaitOnBuffer(p, label, b)
  BY <1>3, <1>10 DEF WaitOnBuffer, At
<1> QED BY <1>4, <1>5, <1>6, <1>7, <1>8, <1>9, <1>10 DEF CacheAction

\* and so does all that is known of data.
LEMMA DataCache ==
  ASSUME Typed, HaveBlocks, DataInv, NEW p \in Process, \A proc \in Process : "write" \notin Ops[proc], CacheAction(p),
         ~Use(p), ~(VictimWaited(p) /\ TakeVictim(p, victim[p]))
  PROVE  DataInv'
<1>1. Types /\ SameData /\ Frame(p) /\ cpu \in {p, NoProcess}
  BY CacheSameData, CacheFrame, CacheCpu DEF Typed
<1>2. \A b \in Buffer : BufferData(b)'
  BY <1>1, SameBufferData DEF DataInv
<1>3. NothingLost'
  BY <1>1, SameNothingLost DEF DataInv
<1>4. ASSUME NEW q \in Process PROVE UserData(q)'
  <2>1. CASE q = p
    BY <2>1, OwnUse DEF DataInv
  <2>2. CASE q # p
    <3>1. pc'[q] = pc[q] /\ bh'[q] = bh[q] /\ op'[q] = op[q]
      BY <1>1, <2>2, OthersStay DEF Frame
    <3>2. pc[q] = "use" => bh[q] \in Buffer
      BY DEF Typed, Types, Local, Place, Making
    <3> QED BY <1>1, <2>2, <3>1, <3>2, OtherUsers DEF DataInv, SameData
  <2> QED BY <2>1, <2>2
<1> QED BY <1>2, <1>3, <1>4 DEF DataInv

\* A buffer that is written is dirty, and its block has no other copy that
\* counts.
LEMMA DataUse ==
  ASSUME LockInv, UniqueBuffer, DataInv, NEW p \in Process, \A proc \in Process : "write" \notin Ops[proc], Use(p)
  PROVE  DataInv'
<1> DEFINE b == bh[p]
           k == buf[b].block
<1>1. Types /\ Local(p) /\ Typed /\ HaveBlocks
  BY DEF LockInv, Typed
<1>2. /\ pc[p] = "use" /\ b \in Buffer /\ k \in Block /\ cpu \in {p, NoProcess}
      /\ pc' = [pc EXCEPT ![p] = "brelse"] /\ UNCHANGED <<arg, op, bh>>
  BY <1>1 DEF Use, At, Goto, Types, cacheVars, Local, Place, Making, HaveBlocks, HasBlock
<1>3. Frame(p)
  BY <1>1, UseFrame
<1>4. CASE UNCHANGED <<buf, disk, request>>
  <2>1. SameData
    BY <1>4 DEF SameData
  <2>2. \A q \in Process : UserData(q)'
    BY <1>1, <1>2, <1>4, OtherUsers DEF DataInv, UserData, Types
  <2> QED BY <1>3, <2>1, <2>2, SameBufferData, SameNothingLost DEF DataInv
<1>5. CASE Written(b, buf[b].uptodate \/ op[p] = "fresh")
  <2>1. (buf[b].uptodate \/ op[p] = "fresh") = TRUE
    BY <1>2 DEF DataInv, UserData
  <2>2. PICK u \in BOOLEAN : u = TRUE /\ Written(b, u)
    BY <1>5, <2>1
  <2>3. buf' = [buf EXCEPT ![b].data = "current", ![b].dirt = TRUE, ![b].uptodate = u]
    BY <2>2, Zenon DEF Written
  <2>4. disk' = [disk EXCEPT ![k] = "stale"]
    BY <2>2 DEF Written
  <2>5. \A s \in Slot : /\ request'[s] # NoRequest <=> request[s] # NoRequest
                        /\ request[s] # NoRequest =>
                             request'[s].bh = request[s].bh /\ request'[s].cmd = request[s].cmd
    BY <1>1, <1>2, <2>2, WrittenTyped
  <2>6. \A s \in Slot : s \notin Requested(b) => request'[s] = request[s]
    BY <2>2 DEF Written
  <2> HIDE DEF b, k
  <2>7. /\ \A c \in Buffer \ {b} : buf'[c] = buf[c]
        /\ buf'[b].block = buf[b].block /\ buf'[b].lock = buf[b].lock /\ buf'[b].dirt = TRUE
        /\ buf'[b].uptodate = TRUE /\ buf'[b].data = "current"
    BY <1>1, <1>2, <2>2, <2>3, DataStored
  <2>8. \A c \in Buffer : Lockers(c)' = Lockers(c) /\ Requested(c)' = Requested(c)
    BY <1>3 DEF Frame, Lockers, Requested
  <2>9. ~Transfer(b, "READ")
    <3>1. CASE op[p] = "fresh"
      <4>1. ~buf[b].lock
        BY <1>2, <3>1 DEF DataInv, UserData, b
      <4>2. Lockers(b) = {} /\ Requested(b) = {}
        BY <1>2, <4>1 DEF LockInv, OneOwner
      <4> QED BY <4>2 DEF Transfer
    <3>2. CASE op[p] # "fresh"
      BY <1>2, <2>1, <3>2 DEF DataInv, BufferData
    <3> QED BY <3>1, <3>2
  <2>10. \A c \in Buffer, cmd \in {"READ", "WRITE"} : Transfer(c, cmd)' <=> Transfer(c, cmd)
    BY <1>2, <2>5, <2>8 DEF Transfer, Requested, Lockers
  <2>11. ASSUME NEW c \in Buffer PROVE BufferData(c)'
    <3>1. CASE c = b
      BY <2>7, <2>9, <2>10, <3>1 DEF BufferData
    <3>2. CASE c # b
      <4>1. \A s \in Requested(c) : request'[s] = request[s]
        BY <2>6, <3>2 DEF Requested
      <4> QED BY <1>2, <2>7, <2>8, <2>10, <3>2, <4>1 DEF BufferData, DataInv
    <3> QED BY <3>1, <3>2
  <2>12. ASSUME NEW q \in Process PROVE UserData(q)'
    <3>1. CASE q = p
      BY <1>1, <1>2, <3>1 DEF UserData, Types
    <3>2. CASE q # p
      <4>1. pc'[q] = pc[q] /\ bh'[q] = bh[q] /\ op'[q] = op[q]
        BY <1>1, <1>2, <3>2 DEF Types
      <4>2. pc[q] = "use" => bh[q] \in Buffer
        BY <1>1 DEF Typed, Types, Local, Place, Making
      <4> QED BY <1>2, <2>7, <3>2, <4>1, <4>2, OtherUsers DEF DataInv
    <3> QED BY <3>1, <3>2
  <2>13. ASSUME NEW m \in Block
         PROVE  \/ disk'[m] = "current"
                \/ \E c \in Buffer : /\ buf'[c].block = m /\ buf'[c].data = "current"
                                     /\ \/ buf'[c].dirt
                                        \/ \E s \in Requested(c)' : request'[s].cmd = "WRITE"
    <3>1. CASE m = k
      BY <1>2, <2>7, <3>1 DEF k
    <3>2. CASE m # k
      <4>1. disk'[m] = disk[m]
        BY <1>1, <2>4, <3>2 DEF Types
      <4>2. CASE disk[m] = "current"
        BY <4>1, <4>2
      <4>3. CASE disk[m] # "current"
        <5>1. PICK c \in Buffer : /\ buf[c].block = m /\ buf[c].data = "current"
                                  /\ buf[c].dirt \/ \E s \in Requested(c) : request[s].cmd = "WRITE"
          BY <4>3 DEF DataInv, NothingLost, find_buffer
        <5>2. c # b
          BY <3>2, <5>1 DEF k
        <5>3. (\E s \in Requested(c) : request[s].cmd = "WRITE") =>
                \E s \in Requested(c)' : request'[s].cmd = "WRITE"
          BY <2>5, <2>8 DEF Requested
        <5> QED BY <2>7, <5>1, <5>2, <5>3
      <4> QED BY <4>2, <4>3
    <3> QED BY <3>1, <3>2
  <2>14. NothingLost'
    BY <2>13 DEF NothingLost, find_buffer
  <2> QED BY <2>11, <2>12, <2>14 DEF DataInv
<1> QED BY <1>4, <1>5 DEF Use

\* A buffer that is taken for another block was clean: its old block is on the
\* device, and so is the new one.
LEMMA DataTake ==
  ASSUME LockInv, References, DataInv, NEW p \in Process, \A proc \in Process : "write" \notin Ops[proc],
         VictimWaited(p), TakeVictim(p, victim[p]),
         buf[victim[p]].count = 0, ~buf[victim[p]].dirt, find_buffer(want[p]) = {}
  PROVE  DataInv'
<1> DEFINE b == victim[p]
           k == want[p]
<1>1. Types /\ Local(p) /\ Typed /\ HaveBlocks
  BY DEF LockInv, Typed
<1>2. /\ b \in Buffer /\ bh[p] = NoBuffer /\ k \in Block
      /\ op[p] \in {"read", "modify", "fresh", "write", "breada"}
      /\ bh' = [bh EXCEPT ![p] = b] /\ UNCHANGED <<request, disk, op>>
  BY <1>1, VictimReturned
<1>3. /\ \A c \in Buffer \ {b} : buf'[c] = buf[c]
      /\ buf'[b].block = k /\ buf'[b].lock = buf[b].lock /\ buf'[b].dirt = FALSE
      /\ buf'[b].uptodate = FALSE /\ buf'[b].data = "stale"
  BY <1>1, <1>2, VictimTaken
<1>4. Frame(p) /\ cpu \in {p, NoProcess} /\ ~buf[b].lock
  BY <1>1, VictimWaitedFrame, CacheCpu DEF VictimWaited, CacheAction
<1>5. ~buf[b].dirt /\ find_buffer(k) = {} /\ GetblkReturns(p, b, FALSE)
  BY DEF TakeVictim
<1>6. \A q \in Process : bh[q] # b
  <2>1. buf[b].count = 0
    OBVIOUS
  <2>2. buf[b].count = Cardinality(Holders(bh, b)) + Cardinality(Holders(first, b))
    BY <1>2 DEF References
  <2>3. Cardinality(Holders(bh, b)) \in Nat /\ Cardinality(Holders(first, b)) \in Nat
    BY <1>1, HoldersCount
  <2>4. Cardinality(Holders(bh, b)) = 0
    BY <2>1, <2>2, <2>3
  <2>5. Holders(bh, b) \subseteq Process
    BY DEF Holders
  <2>6. IsFiniteSet(Holders(bh, b))
    BY <2>5, FS_Subset, BufferCacheAssumption
  <2>7. Holders(bh, b) = {}
    BY <2>4, <2>6, FS_EmptySet
  <2> QED BY <2>7 DEF Holders
<1> HIDE DEF b, k
<1>7. Lockers(b) = {} /\ Requested(b) = {}
  BY <1>2, <1>4 DEF LockInv, OneOwner
<1>8. \A c \in Buffer : /\ Lockers(c)' = Lockers(c) /\ Requested(c)' = Requested(c)
                        /\ \A q \in Lockers(c) : arg'[q] = arg[q]
  BY <1>2, <1>4 DEF Frame, Lockers, Requested
<1>9. ASSUME NEW c \in Buffer PROVE BufferData(c)'
  <2>1. CASE c = b
    BY <1>3, <1>7, <1>8, <2>1 DEF BufferData, Transfer
  <2>2. CASE c # b
    BY <1>2, <1>3, <1>8, <2>2 DEF BufferData, Transfer, DataInv
  <2> QED BY <2>1, <2>2
<1>10. ASSUME NEW q \in Process PROVE UserData(q)'
  <2>1. CASE q = p
    <3>1. op[p] # "write" /\ op'[p] = op[p] /\ bh'[p] = b
      BY <1>1, <1>2 DEF Types, Local
    <3>2. pc'[p] = "use" => op[p] = "fresh" /\ cpu' = p
      BY <1>1, <1>5, <3>1, UseReturned
    <3> QED BY <1>3, <1>4, <2>1, <3>1, <3>2 DEF UserData
  <2>2. CASE q # p
    <3>1. pc'[q] = pc[q] /\ bh'[q] = bh[q] /\ op'[q] = op[q]
      BY <1>2, <1>4, <2>2 DEF Frame
    <3>2. pc[q] = "use" => bh[q] \in Buffer
      BY <1>1 DEF Typed, Types, Local, Place, Making
    <3> QED BY <1>3, <1>4, <1>6, <2>2, <3>1, <3>2, OtherUsers DEF DataInv
  <2> QED BY <2>1, <2>2
<1>11. ASSUME NEW m \in Block
       PROVE  \/ disk'[m] = "current"
              \/ \E c \in Buffer : /\ buf'[c].block = m /\ buf'[c].data = "current"
                                   /\ \/ buf'[c].dirt
                                      \/ \E s \in Requested(c)' : request'[s].cmd = "WRITE"
  <2>1. CASE disk[m] = "current"
    BY <1>2, <2>1
  <2>2. CASE disk[m] # "current"
    <3>1. PICK c \in Buffer : /\ buf[c].block = m /\ buf[c].data = "current"
                              /\ buf[c].dirt \/ \E s \in Requested(c) : request[s].cmd = "WRITE"
      BY <2>2 DEF DataInv, NothingLost, find_buffer
    <3>2. c # b
      BY <1>5, <1>7, <3>1
    <3>3. (\E s \in Requested(c) : request[s].cmd = "WRITE") =>
            \E s \in Requested(c)' : request'[s].cmd = "WRITE"
      BY <1>2, <1>8
    <3> QED BY <1>3, <3>1, <3>2, <3>3
  <2> QED BY <2>1, <2>2
<1>12. NothingLost'
  BY <1>11 DEF NothingLost, find_buffer
<1> QED BY <1>9, <1>10, <1>12 DEF DataInv

\* A buffer that the step leaves alone, and its requests.
LEMMA BufferDataKept ==
  ASSUME NEW b \in Buffer, BufferData(b),
         buf'[b].dirt = buf[b].dirt, buf'[b].uptodate = buf[b].uptodate,
         buf'[b].data = buf[b].data,
         Lockers(b)' = Lockers(b), \A q \in Lockers(b) : arg'[q] = arg[q],
         Requested(b)' = Requested(b), \A s \in Requested(b) : request'[s] = request[s]
  PROVE  BufferData(b)'
BY DEF BufferData, Transfer

\* A dirty buffer may become one that is about to be written.
LEMMA NothingLostKept ==
  ASSUME NothingLost, UNCHANGED disk,
         \A b \in Buffer : /\ buf'[b].block = buf[b].block /\ buf'[b].data = buf[b].data
                           /\ buf[b].dirt => \/ buf'[b].dirt
                                             \/ \E s \in Requested(b)' : request'[s].cmd = "WRITE"
                           /\ \A s \in Requested(b) : /\ s \in Requested(b)'
                                                      /\ request'[s] = request[s]
  PROVE  NothingLost'
<1>1. ASSUME NEW m \in Block
      PROVE  \/ disk'[m] = "current"
             \/ \E c \in Buffer : /\ buf'[c].block = m /\ buf'[c].data = "current"
                                  /\ \/ buf'[c].dirt
                                     \/ \E s \in Requested(c)' : request'[s].cmd = "WRITE"
  <2>1. CASE disk[m] # "current"
    <3>1. PICK c \in Buffer : /\ buf[c].block = m /\ buf[c].data = "current"
                              /\ buf[c].dirt \/ \E s \in Requested(c) : request[s].cmd = "WRITE"
      BY <2>1 DEF NothingLost, find_buffer
    <3>2. (\E s \in Requested(c) : request[s].cmd = "WRITE") =>
            \E s \in Requested(c)' : request'[s].cmd = "WRITE"
      OBVIOUS
    <3> QED BY <3>1, <3>2
  <2> QED BY <2>1
<1> QED BY <1>1 DEF NothingLost, find_buffer

\* make_request() validates no buffer and makes no process use one.
LEMMA RequestUsers ==
  ASSUME LockInv, DataInv, NEW p \in Process, RequestAction(p), UNCHANGED cacheVars,
         NEW q \in Process
  PROVE  UserData(q)'
<1>1. Types /\ Typed
  BY DEF LockInv, Typed
<1>2. RequestFrame(p, arg[p].bh) /\ cpu \in {p, NoProcess} /\ pc[p] \in Making
  BY <1>1, RequestActionFrame, CacheCpu DEF RequestAction, LockBuffer, FillRequest, GiveUpAhead,
     NoSlotFound, SleepForRequest, LinkForRequest, LieDownForRequest, At, Making
<1>3. CASE q = p
  <2>1. arg[p].ret # "use"
    BY <1>1, <1>2, MakingHasArguments
  <2>2. pc'[p] # "use"
    BY <1>1, <2>1 DEF RequestAction, LockBuffer, FillRequest, GiveUpAhead, NoSlotFound,
       SleepForRequest, LinkForRequest, LieDownForRequest, Return, Goto, Types
  <2> QED BY <1>3, <2>2 DEF UserData
<1>4. CASE q # p
  <2>1. pc'[q] = pc[q] /\ bh'[q] = bh[q] /\ op'[q] = op[q]
    BY <1>2, <1>4 DEF RequestFrame, cacheVars
  <2>2. pc[q] = "use" => bh[q] \in Buffer
    BY <1>1 DEF Typed, Types, Local, Place, Making
  <2> QED BY <1>2, <1>4, <2>1, <2>2, OtherUsers DEF DataInv, RequestFrame
<1> QED BY <1>3, <1>4

\* A transfer begins only for a reader of an invalid buffer, or for a dirty one.
LEMMA DataLockBuffer ==
  ASSUME LockInv, DataInv, NEW p \in Process, LockBuffer(p), UNCHANGED cacheVars
  PROVE  DataInv'
<1>0. PICK b \in Buffer : b = arg[p].bh
  BY MakingHasArguments DEF LockBuffer, At, Making, LockInv
<1>1. Types /\ Typed /\ pc[p] = "lock" /\ ~buf[b].lock /\ UNCHANGED <<request, disk>>
  BY <1>0 DEF LockBuffer, At, LockInv, Typed
<1>2. /\ b \in Buffer /\ arg[p].ret \in {"sync", "read_wait", "ahead", "drop"}
      /\ arg[p].cmd \in {"READ", "WRITE"}
  BY <1>1, MakingHasArguments DEF Making
<1>3. \A c \in Buffer : Requested(c)' = Requested(c)
  BY <1>1 DEF Requested
<1>4. \A q \in Process : UserData(q)'
  BY RequestUsers DEF RequestAction
<1>5. CASE Return(p) /\ UNCHANGED buf
  <2>1. pc' = [pc EXCEPT ![p] = arg[p].ret] /\ arg' = [arg EXCEPT ![p] = NoRequest]
    BY <1>5 DEF Return, Goto
  <2>2. \A c \in Buffer : Lockers(c)' = Lockers(c) /\ \A q \in Lockers(c) : arg'[q] = arg[q]
    BY <1>1, <1>2, <2>1 DEF Lockers, Types
  <2>3. \A c \in Buffer : BufferData(c)'
    BY <1>1, <1>3, <1>5, <2>2, BufferDataKept DEF DataInv
  <2>4. NothingLost'
    BY <1>1, <1>3, <1>5, NothingLostKept DEF DataInv
  <2> QED BY <1>4, <2>3, <2>4 DEF DataInv
<1>6. CASE ~NothingToDo(arg[p]) /\ buf' = [buf EXCEPT ![b].lock = TRUE]
           /\ Goto(p, "find_request") /\ UNCHANGED arg
  <2>1. pc' = [pc EXCEPT ![p] = "find_request"] /\ arg' = arg
    BY <1>6 DEF Goto
  <2>2. /\ arg[p].cmd = "WRITE" => buf[b].dirt
        /\ arg[p].cmd = "READ" => ~buf[b].uptodate
    BY <1>0, <1>6 DEF NothingToDo
  <2>3. Lockers(b) = {} /\ Requested(b) = {}
    BY <1>1, <1>2 DEF LockInv, OneOwner
  <2>4. \A c \in Buffer : c # b => Lockers(c)' = Lockers(c)
    BY <1>0, <1>1, <2>1 DEF Lockers, Types
  <2>5. Lockers(b)' = {p}
    BY <1>0, <1>1, <2>1, <2>3 DEF Lockers, Types
  <2>6. arg'[p].cmd = arg[p].cmd
    BY <2>1
  <2>7. /\ \A c \in Buffer \ {b} : buf'[c] = buf[c]
        /\ buf'[b].block = buf[b].block /\ buf'[b].dirt = buf[b].dirt
        /\ buf'[b].uptodate = buf[b].uptodate /\ buf'[b].data = buf[b].data
    BY <1>1, <1>2, <1>6, LockStored
  <2>8. ASSUME NEW c \in Buffer PROVE BufferData(c)'
    <3>1. CASE c = b
      BY <1>2, <1>3, <2>2, <2>3, <2>5, <2>6, <2>7, <3>1 DEF BufferData, Transfer, DataInv
    <3>2. CASE c # b
      BY <1>1, <1>3, <2>1, <2>4, <2>7, <3>2, BufferDataKept DEF DataInv
    <3> QED BY <3>1, <3>2
  <2>9. NothingLost'
    BY <1>1, <1>3, <2>7, NothingLostKept DEF DataInv
  <2> QED BY <1>4, <2>8, <2>9 DEF DataInv
<1> QED BY <1>0, <1>5, <1>6 DEF LockBuffer

\* The request has the data of its buffer: b_dirt is not needed any more.
LEMMA DataFillRequest ==
  ASSUME LockInv, DataInv, NEW p \in Process, FillRequest(p), UNCHANGED cacheVars
  PROVE  DataInv'
<1>0. PICK b \in Buffer : b = arg[p].bh
  BY MakingHasArguments DEF FillRequest, At, Making, LockInv
<1> DEFINE r == [cmd |-> arg[p].cmd, bh |-> b, sent |-> buf[b].data]
<1>1. Types /\ Typed /\ pc[p] = "find_request" /\ UNCHANGED disk
  BY DEF FillRequest, At, LockInv, Typed
<1>2. b \in Buffer /\ arg[p].ret \in {"sync", "read_wait", "ahead", "drop"}
      /\ arg[p].cmd \in {"READ", "WRITE"}
  BY <1>1, MakingHasArguments DEF Making
<1>3. PICK s \in Slot : request[s] = NoRequest /\ request' = [request EXCEPT ![s] = r]
  BY <1>0 DEF FillRequest, FreeSlots
<1>4. r \in Request /\ r.bh = b /\ r.cmd = arg[p].cmd /\ r.sent = buf[b].data
  BY <1>1, <1>2 DEF Types, Head0, Request
<1>5. /\ pc' = [pc EXCEPT ![p] = arg[p].ret] /\ arg' = [arg EXCEPT ![p] = NoRequest]
      /\ buf' = [buf EXCEPT ![b].dirt = FALSE]
  BY <1>0 DEF FillRequest, Return, Goto
<1>6. p \in Lockers(b)
  BY <1>0, <1>1 DEF Lockers
<1>7. Lockers(b) = {p} /\ Requested(b) = {}
  BY <1>2, <1>6 DEF LockInv, OneOwner
<1>8. \A c \in Buffer : c # b => Lockers(c)' = Lockers(c) /\ \A q \in Lockers(c) : arg'[q] = arg[q]
  BY <1>0, <1>1, <1>2, <1>5 DEF Lockers, Types
<1>9. Lockers(b)' = {}
  BY <1>1, <1>2, <1>5, <1>7 DEF Lockers, Types
<1>10. \A q \in Process : UserData(q)'
  BY RequestUsers DEF RequestAction
<1> HIDE DEF r
<1>11. r # NoRequest
  BY <1>4, NoRequestAssumption
<1>12. /\ request'[s] = r /\ \A t \in Slot : t # s => request'[t] = request[t]
  BY <1>1, <1>3 DEF Types
<1>13. Requested(b)' = {s}
  BY <1>3, <1>4, <1>7, <1>11, <1>12 DEF Requested
<1>14. \A c \in Buffer : c # b => /\ Requested(c)' = Requested(c)
                                  /\ \A t \in Requested(c) : request'[t] = request[t]
  BY <1>3, <1>4, <1>12 DEF Requested
<1>15. /\ \A c \in Buffer \ {b} : buf'[c] = buf[c]
       /\ buf'[b].block = buf[b].block /\ buf'[b].dirt = FALSE
       /\ buf'[b].uptodate = buf[b].uptodate /\ buf'[b].data = buf[b].data
  BY <1>1, <1>2, <1>5, DirtCleared
<1>16. /\ arg[p].cmd = "READ" => ~buf[b].uptodate /\ ~buf[b].dirt
       /\ arg[p].cmd = "WRITE" => buf[b].uptodate /\ buf[b].dirt /\ buf[b].data = "current"
       /\ buf[b].uptodate => buf[b].data = "current"
  BY <1>2, <1>6 DEF DataInv, BufferData, Transfer
<1>17. ASSUME NEW c \in Buffer PROVE BufferData(c)'
  <2>1. CASE c = b
    BY <1>4, <1>9, <1>12, <1>13, <1>15, <1>16, <2>1 DEF BufferData, Transfer
  <2>2. CASE c # b
    BY <1>8, <1>14, <1>15, <2>2, BufferDataKept DEF DataInv
  <2> QED BY <2>1, <2>2
<1>18. NothingLost'
  <2>1. buf[b].dirt => \E t \in Requested(b)' : request'[t].cmd = "WRITE"
    BY <1>2, <1>4, <1>12, <1>13, <1>16
  <2>2. ASSUME NEW c \in Buffer
        PROVE  /\ buf'[c].block = buf[c].block /\ buf'[c].data = buf[c].data
               /\ buf[c].dirt => \/ buf'[c].dirt
                                 \/ \E t \in Requested(c)' : request'[t].cmd = "WRITE"
               /\ \A t \in Requested(c) : t \in Requested(c)' /\ request'[t] = request[t]
    BY <1>7, <1>14, <1>15, <2>1
  <2> QED BY <1>1, <2>2, NothingLostKept DEF DataInv
<1> QED BY <1>10, <1>17, <1>18 DEF DataInv

\* Giving up a lock without a request, or sleeping for a slot, changes no data.
LEMMA DataGiveUp ==
  ASSUME LockInv, DataInv, NEW p \in Process,
         GiveUpAhead(p) \/ NoSlotFound(p) \/ SleepForRequest(p), UNCHANGED cacheVars
  PROVE  DataInv'
<1>0. PICK b \in Buffer : b = arg[p].bh
  BY MakingHasArguments DEF GiveUpAhead, NoSlotFound, SleepForRequest, LinkForRequest, LieDownForRequest, At, Making, LockInv
<1>1. Types /\ Typed /\ pc[p] \in {"find_request", "sleep_request", "linked_request"} /\ UNCHANGED <<request, disk>>
  BY DEF GiveUpAhead, NoSlotFound, SleepForRequest, LinkForRequest, LieDownForRequest, At, LockInv, Typed
<1>2. b \in Buffer /\ arg[p].ret \in {"sync", "read_wait", "ahead", "drop"}
  BY <1>1, MakingHasArguments DEF Making
<1>3. \A c \in Buffer : Requested(c)' = Requested(c)
  BY <1>1 DEF Requested
<1>4. \A q \in Process : UserData(q)'
  BY RequestUsers DEF RequestAction
<1>5. CASE GiveUpAhead(p)
  <2>1. /\ pc' = [pc EXCEPT ![p] = arg[p].ret] /\ arg' = [arg EXCEPT ![p] = NoRequest]
        /\ buf' = [buf EXCEPT ![b].lock = FALSE]
    BY <1>0, <1>5 DEF GiveUpAhead, Return, Goto
  <2>2. p \in Lockers(b)
    BY <1>0, <1>1 DEF Lockers
  <2>3. Lockers(b) = {p} /\ Requested(b) = {}
    BY <1>2, <2>2 DEF LockInv, OneOwner
  <2>4. \A c \in Buffer : c # b => Lockers(c)' = Lockers(c) /\ \A q \in Lockers(c) : arg'[q] = arg[q]
    BY <1>0, <1>1, <1>2, <2>1 DEF Lockers, Types
  <2>5. Lockers(b)' = {}
    BY <1>1, <1>2, <2>1, <2>3 DEF Lockers, Types
  <2>6. /\ \A c \in Buffer \ {b} : buf'[c] = buf[c]
        /\ buf'[b].block = buf[b].block /\ buf'[b].dirt = buf[b].dirt
        /\ buf'[b].uptodate = buf[b].uptodate /\ buf'[b].data = buf[b].data
    BY <1>1, <1>2, <2>1, LockStored
  <2>7. ASSUME NEW c \in Buffer PROVE BufferData(c)'
    <3>1. CASE c = b
      BY <1>2, <1>3, <2>3, <2>5, <2>6, <3>1 DEF BufferData, Transfer, DataInv
    <3>2. CASE c # b
      BY <1>1, <1>3, <2>4, <2>6, <3>2, BufferDataKept DEF DataInv
    <3> QED BY <3>1, <3>2
  <2>8. NothingLost'
    BY <1>1, <1>3, <2>6, NothingLostKept DEF DataInv
  <2> QED BY <1>4, <2>7, <2>8 DEF DataInv
<1>6. CASE NoSlotFound(p) \/ SleepForRequest(p)
  <2>1. /\ \E label \in {"find_request", "sleep_request", "linked_request"} :
             pc' = [pc EXCEPT ![p] = label]
        /\ arg' = arg /\ buf' = buf
    BY <1>6 DEF NoSlotFound, SleepForRequest, LinkForRequest, LieDownForRequest, Goto
  <2>2. \A c \in Buffer : Lockers(c)' = Lockers(c)
    BY <1>1, <2>1 DEF Lockers, Types
  <2>3. \A c \in Buffer : BufferData(c)'
    BY <1>1, <1>3, <2>1, <2>2, BufferDataKept DEF DataInv
  <2>4. NothingLost'
    BY <1>1, <1>3, <2>1, NothingLostKept DEF DataInv
  <2> QED BY <1>4, <2>3, <2>4 DEF DataInv
<1> QED BY <1>5, <1>6

\* A read ends with what is on the device, which is current as no buffer has
\* anything newer; a write leaves its block current, or its buffer dirty.
LEMMA DataEndRequest ==
  ASSUME LockInv, UniqueBuffer, DataInv, "WRITE" \notin MayFail,
         NEW u \in BOOLEAN, EndRequest(u), UNCHANGED cacheVars
  PROVE  DataInv'
<1>1. PICK s, b, k : s = Head(queue) /\ b = request[s].bh /\ k = buf[b].block
  OBVIOUS
<1>2. Types /\ Typed /\ HaveBlocks /\ QueueHoldsRequests
  BY DEF LockInv, Typed
<1>3. /\ s \in Slot /\ b \in Buffer /\ k \in Block /\ request[s] # NoRequest
      /\ request[s].cmd \in {"READ", "WRITE"}
  BY <1>1, <1>2, FirstRequest DEF EndRequest
<1>4. PICK d, e \in Data : Ended(u, s, b, k, d, e)
  BY <1>1, <1>2, RequestEnded
<1>5. /\ \A c \in Buffer \ {b} : buf'[c] = buf[c]
      /\ buf'[b].block = k /\ buf'[b].lock = FALSE /\ buf'[b].dirt = buf[b].dirt
      /\ buf'[b].uptodate = u /\ buf'[b].data = d
  <2>1. buf' = [buf EXCEPT ![b].uptodate = u, ![b].lock = FALSE, ![b].data = d]
    BY <1>4 DEF Ended
  <2>2. /\ \A c \in Buffer \ {b} : buf'[c] = buf[c]
        /\ buf'[b].block = buf[b].block
        /\ buf'[b].lock = FALSE /\ buf'[b].dirt = buf[b].dirt
        /\ buf'[b].uptodate = u /\ buf'[b].data = d
    <3>1. d \in Data
      BY <1>4
    <3> QED BY <1>2, <1>3, <2>1, <3>1, TransferEnded, Zenon
  <2> QED BY <1>1, <2>2
<1>6. /\ request' = [request EXCEPT ![s] = NoRequest]
      /\ disk' = [disk EXCEPT ![k] = e]
      /\ UNCHANGED <<pc, arg, cpu, op, bh>>
  BY <1>4 DEF Ended, EndRequest, cacheVars
<1>7. /\ disk'[k] = e /\ \A m \in Block : m # k => disk'[m] = disk[m]
      /\ \A t \in Slot : t # s => request'[t] = request[t]
  BY <1>2, <1>3, <1>6 DEF Types
<1>8. s \in Requested(b) /\ buf[b].lock /\ Requested(b) = {s} /\ Lockers(b) = {}
  BY <1>1, <1>3 DEF Requested, LockInv, OneOwner
<1>9. Requested(b)' = {} /\ \A c \in Buffer : c # b => Requested(c)' = Requested(c)
  BY <1>1, <1>2, <1>3, <1>6, <1>8 DEF Requested, Types
<1>10. \A c \in Buffer : Lockers(c)' = Lockers(c)
  BY <1>6 DEF Lockers
<1>11. /\ request[s].cmd = "READ" => ~buf[b].uptodate /\ ~buf[b].dirt
       /\ request[s].cmd = "WRITE" => buf[b].uptodate /\ buf[b].data = "current"
       /\ request[s].cmd = "WRITE" /\ request[s].sent # "current" => buf[b].dirt
  BY <1>3, <1>8 DEF DataInv, BufferData, Transfer
<1>12. request[s].cmd = "READ" => disk[k] = "current"
  <2>1. SUFFICES ASSUME request[s].cmd = "READ", disk[k] # "current" PROVE FALSE
    OBVIOUS
  <2>2. PICK c \in Buffer : /\ buf[c].block = k
                            /\ buf[c].dirt \/ \E t \in Requested(c) : request[t].cmd = "WRITE"
    BY <1>3, <2>1 DEF DataInv, NothingLost, find_buffer
  <2>3. c = b
    BY <1>1, <1>3, <2>2, BlockRequestsAssumption DEF UniqueBuffer
  <2> QED BY <1>8, <1>11, <2>1, <2>2, <2>3
<1>13. /\ request[s].cmd = "WRITE" => u /\ d = "current" /\ (e = "current" \/ buf[b].dirt)
       /\ request[s].cmd = "READ" => e = "current" /\ (u => d = "current")
  <2>1. request[s].cmd = "WRITE" => u
    BY <1>1 DEF EndRequest
  <2> QED BY <1>4, <1>11, <1>12, <2>1 DEF Ended
<1>14. ASSUME NEW c \in Buffer PROVE BufferData(c)'
  <2>1. CASE c = b
    BY <1>3, <1>5, <1>8, <1>9, <1>10, <1>11, <1>13, <2>1 DEF BufferData, Transfer
  <2>2. CASE c # b
    <3>1. \A t \in Requested(c) : request'[t] = request[t]
      BY <1>1, <1>7, <2>2 DEF Requested
    <3> QED BY <1>5, <1>6, <1>9, <1>10, <2>2, <3>1, BufferDataKept DEF DataInv
  <2> QED BY <2>1, <2>2
<1>15. ASSUME NEW q \in Process PROVE UserData(q)'
  <2>1. pc[q] = "use" => bh[q] \in Buffer
    BY <1>2 DEF Typed, Types, Local, Place, Making
  <2>2. UserData(q)
    BY DEF DataInv
  <2>3. CASE bh[q] = b
    <3>1. pc[q] = "use" => op[q] # "fresh" /\ request[s].cmd = "WRITE"
      BY <1>3, <1>8, <1>11, <2>2, <2>3 DEF UserData
    <3> QED BY <1>5, <1>6, <1>13, <2>3, <3>1 DEF UserData
  <2>4. CASE bh[q] # b
    BY <1>5, <1>6, <2>1, <2>2, <2>4 DEF UserData
  <2> QED BY <2>3, <2>4
<1>16. ASSUME NEW m \in Block
       PROVE  \/ disk'[m] = "current"
              \/ \E c \in Buffer : /\ buf'[c].block = m /\ buf'[c].data = "current"
                                   /\ \/ buf'[c].dirt
                                      \/ \E t \in Requested(c)' : request'[t].cmd = "WRITE"
  <2>1. CASE m = k
    BY <1>3, <1>5, <1>7, <1>13, <2>1
  <2>2. CASE m # k /\ disk[m] = "current"
    BY <1>7, <2>2
  <2>3. CASE m # k /\ disk[m] # "current"
    <3>1. PICK c \in Buffer : /\ buf[c].block = m /\ buf[c].data = "current"
                              /\ buf[c].dirt \/ \E t \in Requested(c) : request[t].cmd = "WRITE"
      BY <2>3 DEF DataInv, NothingLost, find_buffer
    <3>2. c # b
      BY <1>1, <2>3, <3>1
    <3>3. (\E t \in Requested(c) : request[t].cmd = "WRITE") =>
            \E t \in Requested(c)' : request'[t].cmd = "WRITE"
      <4>1. \A t \in Requested(c) : t # s /\ t \in Slot
        BY <1>1, <3>2 DEF Requested
      <4> QED BY <1>7, <1>9, <3>2, <4>1
    <3> QED BY <1>5, <3>1, <3>2, <3>3
  <2> QED BY <2>1, <2>2, <2>3
<1>17. NothingLost'
  BY <1>16 DEF NothingLost, find_buffer
<1> QED BY <1>14, <1>15, <1>17 DEF DataInv

\* The three facts for data: at the start,
LEMMA DataInvInit == Init => DataInv
<1> SUFFICES ASSUME Init PROVE DataInv
  OBVIOUS
<1>1. ASSUME NEW b \in Buffer PROVE BufferData(b)
  <2>1. ~buf[b].dirt /\ ~buf[b].uptodate
    BY DEF Init
  <2>2. Lockers(b) = {} /\ Requested(b) = {}
    BY DEF Init, Lockers, Requested
  <2> QED BY <2>1, <2>2 DEF BufferData, Transfer
<1>2. \A p \in Process : UserData(p)
  BY DEF Init, UserData
<1>3. NothingLost
  BY DEF Init, NothingLost
<1> QED BY <1>1, <1>2, <1>3 DEF DataInv

\* Only a free and clean buffer is taken, and for a block that is nowhere.
LEMMA VictimWasFree ==
  ASSUME Typed, NEW p \in Process, VictimWaited(p), TakeVictim(p, victim[p])
  PROVE  buf[victim[p]].count = 0 /\ ~buf[victim[p]].dirt /\ find_buffer(want[p]) = {}
<1>1. bh[p] = NoBuffer /\ victim[p] \in Buffer /\ bh' = [bh EXCEPT ![p] = victim[p]]
  BY VictimReturned
<1>2. bh'[p] # bh[p]
  BY <1>1, BufferCacheAssumption DEF Typed, Types
<1>3. ~GetblkRepeats(p, victim[p]) /\ ~CleanVictim(p)
  BY <1>2 DEF GetblkRepeats, CleanVictim
<1> QED BY <1>3 DEF VictimWaited

\* in every step,
LEMMA DataInvStep ==
  ASSUME \A proc \in Process : "write" \notin Ops[proc], "WRITE" \notin MayFail, CountInv, DataInv, [Next]_vars
  PROVE  DataInv'
<1>1. LockInv /\ References /\ UniqueBuffer /\ Typed /\ HaveBlocks
  BY DEF CountInv, LockInv, References
<1>2. ASSUME NEW p \in Process, CacheAction(p) PROVE DataInv'
  <2>1. CASE Use(p)
    BY <1>1, <2>1, DataUse
  <2>2. CASE VictimWaited(p) /\ TakeVictim(p, victim[p])
    BY <1>1, <2>2, DataTake, VictimWasFree
  <2> QED BY <1>1, <1>2, <2>1, <2>2, DataCache
<1>3. ASSUME NEW p \in Process, RequestAction(p), UNCHANGED cacheVars PROVE DataInv'
  BY <1>1, <1>3, DataLockBuffer, DataFillRequest, DataGiveUp DEF RequestAction
<1>4. ASSUME NEW u \in BOOLEAN, EndRequest(u), UNCHANGED cacheVars PROVE DataInv'
  BY <1>1, <1>4, DataEndRequest
<1>5. CASE UNCHANGED vars
  <2>1. \A b \in Buffer : BufferData(b)'
    BY <1>5 DEF DataInv, BufferData, Transfer, Lockers, Requested, vars, requestVars, cacheVars
  <2>2. \A p \in Process : UserData(p)'
    BY <1>5 DEF DataInv, UserData, vars, requestVars, cacheVars
  <2>3. NothingLost'
    BY <1>5 DEF DataInv, NothingLost, find_buffer, Requested, vars, requestVars, cacheVars
  <2> QED BY <2>1, <2>2, <2>3 DEF DataInv
<1> QED BY <1>2, <1>3, <1>4, <1>5, NextActions DEF Next

\* and so always.
LEMMA DataInvAlways ==
  ASSUME \A proc \in Process : "write" \notin Ops[proc], "WRITE" \notin MayFail
  PROVE  Spec => [](CountInv /\ DataInv)
<1>1. CountInv /\ DataInv /\ [Next]_vars => (CountInv /\ DataInv)'
  BY CountInvStep, DataInvStep
<1> QED BY <1>1, CountInvInit, DataInvInit, PTL DEF Spec

\* What was written last to a block is on the device, or in its one buffer,
\* which is dirty or about to be written: neither getblk(), which gives buffers
\* away, nor sync_dev(), nor a request that has copied older data loses it.
\* That is for a device that writes what it is told, and without the
\* block_write() of whole blocks, which sets b_dirt without b_uptodate.
THEOREM WritesAreKept ==
  ASSUME \A proc \in Process : "write" \notin Ops[proc], "WRITE" \notin MayFail
  PROVE  Spec => []NothingLost
<1>1. DataInv => NothingLost
  BY DEF DataInv
<1> QED BY <1>1, DataInvAlways, PTL

\* bread() and breada() return what was written last, although the buffer may
\* have been read, written and waited for by others in the meantime, under the
\* same two assumptions.
THEOREM ReadsSeeWrites ==
  ASSUME \A proc \in Process : "write" \notin Ops[proc], "WRITE" \notin MayFail
  PROVE  Spec => []ReadsAreCurrent
<1>1. ASSUME CountInv, DataInv PROVE ReadsAreCurrent
  <2>1. ASSUME NEW p \in Process, pc[p] = "use", op[p] \in {"read", "modify", "breada"}
        PROVE  buf[bh[p]].data = "current"
    <3>1. bh[p] \in Buffer
      BY <1>1, <2>1 DEF CountInv, LockInv, Typed, Types, Local, Place, Making
    <3>2. op[p] # "fresh" /\ buf[bh[p]].uptodate
      BY <1>1, <2>1 DEF DataInv, UserData
    <3> QED BY <1>1, <3>1, <3>2 DEF DataInv, BufferData
  <2> QED BY <2>1 DEF ReadsAreCurrent
<1> QED BY <1>1, DataInvAlways, PTL
==============================================================================
