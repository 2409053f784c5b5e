----------------------------- MODULE MemoryProofs -----------------------------
(***************************************************************************)
(* Theorems about Memory.tla, for any number of tasks, frames, pages and   *)
(* page tables, and any workloads.                                         *)
(*                                                                         *)
(* The inductive invariant says where a process is in a fault, a fork() or *)
(* the release of its memory, and what it holds there (Typed), and how the *)
(* frames are wired: mem_map counts the users of a frame, only entries for *)
(* the same page share one, and a writable entry shares with nobody        *)
(* (Wired).  The second half shows that Memory.tla implements              *)
(* PrivateMemory.tla, for workloads that are RaceFree.                     *)
(***************************************************************************)
EXTENDS Memory, FiniteSetTheorems, WellFoundedInduction, TLAPS

-----------------------------------------------------------------------------
(* The invariants *)

Entry == [page : 0..NFrames, w : BOOLEAN, dirty : BOOLEAN]
Task == [state : {"free", "copied", "alive", "zombie"}, page : 0..NFrames, exe : BOOLEAN]
Position == [at : Label, a : 0..NPages + 1, hand : 0..NFrames,
             ret : {"user", "store", "exit", "exec", "fork_failed"},
             child : Slot \cup {0}]

Types ==
    /\ mem_map \in [Frame -> Nat]
    /\ content \in [Frame -> Value]
    /\ task \in [Slot -> Task]
    /\ pg_dir \in [Slot -> [Table -> 0..NFrames]]
    /\ pte \in [Slot -> [Page -> Entry]]
    /\ pc \in [Slot -> Position]
    /\ busy \in Slot \cup {0}
    /\ panic = "none"
    /\ load \in Workloads

\* An entry without a page is empty, one with a page is in a page table.
Tables(q) ==
    \A a \in Page :
      /\ pte[q][a].page = 0 => pte[q][a] = Absent
      /\ Present(q, a) => pg_dir[q][TableOf[a]] # 0

\* A task that is not there, or not any more, has no memory.
Empty(q) == (\A a \in Page : ~Present(q, a)) /\ \A t \in Table : pg_dir[q][t] = 0
Lives(q) ==
    /\ task[q].state = "free" <=> task[q].page = 0
    /\ task[q].state \in {"free", "zombie"} => Empty(q)

\* Where a process is.
Copies(p) == pc[p].at = "copy" \/ (pc[p].at = "free" /\ pc[p].ret = "fork_failed")
Place(p) ==
    /\ pc[p].at = "user" => pc[p] = AtUser
    /\ pc[p].at # "user" => task[p].state = "alive"
    /\ ~Sleeps(pc[p].at) => busy = p
    /\ pc[p].hand # 0 <=> pc[p].at \in {"load", "put_page"}
    /\ pc[p].at \in {"no_page", "load", "put_page", "wp_page", "store"} =>
         pc[p].a \in Page /\ pc[p].ret \in {"user", "store"}
    /\ pc[p].at \in {"no_page", "load", "put_page"} => ~Present(p, pc[p].a)
    /\ pc[p].at = "wp_page" => Present(p, pc[p].a)
    /\ pc[p].at = "store" => pc[p].ret = "store"
    /\ pc[p].at = "copy" => pc[p].a # 0
    /\ pc[p].at = "free" => pc[p].ret \in {"exit", "exec", "fork_failed"}
    /\ Copies(p) => /\ pc[p].child \in Slot \ {p}
                    /\ task[pc[p].child].state = "copied"
    /\ pc[p].at = "copy" => \A b \in Page : b >= pc[p].a => ~Present(pc[p].child, b)

Typed == Types /\ \A q \in Slot : Tables(q) /\ Lives(q) /\ Place(q)

\* mem_map counts the users.
Counts == \A f \in Frame : mem_map[f] = Cardinality(Users(f))

\* Two users of a frame are entries of two processes for the same page.
Shares(u, v) == u[1] = "page" /\ v[1] = "page" /\ u[3] = v[3]
Kinds == \A u, v \in User : Uses(u) = Uses(v) /\ Uses(u) # 0 /\ u # v => Shares(u, v)

\* A writable entry is the only user of its frame.
PageUser(q, a) == <<"page", q, a>>
Owned ==
    \A q \in Slot, a \in Page :
      pte[q][a].w => /\ Present(q, a)
                     /\ \A u \in User : Uses(u) = pte[q][a].page => u = PageUser(q, a)

Wired == Counts /\ Kinds /\ Owned

-----------------------------------------------------------------------------
(* Sets of numbers, users and frames *)

\* What the assumption on the constants gives, in the form the steps need it.
LEMMA Numbers ==
  /\ 0 \notin Slot /\ Slot \subseteq Nat /\ IsFiniteSet(Slot)
  /\ 0 \notin Frame /\ Frame \subseteq 0..NFrames /\ 0 \in 0..NFrames
  /\ 0..NFrames = Frame \union {0}
  /\ NPages \in Nat /\ NFrames \in Nat /\ NTables \in Nat
  /\ \A a \in Page : TableOf[a] \in Table /\ a \in Nat /\ a # 0 /\ a + 1 \in 0..NPages + 1
  /\ 0 \in Value /\ FileValue \in Value
BY MemoryAssumption DEF Frame, Page, Table

\* A finite set of numbers has a greatest and a least member, which get_free_page(),
\* the search for a sharer and the releases page by page take.
LEMMA MaxIn ==
  ASSUME NEW S \in SUBSET Nat, IsFiniteSet(S), S # {}
  PROVE  Max(S) \in S
<1> DEFINE Above(x) == {y \in S : y > x}
           T == {Above(x) : x \in S}
<1>1. T \subseteq FiniteSubsetsOf(S) /\ T # {}
  <2>1. T \subseteq SUBSET S /\ T # {}
    OBVIOUS
  <2>2. FiniteSubsetsOf(S) = SUBSET S
    BY FS_FiniteSubsetsOfFinite, Zenon
  <2> QED BY <2>1, <2>2, Zenon
<1>2. PICK m \in T : \A n \in T : ~(<<n, m>> \in StrictSubsetOrdering(S))
  BY <1>1, FS_StrictSubsetOrderingWellFounded, WFMin
<1>3. PICK x \in S : m = Above(x)
  OBVIOUS
<1>4. \A y \in S : x >= y
  <2>1. SUFFICES ASSUME NEW y \in S, ~(x >= y) PROVE FALSE
    OBVIOUS
  <2>2. y \in Above(x) /\ y \notin Above(y)
    BY <2>1
  <2>4. \A z \in S : z > y => z > x
    BY <2>1
  <2>5. Above(y) \subseteq Above(x)
    BY <2>4
  <2>3. <<Above(y), Above(x)>> \in StrictSubsetOrdering(S)
    BY <2>2, <2>5, Zenon DEF StrictSubsetOrdering
  <2> QED BY <1>2, <1>3, <2>3
<1> QED BY <1>4 DEF Max

\* So has it a least one, the child fork() takes and the page released next.
LEMMA MinIn ==
  ASSUME NEW S \in SUBSET Nat, IsFiniteSet(S), S # {}
  PROVE  Min(S) \in S
<1> DEFINE Below(x) == {y \in S : y < x}
           T == {Below(x) : x \in S}
<1>1. T \subseteq FiniteSubsetsOf(S) /\ T # {}
  <2>1. T \subseteq SUBSET S /\ T # {}
    OBVIOUS
  <2>2. FiniteSubsetsOf(S) = SUBSET S
    BY FS_FiniteSubsetsOfFinite, Zenon
  <2> QED BY <2>1, <2>2, Zenon
<1>2. PICK m \in T : \A n \in T : ~(<<n, m>> \in StrictSubsetOrdering(S))
  BY <1>1, FS_StrictSubsetOrderingWellFounded, WFMin
<1>3. PICK x \in S : m = Below(x)
  OBVIOUS
<1>4. \A y \in S : x =< y
  <2>1. SUFFICES ASSUME NEW y \in S, ~(x =< y) PROVE FALSE
    OBVIOUS
  <2>2. y \in Below(x) /\ y \notin Below(y)
    BY <2>1
  <2>4. \A z \in S : z < y => z < x
    BY <2>1
  <2>5. Below(y) \subseteq Below(x)
    BY <2>4
  <2>3. <<Below(y), Below(x)>> \in StrictSubsetOrdering(S)
    BY <2>2, <2>5, Zenon DEF StrictSubsetOrdering
  <2> QED BY <1>2, <1>3, <2>3
<1> QED BY <1>4 DEF Min

\* get_free_page() returns a free frame or 0.
LEMMA FreePage ==
  ASSUME Types
  PROVE  get_free_page # 0 => get_free_page \in Frame /\ mem_map[get_free_page] = 0
<1>1. IsFiniteSet(FreeFrames) /\ FreeFrames \in SUBSET Nat
  <2>1. IsFiniteSet(Frame)
    BY FS_Interval, MemoryAssumption DEF Frame
  <2>2. FreeFrames \in SUBSET Frame /\ Frame \in SUBSET Nat
    BY MemoryAssumption DEF FreeFrames, Frame
  <2>3. IsFiniteSet(FreeFrames)
    BY <2>1, <2>2, FS_Subset, Zenon
  <2> QED BY <2>2, <2>3
<1>2. FreeFrames # {} => Max(FreeFrames) \in FreeFrames
  BY <1>1, MaxIn
<1> QED BY <1>2 DEF get_free_page, FreeFrames

TableUser(q, t) == <<"table", q, t>>
TaskUser(q) == <<"task", q, 0>>
HandUser(q) == <<"hand", q, 0>>

\* The users of frames, what they use, now and after a step, and that they
\* are all different.
LEMMA UserCases ==
  ASSUME NEW u \in User
  PROVE  \/ \E q \in Slot, b \in Page : u = PageUser(q, b)
         \/ \E q \in Slot, t \in Table : u = TableUser(q, t)
         \/ \E q \in Slot : u = TaskUser(q) \/ u = HandUser(q)
BY DEF User, PageUser, TableUser, TaskUser, HandUser

\* What each kind of user uses, before and after a step.
LEMMA UsesOf ==
  ASSUME NEW q \in Slot
  PROVE  /\ \A b \in Page : /\ PageUser(q, b) \in User
                            /\ Uses(PageUser(q, b)) = pte[q][b].page
                            /\ Uses(PageUser(q, b))' = pte'[q][b].page
         /\ \A t \in Table : /\ TableUser(q, t) \in User
                             /\ Uses(TableUser(q, t)) = pg_dir[q][t]
                             /\ Uses(TableUser(q, t))' = pg_dir'[q][t]
         /\ TaskUser(q) \in User /\ Uses(TaskUser(q)) = task[q].page
         /\ Uses(TaskUser(q))' = task'[q].page
         /\ HandUser(q) \in User /\ Uses(HandUser(q)) = pc[q].hand
         /\ Uses(HandUser(q))' = pc'[q].hand
BY DEF User, Uses, PageUser, TableUser, TaskUser, HandUser

\* The users are different where their parts are.
LEMMA UsersDiffer ==
  ASSUME NEW q, NEW r
  PROVE  /\ \A a, b : PageUser(q, a) = PageUser(r, b) <=> q = r /\ a = b
         /\ \A a, b : TableUser(q, a) = TableUser(r, b) <=> q = r /\ a = b
         /\ TaskUser(q) = TaskUser(r) <=> q = r
         /\ HandUser(q) = HandUser(r) <=> q = r
         /\ \A a, b : PageUser(q, a) # TableUser(r, b)
         /\ \A a : PageUser(q, a) # TaskUser(r) /\ PageUser(q, a) # HandUser(r)
         /\ \A a : TableUser(q, a) # TaskUser(r) /\ TableUser(q, a) # HandUser(r)
         /\ TaskUser(q) # HandUser(r)
BY DEF PageUser, TableUser, TaskUser, HandUser

\* There are finitely many users, so every frame can be counted.
LEMMA UsersFinite ==
  ASSUME NEW f
  PROVE  IsFiniteSet(User) /\ IsFiniteSet(Users(f)) /\ Cardinality(Users(f)) \in Nat
<1>1. IsFiniteSet(Slot) /\ IsFiniteSet(Page) /\ IsFiniteSet(Table)
  BY FS_Interval, MemoryAssumption DEF Page, Table
<1>2. ASSUME NEW kind, NEW S, IsFiniteSet(S)
      PROVE  IsFiniteSet({kind} \X Slot \X S)
  <2> DEFINE g == [x \in Slot \X S |-> <<kind, x[1], x[2]>>]
  <2>1. g \in Surjection(Slot \X S, {kind} \X Slot \X S)
    <3>1. g \in [Slot \X S -> {kind} \X Slot \X S]
      OBVIOUS
    <3>2. ASSUME NEW y \in {kind} \X Slot \X S PROVE \E x \in Slot \X S : g[x] = y
      <4>1. y = <<kind, y[2], y[3]>> /\ <<y[2], y[3]>> \in Slot \X S
        OBVIOUS
      <4>2. g[<<y[2], y[3]>>] = y
        BY <4>1
      <4> QED BY <4>1, <4>2
    <3> QED BY <3>1, <3>2, Zenon DEF Surjection
  <2>2. IsFiniteSet(Slot \X S)
    BY <1>1, <1>2, FS_Product
  <2> QED BY <2>1, <2>2, FS_Surjection, Zenon
<1>3. IsFiniteSet(User)
  <2>1. IsFiniteSet({0})
    BY FS_Singleton
  <2>2. User = (({"page"} \X Slot \X Page) \union ({"table"} \X Slot \X Table))
                 \union (({"task"} \X Slot \X {0}) \union ({"hand"} \X Slot \X {0}))
    BY DEF User
  <2>3. /\ IsFiniteSet({"page"} \X Slot \X Page) /\ IsFiniteSet({"table"} \X Slot \X Table)
        /\ IsFiniteSet({"task"} \X Slot \X {0}) /\ IsFiniteSet({"hand"} \X Slot \X {0})
    BY <1>1, <1>2, <2>1
  <2> QED BY <2>2, <2>3, FS_Union
<1>4. Users(f) \subseteq User
  BY DEF Users
<1> QED BY <1>3, <1>4, FS_Subset, FS_CardinalityType

-----------------------------------------------------------------------------
(* How a step rewires the frames *)

\* User u has x afterwards, the others what they had.
Rewires(u, x) == Uses(u)' = x /\ \A v \in User \ {u} : Uses(v)' = Uses(v)

One(b) == IF b THEN 1 ELSE 0

\* A frame gains the user that comes and loses the one that goes.
LEMMA CountMoved ==
  ASSUME NEW u \in User, NEW x, Rewires(u, x), NEW f
  PROVE  /\ Cardinality(Users(f)') = Cardinality(Users(f)) + One(x = f) - One(Uses(u) = f)
         /\ Uses(u) = f => Cardinality(Users(f)) >= 1
         /\ Cardinality(Users(f)) \in Nat
<1>1. IsFiniteSet(Users(f)) /\ Cardinality(Users(f)) \in Nat
  BY UsersFinite
<1>2. \A v \in User : Uses(v)' = IF v = u THEN x ELSE Uses(v)
  BY DEF Rewires
<1>3. Uses(u) = f => Cardinality(Users(f)) >= 1
  <2>1. Uses(u) = f => Users(f) # {}
    BY DEF Users
  <2>2. Cardinality(Users(f)) = 0 <=> Users(f) = {}
    BY <1>1, FS_EmptySet
  <2> QED BY <1>1, <2>1, <2>2
<1>4. CASE x = f
  <2>1. Users(f)' = Users(f) \union {u}
    BY <1>2, <1>4 DEF Users
  <2>2. u \in Users(f) <=> Uses(u) = f
    BY DEF Users
  <2>3. Cardinality(Users(f)') = IF Uses(u) = f THEN Cardinality(Users(f)) ELSE Cardinality(Users(f)) + 1
    BY <1>1, <2>1, <2>2, FS_AddElement
  <2> QED BY <1>1, <1>3, <1>4, <2>3 DEF One
<1>5. CASE x # f
  <2>1. Users(f)' = Users(f) \ {u}
    BY <1>2, <1>5 DEF Users
  <2>2. u \in Users(f) <=> Uses(u) = f
    BY DEF Users
  <2>3. Cardinality(Users(f)') = IF Uses(u) = f THEN Cardinality(Users(f)) - 1 ELSE Cardinality(Users(f))
    BY <1>1, <2>1, <2>2, FS_RemoveElement
  <2> QED BY <1>1, <1>3, <1>5, <2>3 DEF One
<1> QED BY <1>4, <1>5

\* A frame with count 0 has no users, and one with count 1 has one.
LEMMA FreeHasNoUser ==
  ASSUME Counts, NEW f \in Frame, mem_map[f] = 0, NEW u \in User
  PROVE  Uses(u) # f
<1>1. Cardinality(Users(f)) = 0 /\ IsFiniteSet(Users(f))
  BY UsersFinite DEF Counts
<1>2. Users(f) = {}
  BY <1>1, FS_EmptySet
<1> QED BY <1>2 DEF Users

\* The user of a frame with count 1 is its only one: un_wp_page() relies on it.
LEMMA LastUser ==
  ASSUME Counts, NEW f \in Frame, mem_map[f] = 1, NEW u \in User, NEW v \in User,
         Uses(u) = f, Uses(v) = f
  PROVE  u = v
<1>1. Cardinality(Users(f)) = 1 /\ IsFiniteSet(Users(f)) /\ u \in Users(f) /\ v \in Users(f)
  BY UsersFinite DEF Counts, Users
<1>2. Cardinality(Users(f) \ {u}) = 0 /\ IsFiniteSet(Users(f) \ {u})
  BY <1>1, FS_RemoveElement
<1>3. Users(f) \ {u} = {}
  BY <1>2, FS_EmptySet
<1> QED BY <1>1, <1>3

\* A frame that is used is counted.
LEMMA UsedIsCounted ==
  ASSUME Counts, NEW u \in User, Uses(u) \in Frame
  PROVE  mem_map[Uses(u)] \in Nat /\ mem_map[Uses(u)] >= 1
<1>1. Cardinality(Users(Uses(u))) \in Nat /\ IsFiniteSet(Users(Uses(u))) /\ Users(Uses(u)) # {}
  BY UsersFinite DEF Users
<1>2. Cardinality(Users(Uses(u))) # 0
  BY <1>1, FS_EmptySet
<1> QED BY <1>1, <1>2 DEF Counts

\* The six ways: nothing changes,
LEMMA WireSame ==
  ASSUME Counts, Kinds, \A v \in User : Uses(v)' = Uses(v), mem_map' = mem_map
  PROVE  Counts' /\ Kinds'
<1>1. \A f : Users(f)' = Users(f)
  BY DEF Users
<1>2. Counts'
  BY <1>1 DEF Counts
<1>3. Kinds'
  BY DEF Kinds
<1> QED BY <1>2, <1>3

\* a user without a frame gets a free one,
LEMMA WireTaken ==
  ASSUME Types, Counts, Kinds, NEW u \in User, NEW f \in Frame, mem_map[f] = 0,
         mem_map' = Taken(f), Uses(u) = 0, Rewires(u, f)
  PROVE  Counts' /\ Kinds'
<1>1. \A v \in User : Uses(v)' = IF v = u THEN f ELSE Uses(v)
  BY DEF Rewires
<1>2. \A v \in User : Uses(v) # f
  BY FreeHasNoUser
<1>3. Kinds'
  BY <1>1, <1>2 DEF Kinds
<1>4. ASSUME NEW g \in Frame PROVE mem_map'[g] = Cardinality(Users(g)')
  <2>1. Uses(u) # g
    BY DEF Frame
  <2>2. /\ Cardinality(Users(g)') = Cardinality(Users(g)) + One(f = g) - One(Uses(u) = g)
        /\ Cardinality(Users(g)) \in Nat
    BY CountMoved
  <2>3. mem_map'[g] = IF g = f THEN 1 ELSE mem_map[g]
    BY DEF Types, Taken
  <2>4. g = f => Cardinality(Users(g)) = 0
    BY DEF Counts
  <2> QED BY <2>1, <2>2, <2>3, <2>4 DEF Counts, One
<1> QED BY <1>3, <1>4 DEF Counts

\* a user lets its frame go,
LEMMA WireReleased ==
  ASSUME Types, Counts, Kinds, NEW u \in User, NEW f \in Frame, Uses(u) = f,
         mem_map' = [mem_map EXCEPT ![f] = @ - 1], Rewires(u, 0)
  PROVE  Counts' /\ Kinds'
<1>1. \A v \in User : Uses(v)' = IF v = u THEN 0 ELSE Uses(v)
  BY DEF Rewires
<1>2. Kinds'
  BY <1>1 DEF Kinds
<1>3. ASSUME NEW g \in Frame PROVE mem_map'[g] = Cardinality(Users(g)')
  <2>1. 0 # g
    BY DEF Frame
  <2>2. /\ Cardinality(Users(g)') = Cardinality(Users(g)) + One(0 = g) - One(Uses(u) = g)
        /\ Cardinality(Users(g)) \in Nat
    BY CountMoved
  <2>3. mem_map'[g] = IF g = f THEN mem_map[g] - 1 ELSE mem_map[g]
    BY DEF Types
  <2> QED BY <2>1, <2>2, <2>3 DEF Counts, One
<1> QED BY <1>2, <1>3 DEF Counts

\* an entry joins another for the same page,
LEMMA WireJoined ==
  ASSUME Types, Counts, Kinds, NEW u \in User, NEW w \in User, NEW f \in Frame,
         Uses(u) = 0, Uses(w) = f, Shares(u, w),
         mem_map' = [mem_map EXCEPT ![f] = @ + 1], Rewires(u, f)
  PROVE  Counts' /\ Kinds'
<1>1. \A v \in User : Uses(v)' = IF v = u THEN f ELSE Uses(v)
  BY DEF Rewires
<1>2. ASSUME NEW v \in User, Uses(v) = f PROVE Shares(u, v) /\ Shares(v, u)
  <2>1. v = w \/ Shares(v, w)
    BY <1>2 DEF Kinds, Frame
  <2> QED BY <2>1 DEF Shares
<1>3. Kinds'
  BY <1>1, <1>2 DEF Kinds
<1>4. ASSUME NEW g \in Frame PROVE mem_map'[g] = Cardinality(Users(g)')
  <2>1. Uses(u) # g
    BY DEF Frame
  <2>2. /\ Cardinality(Users(g)') = Cardinality(Users(g)) + One(f = g) - One(Uses(u) = g)
        /\ Cardinality(Users(g)) \in Nat
    BY CountMoved
  <2>3. mem_map'[g] = IF g = f THEN mem_map[g] + 1 ELSE mem_map[g]
    BY DEF Types
  <2> QED BY <2>1, <2>2, <2>3 DEF Counts, One
<1> QED BY <1>3, <1>4 DEF Counts

\* a user changes its frame for a free one,
LEMMA WireCopied ==
  ASSUME Types, Counts, Kinds, NEW u \in User, NEW old \in Frame, NEW f \in Frame,
         mem_map[f] = 0, Uses(u) = old,
         mem_map' = [mem_map EXCEPT ![f] = 1, ![old] = @ - 1], Rewires(u, f)
  PROVE  Counts' /\ Kinds'
<1>1. \A v \in User : Uses(v)' = IF v = u THEN f ELSE Uses(v)
  BY DEF Rewires
<1>2. \A v \in User : Uses(v) # f
  BY FreeHasNoUser
<1>3. Kinds'
  BY <1>1, <1>2 DEF Kinds
<1>4. ASSUME NEW g \in Frame PROVE mem_map'[g] = Cardinality(Users(g)')
  <2>1. /\ Cardinality(Users(g)') = Cardinality(Users(g)) + One(f = g) - One(Uses(u) = g)
        /\ Cardinality(Users(g)) \in Nat
    BY CountMoved
  <2>2. old # f
    BY <1>2
  <2>3. mem_map'[g] = IF g = f THEN 1 ELSE IF g = old THEN mem_map[g] - 1 ELSE mem_map[g]
    BY <2>2 DEF Types
  <2> QED BY <2>1, <2>2, <2>3 DEF Counts, One
<1> QED BY <1>3, <1>4 DEF Counts

\* and a frame goes from one user to another.
LEMMA WireMoved ==
  ASSUME Types, Counts, Kinds, NEW u \in User, NEW w \in User, NEW f \in Frame,
         u[1] = "hand", Uses(u) = f, Uses(w) = 0, u # w, mem_map' = mem_map,
         \A v \in User : Uses(v)' = IF v = u THEN 0 ELSE IF v = w THEN f ELSE Uses(v)
  PROVE  /\ Counts' /\ Kinds'
         /\ \A v \in User : Uses(v)' = f => v = w
<1>1. \A v \in User : Uses(v) = f => v = u
  BY DEF Kinds, Shares, Frame
<1>2. \A v \in User : Uses(v)' = f => v = w
  BY <1>1 DEF Frame
<1>3. Kinds'
  BY <1>1 DEF Kinds, Frame
<1>4. ASSUME NEW g \in Frame PROVE mem_map'[g] = Cardinality(Users(g)')
  <2>1. CASE g = f
    <3>1. Users(g) = {u} /\ Users(g)' = {w}
      BY <1>1, <1>2, <2>1 DEF Users, Frame
    <3>2. Cardinality({u}) = 1 /\ Cardinality({w}) = 1
      BY FS_Singleton
    <3> QED BY <3>1, <3>2 DEF Counts
  <2>2. CASE g # f
    <3>1. Users(g)' = Users(g)
      BY <2>2 DEF Users, Frame
    <3> QED BY <3>1 DEF Counts
  <2> QED BY <2>1, <2>2
<1> QED BY <1>2, <1>3, <1>4 DEF Counts

\* Writable entries keep their frames to themselves, unless somebody joins f,
\* which then is writable only for its one user.
LEMMA OwnedKept ==
  ASSUME Owned, NEW f \in 0..NFrames,
         \A v \in User : Uses(v)' \in {Uses(v), 0, f},
         \A q \in Slot, a \in Page : pte'[q][a].w =>
            \/ pte[q][a].w /\ pte'[q][a].page = pte[q][a].page /\ pte[q][a].page # f
            \/ /\ pte'[q][a].page # 0
               /\ \A v \in User : Uses(v)' = pte'[q][a].page => v = PageUser(q, a)
  PROVE  Owned'
<1> SUFFICES ASSUME NEW q \in Slot, NEW a \in Page, pte'[q][a].w
             PROVE  /\ Present(q, a)'
                    /\ \A u \in User : Uses(u)' = pte'[q][a].page => u = PageUser(q, a)
  BY DEF Owned, PageUser
<1>1. CASE pte[q][a].w /\ pte'[q][a].page = pte[q][a].page /\ pte[q][a].page # f
  BY <1>1 DEF Owned, Present
<1>2. CASE /\ pte'[q][a].page # 0
           /\ \A v \in User : Uses(v)' = pte'[q][a].page => v = PageUser(q, a)
  BY <1>2 DEF Present
<1> QED BY <1>1, <1>2

\* What stays of the users of each kind.
SamePages == \A q \in Slot, b \in Page : pte'[q][b].page = pte[q][b].page
SameTables == \A q \in Slot, t \in Table : pg_dir'[q][t] = pg_dir[q][t]
SameTasks == \A q \in Slot : task'[q].page = task[q].page
SameHands == \A q \in Slot : pc'[q].hand = pc[q].hand

\* When all pages stay where they are, no user is rewired.
LEMMA RewiresNone ==
  ASSUME SamePages, SameTables, SameTasks, SameHands, NEW v \in User
  PROVE  Uses(v)' = Uses(v)
BY UserCases, UsesOf DEF SamePages, SameTables, SameTasks, SameHands

\* One entry changes,
LEMMA RewiresPage ==
  ASSUME NEW p \in Slot, NEW a \in Page, NEW x,
         \A q \in Slot, b \in Page :
            pte'[q][b].page = IF q = p /\ b = a THEN x ELSE pte[q][b].page,
         SameTables, SameTasks, SameHands
  PROVE  Rewires(PageUser(p, a), x)
<1>1. Uses(PageUser(p, a))' = x
  BY UsesOf
<1>2. ASSUME NEW v \in User, v # PageUser(p, a) PROVE Uses(v)' = Uses(v)
  <2>1. CASE \E q \in Slot, b \in Page : v = PageUser(q, b)
    BY <1>2, <2>1, UsesOf
  <2>2. CASE \/ \E q \in Slot, t \in Table : v = TableUser(q, t)
             \/ \E q \in Slot : v = TaskUser(q) \/ v = HandUser(q)
    BY <2>2, UsesOf DEF SameTables, SameTasks, SameHands
  <2> QED BY <2>1, <2>2, UserCases
<1> QED BY <1>1, <1>2 DEF Rewires

\* one page table is installed or removed,
LEMMA RewiresTable ==
  ASSUME NEW p \in Slot, NEW s \in Table, NEW x,
         \A q \in Slot, t \in Table : pg_dir'[q][t] = IF q = p /\ t = s THEN x ELSE pg_dir[q][t],
         SamePages, SameTasks, SameHands
  PROVE  Rewires(TableUser(p, s), x)
<1>1. Uses(TableUser(p, s))' = x
  BY UsesOf
<1>2. ASSUME NEW v \in User, v # TableUser(p, s) PROVE Uses(v)' = Uses(v)
  <2>1. CASE \E q \in Slot, t \in Table : v = TableUser(q, t)
    BY <1>2, <2>1, UsesOf
  <2>2. CASE \/ \E q \in Slot, b \in Page : v = PageUser(q, b)
             \/ \E q \in Slot : v = TaskUser(q) \/ v = HandUser(q)
    BY <2>2, UsesOf DEF SamePages, SameTasks, SameHands
  <2> QED BY <2>1, <2>2, UserCases
<1> QED BY <1>1, <1>2 DEF Rewires

\* one task structure is taken or released,
LEMMA RewiresTask ==
  ASSUME NEW p \in Slot, NEW x,
         \A q \in Slot : task'[q].page = IF q = p THEN x ELSE task[q].page,
         SamePages, SameTables, SameHands
  PROVE  Rewires(TaskUser(p), x)
<1>1. Uses(TaskUser(p))' = x
  BY UsesOf
<1>2. ASSUME NEW v \in User, v # TaskUser(p) PROVE Uses(v)' = Uses(v)
  <2>1. CASE \E q \in Slot : v = TaskUser(q)
    BY <1>2, <2>1, UsesOf
  <2>2. CASE \/ \E q \in Slot, b \in Page : v = PageUser(q, b)
             \/ \E q \in Slot, t \in Table : v = TableUser(q, t)
             \/ \E q \in Slot : v = HandUser(q)
    BY <2>2, UsesOf DEF SamePages, SameTables, SameHands
  <2> QED BY <2>1, <2>2, UserCases
<1> QED BY <1>1, <1>2 DEF Rewires

\* or one process takes or frees a page before it maps it.
LEMMA RewiresHand ==
  ASSUME NEW p \in Slot, NEW x,
         \A q \in Slot : pc'[q].hand = IF q = p THEN x ELSE pc[q].hand,
         SamePages, SameTables, SameTasks
  PROVE  Rewires(HandUser(p), x)
<1>1. Uses(HandUser(p))' = x
  BY UsesOf
<1>2. ASSUME NEW v \in User, v # HandUser(p) PROVE Uses(v)' = Uses(v)
  <2>1. CASE \E q \in Slot : v = HandUser(q)
    BY <1>2, <2>1, UsesOf
  <2>2. CASE \/ \E q \in Slot, b \in Page : v = PageUser(q, b)
             \/ \E q \in Slot, t \in Table : v = TableUser(q, t)
             \/ \E q \in Slot : v = TaskUser(q)
    BY <2>2, UsesOf DEF SamePages, SameTables, SameTasks
  <2> QED BY <2>1, <2>2, UserCases
<1> QED BY <1>1, <1>2 DEF Rewires

\* The page in the hands of p goes into its entry.
LEMMA RewiresMoved ==
  ASSUME NEW p \in Slot, NEW a \in Page, NEW x,
         \A q \in Slot, b \in Page :
            pte'[q][b].page = IF q = p /\ b = a THEN x ELSE pte[q][b].page,
         \A q \in Slot : pc'[q].hand = IF q = p THEN 0 ELSE pc[q].hand,
         SameTables, SameTasks, NEW v \in User
  PROVE  Uses(v)' = IF v = HandUser(p) THEN 0
                    ELSE IF v = PageUser(p, a) THEN x ELSE Uses(v)
<1>1. CASE \E q \in Slot, b \in Page : v = PageUser(q, b)
  <2>1. PICK q \in Slot, b \in Page : v = PageUser(q, b)
    BY <1>1
  <2>2. v # HandUser(p) /\ (v = PageUser(p, a) <=> q = p /\ b = a)
    BY <2>1, UsersDiffer
  <2> QED BY <2>1, <2>2, UsesOf
<1>2. CASE \E q \in Slot : v = HandUser(q)
  <2>1. PICK q \in Slot : v = HandUser(q)
    BY <1>2
  <2>2. v # PageUser(p, a) /\ (v = HandUser(p) <=> q = p)
    BY <2>1, UsersDiffer
  <2> QED BY <2>1, <2>2, UsesOf
<1>3. CASE \E q \in Slot, t \in Table : v = TableUser(q, t)
  <2>1. PICK q \in Slot, t \in Table : v = TableUser(q, t)
    BY <1>3
  <2>2. v # PageUser(p, a) /\ v # HandUser(p)
    BY <2>1 DEF TableUser, PageUser, HandUser
  <2> QED BY <2>1, <2>2, UsesOf DEF SameTables
<1>4. CASE \E q \in Slot : v = TaskUser(q)
  <2>1. PICK q \in Slot : v = TaskUser(q)
    BY <1>4
  <2>2. v # PageUser(p, a) /\ v # HandUser(p)
    BY <2>1 DEF TaskUser, PageUser, HandUser
  <2> QED BY <2>1, <2>2, UsesOf DEF SameTasks
<1> QED BY <1>1, <1>2, <1>3, <1>4, UserCases

-----------------------------------------------------------------------------
(* How a step stores entries, tables and positions *)

\* The constants of the three records have their types.
LEMMA AbsentIsEntry == Absent \in Entry /\ AtUser \in Position /\ NoTask \in Task
BY MemoryAssumption DEF Absent, Entry, AtUser, Position, NoTask, Task, Label

\* A store into one entry.
LEMMA EntryStored ==
  ASSUME pte \in [Slot -> [Page -> Entry]], NEW p \in Slot, NEW a \in Page, NEW e \in Entry,
         pte' = [pte EXCEPT ![p][a] = e]
  PROVE  /\ pte' \in [Slot -> [Page -> Entry]]
         /\ \A q \in Slot, b \in Page : pte'[q][b] = IF q = p /\ b = a THEN e ELSE pte[q][b]
<1> HIDE DEF Entry, Page
<1> QED OBVIOUS

\* Two processes get the same entry.
Joined(p, r, a, e) ==
    /\ pte' \in [Slot -> [Page -> Entry]]
    /\ \A q \in Slot, b \in Page :
         pte'[q][b] = IF q \in {p, r} /\ b = a THEN e ELSE pte[q][b]

LEMMA EntriesStored ==
  ASSUME pte \in [Slot -> [Page -> Entry]], NEW p \in Slot, NEW r \in Slot \ {p},
         NEW a \in Page, NEW e \in Entry, pte' = [pte EXCEPT ![r][a] = e, ![p][a] = e]
  PROVE  Joined(p, r, a, e)
<1> HIDE DEF Entry, Page
<1> QED BY DEF Joined

\* The write bit is set,
WriteBit(p, a, e) ==
    pte' = [pte EXCEPT ![p][a] = e] /\ e.page = pte[p][a].page /\ e.w /\ e.dirty = pte[p][a].dirty

LEMMA WriteBitStored ==
  ASSUME pte \in [Slot -> [Page -> Entry]], NEW p \in Slot, NEW a \in Page,
         pte' = [pte EXCEPT ![p][a].w = TRUE]
  PROVE  \E e \in Entry : WriteBit(p, a, e)
<1> DEFINE e == [pte[p][a] EXCEPT !.w = TRUE]
<1>1. pte' = [pte EXCEPT ![p][a] = e]
  BY Zenon
<1>2. pte[p][a] \in Entry
  OBVIOUS
<1>3. e \in Entry /\ e.page = pte[p][a].page /\ e.w /\ e.dirty = pte[p][a].dirty
  BY <1>2 DEF Entry
<1> QED BY <1>1, <1>3, Zenon DEF WriteBit

\* or the dirty bit.
LEMMA DirtyBitStored ==
  ASSUME pte \in [Slot -> [Page -> Entry]], NEW p \in Slot, NEW a \in Page,
         pte' = [pte EXCEPT ![p][a].dirty = TRUE]
  PROVE  \E e \in Entry : /\ pte' = [pte EXCEPT ![p][a] = e] /\ e.page = pte[p][a].page
                          /\ e.w = pte[p][a].w /\ e.dirty
<1> DEFINE e == [pte[p][a] EXCEPT !.dirty = TRUE]
<1>1. pte' = [pte EXCEPT ![p][a] = e]
  BY Zenon
<1>2. pte[p][a] \in Entry
  OBVIOUS
<1>3. e \in Entry /\ e.page = pte[p][a].page /\ e.w = pte[p][a].w /\ e.dirty
  BY <1>2 DEF Entry
<1> QED BY <1>1, <1>3, Zenon

\* A store into one entry of a page directory.
LEMMA TableStored ==
  ASSUME pg_dir \in [Slot -> [Table -> 0..NFrames]], NEW p \in Slot, NEW s \in Table,
         NEW f \in 0..NFrames, pg_dir' = [pg_dir EXCEPT ![p][s] = f]
  PROVE  /\ pg_dir' \in [Slot -> [Table -> 0..NFrames]]
         /\ \A q \in Slot, t \in Table :
              pg_dir'[q][t] = IF q = p /\ t = s THEN f ELSE pg_dir[q][t]
<1> HIDE DEF Table
<1> QED OBVIOUS

\* The process goes on at another place, the others stay where they are.
Moves(p, g) ==
    /\ pc' \in [Slot -> Position]
    /\ pc'[p] = g
    /\ \A q \in Slot \ {p} : pc'[q] = pc[q]
    /\ busy' = IF Sleeps(g.at) THEN 0 ELSE p
    /\ busy' \in Slot \cup {0}
    /\ panic' = panic /\ load' = load

\* Continues() is such a move.
LEMMA PcStored ==
  ASSUME Types, NEW p \in Slot, NEW g \in Position, Continues(p, g)
  PROVE  Moves(p, g)
BY DEF Types, Continues, Moves

\* While p runs, the others are asleep or in user mode.
LEMMA OthersSleep ==
  ASSUME Typed, NEW p \in Slot, NEW label, At(p, label), NEW q \in Slot \ {p}
  PROVE  pc[q].at \in {"user", "load", "store"}
<1>1. Sleeps(pc[q].at)
  <2>1. busy \in {0, p} /\ q # p /\ q # 0
    BY Numbers DEF At
  <2>2. ~Sleeps(pc[q].at) => busy = q
    BY DEF Typed, Place
  <2> QED BY <2>1, <2>2
<1> QED BY <1>1 DEF Sleeps

\* A process keeps its place when it stays alive and its entries are neither
\* filled nor emptied.
Undisturbed(q) ==
    /\ pc'[q] = pc[q]
    /\ task[q].state = "alive" =>
         /\ task'[q].state = "alive"
         /\ \A a \in Page : Present(q, a)' <=> Present(q, a)

LEMMA OthersPlace ==
  ASSUME Typed, NEW p \in Slot, NEW label, At(p, label), NEW q \in Slot \ {p}, Undisturbed(q)
  PROVE  Place(q)'
<1>1. pc[q].at \in {"user", "load", "store"} /\ Place(q)
  BY OthersSleep DEF Typed
<1> QED BY <1>1 DEF Place, Undisturbed, Copies, Sleeps

-----------------------------------------------------------------------------
(* Steps that leave the frames to their users *)

\* p moves on, bits of entries change, nobody gets or loses a frame.
Quiet(p, g) ==
    /\ Moves(p, g) /\ g.hand = pc[p].hand
    /\ mem_map' = mem_map /\ pg_dir' = pg_dir
    /\ content' \in [Frame -> Value] /\ task' \in [Slot -> Task]
    /\ pte' \in [Slot -> [Page -> Entry]]
    /\ \A q \in Slot : task'[q].state = task[q].state /\ task'[q].page = task[q].page
    /\ \A q \in Slot, b \in Page :
         /\ pte'[q][b].page = pte[q][b].page
         /\ ~Present(q, b) => pte'[q][b] = pte[q][b]

\* Such a step keeps the types,
LEMMA QuietTyped ==
  ASSUME Typed, NEW p \in Slot, NEW label, At(p, label), NEW g, Quiet(p, g), Place(p)'
  PROVE  Typed'
<1>1. Types'
  BY DEF Quiet, Moves, Typed, Types
<1>2. ASSUME NEW q \in Slot PROVE Tables(q)' /\ Lives(q)'
  <2>1. Tables(q) /\ Lives(q)
    BY DEF Typed
  <2>2. \A a \in Page : (Present(q, a)' <=> Present(q, a)) /\ (~Present(q, a) => pte'[q][a] = pte[q][a])
    BY DEF Quiet, Present
  <2>3. Tables(q)'
    BY <2>1, <2>2 DEF Tables, Quiet, Present
  <2>4. Empty(q)' <=> Empty(q)
    BY <2>2 DEF Empty, Quiet
  <2> QED BY <2>1, <2>3, <2>4 DEF Lives, Quiet
<1>3. ASSUME NEW q \in Slot \ {p} PROVE Place(q)'
  BY OthersPlace DEF Undisturbed, Quiet, Moves, Present
<1> QED BY <1>1, <1>2, <1>3 DEF Typed

\* and the wiring, when a new write bit is on an entry with no other user.
LEMMA QuietWired ==
  ASSUME Wired, NEW p \in Slot, NEW g, Quiet(p, g),
         \A q \in Slot, b \in Page : pte'[q][b].w =>
            \/ pte[q][b].w
            \/ /\ Present(q, b)
               /\ \A v \in User : Uses(v) = pte[q][b].page => v = PageUser(q, b)
  PROVE  Wired'
<1>1. SamePages /\ SameTables /\ SameTasks /\ SameHands
  BY DEF Quiet, Moves, SamePages, SameTables, SameTasks, SameHands
<1>2. \A v \in User : Uses(v)' = Uses(v)
  BY <1>1, RewiresNone
<1>3. Counts' /\ Kinds'
  BY <1>2, WireSame DEF Wired, Quiet
<1>4. ASSUME NEW q \in Slot, NEW b \in Page, pte'[q][b].w
      PROVE  /\ pte'[q][b].page # 0
             /\ \A v \in User : Uses(v)' = pte'[q][b].page => v = PageUser(q, b)
  <2>1. pte'[q][b].page = pte[q][b].page
    BY <1>1 DEF SamePages
  <2> QED BY <1>2, <1>4, <2>1 DEF Wired, Owned, Present
<1>5. Owned'
  BY <1>2, <1>4, OwnedKept, Numbers DEF Wired
<1> QED BY <1>3, <1>5 DEF Wired

\* The process only moves on.
LEMMA MoveStep ==
  ASSUME Typed, Wired, NEW p \in Slot, NEW label, At(p, label), NEW g \in Position, Goto(p, g),
         g.hand = pc[p].hand, UNCHANGED <<mem_map, task, tableVars>>,
         content' \in [Frame -> Value], Place(p)'
  PROVE  Typed' /\ Wired'
<1>1. Types /\ Moves(p, g)
  BY PcStored DEF Goto, Typed
<1>2. Quiet(p, g)
  BY <1>1 DEF Quiet, tableVars, Types
<1> QED BY <1>1, <1>2, QuietTyped, QuietWired DEF tableVars

\* The positions a process goes to.
LEMMA Positions ==
  ASSUME Types, NEW p \in Slot
  PROVE  /\ pc[p] \in Position
         /\ \A x \in Label : [pc[p] EXCEPT !.at = x] \in Position
         /\ \A ret \in {"exit", "exec", "fork_failed"} : Releases(p, ret) \in Position
         /\ [pc[p] EXCEPT !.at = "store", !.hand = 0] \in Position
BY AbsentIsEntry, Numbers DEF Types, Position, Releases, AtUser, Label

\* A user's access traps; a system call checks its buffer, and finds it absent.
LEMMA TrapStep ==
  ASSUME Typed, Wired, NEW p \in Slot, NEW a \in Page, Trap(p, a) \/ verify_area(p, a)
  PROVE  Typed' /\ Wired'
<1>1. Types /\ Place(p) /\ At(p, "user") /\ pc[p] = AtUser
  BY DEF Typed, Trap, verify_area, Place, At
<1>2. UNCHANGED <<mem_map, content, task, tableVars>> /\ content \in [Frame -> Value]
  BY <1>1 DEF Trap, verify_area, Types
<1>3. PICK g \in Position :
        /\ Goto(p, g) /\ g.hand = 0 /\ g.a = a
        /\ \/ g.at = "no_page" /\ ~Present(p, a) /\ g.ret = "user"
           \/ g.at = "wp_page" /\ Present(p, a) /\ g.ret \in {"user", "store"}
           \/ g.at = "store" /\ g.ret = "store"
  <2>1. a \in 0..NPages + 1
    BY Numbers DEF Page
  <2>2. AtUser \in Position
    BY AbsentIsEntry
  <2>3. /\ [AtUser EXCEPT !.at = "no_page", !.a = a] \in Position
        /\ [AtUser EXCEPT !.at = "wp_page", !.a = a] \in Position
        /\ [AtUser EXCEPT !.a = a, !.ret = "store", !.at = "wp_page"] \in Position
        /\ [AtUser EXCEPT !.a = a, !.ret = "store", !.at = "store"] \in Position
    BY <2>1, <2>2 DEF Position, AtUser, Label
  <2> QED BY <2>3 DEF Trap, verify_area, AtUser
<1>4. Moves(p, g)
  BY <1>1, <1>3, PcStored DEF Goto
<1>5. Place(p)'
  BY <1>1, <1>2, <1>3, <1>4 DEF Place, Moves, Copies, Present, tableVars, At, Sleeps
<1> QED BY <1>1, <1>2, <1>3, <1>5, MoveStep DEF AtUser

\* bread_page() fills the page in the hands of the process.
LEMMA BreadPageStep ==
  ASSUME Typed, Wired, NEW p \in Slot, bread_page(p)
  PROVE  Typed' /\ Wired'
<1>1. Types /\ Place(p) /\ At(p, "load")
  BY DEF Typed, bread_page
<1> DEFINE g == [pc[p] EXCEPT !.at = "put_page"]
<1>2. /\ g \in Position /\ g.at = "put_page" /\ g.hand = pc[p].hand
      /\ g.a = pc[p].a /\ g.ret = pc[p].ret
  <2>1. pc[p] \in Position
    BY <1>1 DEF Types
  <2> QED BY <2>1 DEF Position, Label
<1>3. Goto(p, g) /\ UNCHANGED <<mem_map, task, tableVars>> /\ content' \in [Frame -> Value]
  BY <1>1, Numbers DEF bread_page, Types
<1> HIDE DEF g
<1>4. Moves(p, g)
  BY <1>1, <1>2, <1>3, PcStored DEF Goto
<1>5. Place(p)'
  BY <1>1, <1>2, <1>3, <1>4 DEF Place, Moves, Copies, Present, tableVars, At, Sleeps
<1> QED BY <1>1, <1>2, <1>3, <1>5, MoveStep

\* The process exits for want of memory, or by its own will.
LEMMA OomStep ==
  ASSUME Typed, Wired, NEW p \in Slot, NEW label, At(p, label), pc[p].hand = 0, oom(p),
         UNCHANGED <<mem_map, content, task, tableVars>>
  PROVE  Typed' /\ Wired'
<1>1. Types
  BY DEF Typed
<1> DEFINE g == Releases(p, "exit")
<1>2. g \in Position /\ g.hand = 0 /\ g.at = "free" /\ g.ret = "exit"
  BY <1>1, Positions DEF Releases, AtUser
<1>3. Goto(p, g)
  BY DEF oom
<1> HIDE DEF g
<1>4. Moves(p, g)
  BY <1>1, <1>2, <1>3, PcStored DEF Goto
<1>5. Place(p)'
  BY <1>1, <1>2, <1>4 DEF Place, Moves, Copies, Sleeps, At
<1>6. content' \in [Frame -> Value]
  BY <1>1 DEF Types
<1> QED BY <1>1, <1>2, <1>3, <1>5, <1>6, MoveStep

\* do_exit() starts like oom().
LEMMA ExitStep ==
  ASSUME Typed, Wired, NEW p \in Slot, do_exit(p)
  PROVE  Typed' /\ Wired'
<1>1. At(p, "user") /\ oom(p) /\ UNCHANGED <<mem_map, content, task, tableVars>>
  BY DEF do_exit, oom
<1>2. pc[p].hand = 0
  BY <1>1 DEF Typed, Place, At
<1> QED BY <1>1, <1>2, OomStep

\* The program is replaced: its memory will be released.
LEMMA ExecStep ==
  ASSUME Typed, Wired, NEW p \in Slot, do_execve(p)
  PROVE  Typed' /\ Wired'
<1>1. Types /\ At(p, "user") /\ Place(p)
  BY DEF Typed, do_execve
<1> DEFINE g == Releases(p, "exec")
<1>2. g \in Position /\ g.hand = 0 /\ g.at = "free" /\ g.ret = "exec"
  BY <1>1, Positions DEF Releases, AtUser
<1>3. Goto(p, g) /\ pc[p].hand = 0
  BY <1>1 DEF do_execve, Place, At
<1> HIDE DEF g
<1>4. Moves(p, g)
  BY <1>1, <1>2, <1>3, PcStored DEF Goto
<1>5. task' = [task EXCEPT ![p].exe = TRUE] /\ UNCHANGED <<mem_map, content, tableVars>>
  BY DEF do_execve
<1>6. /\ task' \in [Slot -> Task]
      /\ \A q \in Slot : task'[q].state = task[q].state /\ task'[q].page = task[q].page
  BY <1>1, <1>5 DEF Types, Task
<1>7. Place(p)'
  BY <1>1, <1>2, <1>4, <1>6 DEF Place, Moves, Copies, Sleeps, At
<1>8. Quiet(p, g)
  BY <1>1, <1>2, <1>3, <1>4, <1>5, <1>6 DEF Quiet, tableVars, Types
<1> QED BY <1>1, <1>5, <1>7, <1>8, QuietTyped, QuietWired DEF tableVars

\* A store into a page that is there.
LEMMA StoreStep ==
  ASSUME Typed, Wired, NEW p \in Slot, NEW a \in Page, NEW v \in Value, NEW label, At(p, label),
         Present(p, a), pc[p].hand = 0, Store(p, a, v)
  PROVE  Typed' /\ Wired'
<1>1. Types
  BY DEF Typed
<1>2. PICK e \in Entry : /\ pte' = [pte EXCEPT ![p][a] = e] /\ e.page = pte[p][a].page
                         /\ e.w = pte[p][a].w /\ e.dirty
  BY <1>1, DirtyBitStored DEF Store, Types
<1>3. /\ pte' \in [Slot -> [Page -> Entry]]
      /\ \A q \in Slot, b \in Page : pte'[q][b] = IF q = p /\ b = a THEN e ELSE pte[q][b]
  BY <1>1, <1>2, EntryStored DEF Types
<1>4. Moves(p, AtUser)
  BY <1>1, PcStored, AbsentIsEntry DEF Store
<1>5. content' \in [Frame -> Value] /\ UNCHANGED <<mem_map, task, pg_dir>>
  BY <1>1 DEF Store, Types
<1>6. Place(p)'
  BY <1>4 DEF Place, Moves, AtUser, Copies, Sleeps
<1>7. Quiet(p, AtUser)
  BY <1>1, <1>2, <1>3, <1>4, <1>5 DEF Quiet, Types, AtUser, Present
<1>8. \A q \in Slot, b \in Page : pte'[q][b].w => pte[q][b].w
  BY <1>2, <1>3
<1> QED BY <1>6, <1>7, <1>8, QuietTyped, QuietWired

\* It is made by the user,
LEMMA UserWriteStep ==
  ASSUME Typed, Wired, NEW p \in Slot, NEW a \in Page, NEW v \in Value, UserWrite(p, a, v)
  PROVE  Typed' /\ Wired'
<1>1. At(p, "user") /\ Store(p, a, v) /\ pte[p][a].w
  BY DEF UserWrite
<1>2. Present(p, a) /\ pc[p].hand = 0
  BY <1>1 DEF Wired, Owned, Typed, Place, At
<1> QED BY <1>1, <1>2, StoreStep

\* or by the kernel in a system call, where it may find the page absent.
LEMMA PutFsByteStep ==
  ASSUME Typed, Wired, NEW p \in Slot, put_fs_byte(p)
  PROVE  Typed' /\ Wired'
<1>1. PICK a \in Page : a = pc[p].a
  BY DEF put_fs_byte, Typed, Place, At
<1>2. At(p, "store") /\ Types /\ Place(p) /\ pc[p].hand = 0
  BY DEF put_fs_byte, Typed, Place, At
<1>3. CASE Present(p, a)
  <2>1. PICK v \in Value : Store(p, a, v)
    BY <1>1, <1>3 DEF put_fs_byte
  <2> QED BY <1>2, <1>3, <2>1, StoreStep
<1>4. CASE ~Present(p, a)
  <2> DEFINE g == [pc[p] EXCEPT !.at = "no_page"]
  <2>1. /\ g \in Position /\ g.at = "no_page" /\ g.hand = pc[p].hand
        /\ g.a = pc[p].a /\ g.ret = pc[p].ret
    <3>1. pc[p] \in Position
      BY <1>2 DEF Types
    <3> QED BY <3>1 DEF Position, Label
  <2>2. Goto(p, g) /\ UNCHANGED <<mem_map, content, task, tableVars>>
    BY <1>1, <1>4 DEF put_fs_byte
  <2> HIDE DEF g
  <2>3. Moves(p, g)
    BY <1>2, <2>1, <2>2, PcStored DEF Goto
  <2>4. Place(p)'
    BY <1>1, <1>2, <1>4, <2>1, <2>2, <2>3
       DEF Place, Moves, Copies, Present, tableVars, At, Sleeps
  <2>5. content' \in [Frame -> Value]
    BY <1>2, <2>2 DEF Types
  <2> QED BY <1>2, <2>1, <2>2, <2>4, <2>5, MoveStep
<1> QED BY <1>3, <1>4

-----------------------------------------------------------------------------
(* Steps that give a frame to a user *)

\* A page table is put into the page directory of q.
LEMMA GrowStep ==
  ASSUME Typed, Wired, NEW p \in Slot, NEW label, At(p, label), NEW g, Moves(p, g),
         g.hand = pc[p].hand, Place(p)',
         NEW q \in Slot, NEW t \in Table, pg_dir[q][t] = 0, task[q].state \in {"alive", "copied"},
         NEW f, f = get_free_page, f # 0, mem_map' = Taken(f), content' = Cleared(f),
         pg_dir' = [pg_dir EXCEPT ![q][t] = f], UNCHANGED <<task, pte>>
  PROVE  Typed' /\ Wired'
<1>1. Types /\ f \in Frame /\ mem_map[f] = 0
  BY FreePage DEF Typed
<1>2. /\ pg_dir' \in [Slot -> [Table -> 0..NFrames]]
      /\ \A r \in Slot, s \in Table :
           pg_dir'[r][s] = IF r = q /\ s = t THEN f ELSE pg_dir[r][s]
  <2>1. f \in 0..NFrames /\ pg_dir \in [Slot -> [Table -> 0..NFrames]]
    BY <1>1, Numbers DEF Types
  <2> QED BY <2>1, TableStored
<1>3. mem_map' \in [Frame -> Nat] /\ content' \in [Frame -> Value]
  BY <1>1, Numbers DEF Types, Taken, Cleared
<1>4. Types'
  BY <1>1, <1>2, <1>3 DEF Types, Moves
<1>5. ASSUME NEW r \in Slot PROVE Tables(r)' /\ Lives(r)'
  <2>1. Tables(r) /\ Lives(r)
    BY DEF Typed
  <2>2. \A s \in Table : pg_dir[r][s] # 0 => pg_dir'[r][s] # 0
    BY <1>2
  <2>3. Tables(r)'
    BY <2>1, <2>2, Numbers DEF Tables, Present
  <2>4. task[r].state \in {"free", "zombie"} => Empty(r)'
    BY <1>2, <2>1 DEF Lives, Empty, Present
  <2> QED BY <2>1, <2>3, <2>4 DEF Lives
<1>6. ASSUME NEW r \in Slot \ {p} PROVE Place(r)'
  BY OthersPlace DEF Undisturbed, Moves, Present
<1>7. Typed'
  BY <1>4, <1>5, <1>6 DEF Typed
<1>8. SamePages /\ SameTasks /\ SameHands
  BY DEF Moves, SamePages, SameTasks, SameHands
<1>9. Rewires(TableUser(q, t), f) /\ TableUser(q, t) \in User /\ Uses(TableUser(q, t)) = 0
  BY <1>2, <1>8, RewiresTable, UsesOf
<1>10. Counts' /\ Kinds'
  BY <1>1, <1>9, WireTaken DEF Wired
<1>11. \A v \in User : Uses(v) # f
  BY <1>1, FreeHasNoUser DEF Wired
<1>12. \A v \in User : Uses(v)' \in {Uses(v), 0, f}
  BY <1>9 DEF Rewires
<1>13. \A r \in Slot, b \in Page : pte[r][b].page # f
  BY <1>11, UsesOf
<1>14. Owned'
  BY <1>1, <1>12, <1>13, OwnedKept, Numbers DEF Wired
<1> QED BY <1>7, <1>10, <1>14 DEF Wired

\* The entry of q joins that of r, and both are write-protected.
LEMMA JoinStep ==
  ASSUME Typed, Wired, NEW p \in Slot, NEW label, At(p, label), NEW g, Moves(p, g),
         g.hand = pc[p].hand, Place(p)',
         NEW q \in Slot, NEW r \in Slot \ {q}, NEW a \in Page, NEW e \in Entry,
         q = p \/ task[q].state = "copied", task[q].state \in {"alive", "copied"},
         ~Present(q, a), Present(r, a), pg_dir[q][TableOf[a]] # 0,
         ~e.w, e.page = pte[r][a].page,
         Joined(q, r, a, e),
         mem_map' = [mem_map EXCEPT ![e.page] = @ + 1], UNCHANGED <<content, task, pg_dir>>
  PROVE  Typed' /\ Wired'
<1>1. Types /\ e.page \in Frame
  BY Numbers DEF Typed, Entry, Present
<1>2. mem_map' \in [Frame -> Nat]
  <2>1. PICK f \in Frame : f = e.page
    BY <1>1
  <2>2. mem_map' = [mem_map EXCEPT ![f] = mem_map[f] + 1]
    BY <2>1, Zenon
  <2>3. mem_map[f] + 1 \in Nat /\ mem_map \in [Frame -> Nat]
    BY <1>1, <2>1 DEF Types
  <2> QED BY <2>2, <2>3
<1>3. Types'
  BY <1>1, <1>2 DEF Types, Moves, Joined
<1>4. ASSUME NEW s \in Slot PROVE Tables(s)' /\ Lives(s)'
  <2>1. Tables(s) /\ Lives(s)
    BY DEF Typed
  <2>2. \A b \in Page : (b = a /\ s = q) \/ (Present(s, b)' <=> Present(s, b))
    BY DEF Present, Joined
  <2>3. Tables(s)'
    BY <1>1, <2>1, Numbers DEF Tables, Present, Joined
  <2>4. task[s].state \in {"free", "zombie"} => Empty(s)'
    BY <2>1, <2>2 DEF Lives, Empty, Present
  <2> QED BY <2>1, <2>3, <2>4 DEF Lives
<1>5. ASSUME NEW s \in Slot \ {p} PROVE Place(s)'
  <2>1. Undisturbed(s)
    BY DEF Undisturbed, Moves, Present, Joined
  <2> QED BY <2>1, OthersPlace
<1>6. Typed'
  BY <1>3, <1>4, <1>5 DEF Typed
<1>7. SameTables /\ SameTasks /\ SameHands
  BY DEF Moves, SameTables, SameTasks, SameHands
<1>8. \A s \in Slot, b \in Page :
         pte'[s][b].page = IF s = q /\ b = a THEN e.page ELSE pte[s][b].page
  BY DEF Joined
<1>9. Rewires(PageUser(q, a), e.page)
  BY <1>7, <1>8, RewiresPage
<1>10. /\ PageUser(q, a) \in User /\ Uses(PageUser(q, a)) = 0
       /\ PageUser(r, a) \in User /\ Uses(PageUser(r, a)) = e.page
  BY UsesOf DEF Present
<1>11. Shares(PageUser(q, a), PageUser(r, a))
  BY DEF Shares, PageUser
<1>12. Counts' /\ Kinds'
  BY <1>1, <1>9, <1>10, <1>11, WireJoined DEF Wired
<1>13. \A v \in User : Uses(v)' \in {Uses(v), 0, e.page}
  BY <1>9 DEF Rewires
<1>14. ASSUME NEW s \in Slot, NEW b \in Page, pte'[s][b].w
       PROVE  pte[s][b].w /\ pte'[s][b].page = pte[s][b].page /\ pte[s][b].page # e.page
  <2>1. pte'[s][b] = pte[s][b] /\ ~(s = r /\ b = a)
    BY <1>14 DEF Joined
  <2>2. PageUser(r, a) # PageUser(s, b)
    BY <2>1 DEF PageUser
  <2> QED BY <1>10, <1>14, <2>1, <2>2 DEF Wired, Owned
<1>15. Owned'
  BY <1>1, <1>13, <1>14, OwnedKept, Numbers DEF Wired
<1> QED BY <1>6, <1>12, <1>15 DEF Wired

-----------------------------------------------------------------------------
(* The end of a fault *)

\* Where a process is when its fault has been served.
LEMMA ServedPlace ==
  ASSUME Typed, NEW p \in Slot, pc[p].at \in {"no_page", "put_page", "wp_page"},
         Goto(p, Served(p)), task'[p] = task[p]
  PROVE  Moves(p, Served(p)) /\ Served(p).hand = 0 /\ Place(p)'
<1>1. Types /\ pc[p] \in Position /\ pc[p].a \in Page /\ task[p].state = "alive"
  BY DEF Typed, Types, Place
<1> DEFINE g == [pc[p] EXCEPT !.at = "store", !.hand = 0]
<1>2. g \in Position /\ g.at = "store" /\ g.hand = 0 /\ g.a = pc[p].a /\ g.ret = pc[p].ret
  BY <1>1, Numbers DEF Position, Label
<1> HIDE DEF g
<1>3. CASE pc[p].ret = "store"
  <2>1. Served(p) = g
    BY <1>3 DEF Served, g
  <2>2. Moves(p, g)
    BY <1>1, <1>2, <2>1, PcStored DEF Goto
  <2>3. Place(p)'
    BY <1>1, <1>2, <1>3, <2>2 DEF Place, Moves, Copies, Sleeps
  <2> QED BY <1>2, <2>1, <2>2, <2>3
<1>4. CASE pc[p].ret # "store"
  <2>1. Served(p) = AtUser
    BY <1>4 DEF Served
  <2>2. Moves(p, AtUser)
    BY <1>1, <2>1, PcStored, AbsentIsEntry DEF Goto
  <2>3. Place(p)'
    BY <2>2 DEF Place, Moves, AtUser, Copies, Sleeps
  <2> QED BY <2>1, <2>2, <2>3 DEF AtUser
<1> QED BY <1>3, <1>4

\* The last user gets the page, any other a copy of his own.
LEMMA UnWpPageStep ==
  ASSUME Typed, Wired, NEW p \in Slot, un_wp_page(p)
  PROVE  Typed' /\ Wired'
<1>1. Types /\ At(p, "wp_page") /\ UNCHANGED <<task, pg_dir>> /\ pc[p].at = "wp_page"
  BY DEF Typed, un_wp_page, At
<1>2. PICK a \in Page : a = pc[p].a /\ Present(p, a)
  BY <1>1 DEF Typed, Place
<1>3. PICK old \in Frame : old = pte[p][a].page
  BY <1>1, <1>2, Numbers DEF Types, Entry, Present
<1>4. pc[p].hand = 0 /\ PageUser(p, a) \in User /\ Uses(PageUser(p, a)) = old
  BY <1>1, <1>3, UsesOf DEF Typed, Place
<1>5. CASE mem_map[old] = 1
  <2>1. /\ pte' = [pte EXCEPT ![p][a].w = TRUE] /\ Goto(p, Served(p))
        /\ UNCHANGED <<mem_map, content>>
    BY <1>2, <1>3, <1>5 DEF un_wp_page
  <2>2. PICK e \in Entry : WriteBit(p, a, e)
    <3>1. pte \in [Slot -> [Page -> Entry]] /\ a \in Page
      BY <1>1, <1>2 DEF Types
    <3>2. pte' = [pte EXCEPT ![p][a].w = TRUE]
      BY <2>1
    <3> QED BY <3>1, <3>2, WriteBitStored, Zenon
  <2>3. /\ pte' \in [Slot -> [Page -> Entry]]
        /\ \A q \in Slot, b \in Page : pte'[q][b] = IF q = p /\ b = a THEN e ELSE pte[q][b]
    BY <1>1, <1>2, <2>2, EntryStored DEF Types, WriteBit
  <2>4. Moves(p, Served(p)) /\ Served(p).hand = 0 /\ Place(p)'
    BY <1>1, <2>1, ServedPlace
  <2>5. Quiet(p, Served(p))
    BY <1>1, <1>2, <1>4, <2>1, <2>2, <2>3, <2>4 DEF Quiet, Types, Present, WriteBit
  <2>6. \A v \in User : Uses(v) = old => v = PageUser(p, a)
    BY <1>3, <1>4, <1>5, LastUser DEF Wired
  <2>7. Typed'
    BY <1>1, <2>4, <2>5, QuietTyped
  <2>8. Wired'
    BY <1>2, <1>3, <2>3, <2>5, <2>6, QuietWired
  <2> QED BY <2>7, <2>8
<1>6. CASE mem_map[old] # 1 /\ get_free_page = 0
  <2>1. oom(p) /\ UNCHANGED <<mem_map, content, pte>>
    BY <1>2, <1>3, <1>6 DEF un_wp_page
  <2> QED BY <1>1, <1>4, <2>1, OomStep DEF tableVars
<1>7. CASE mem_map[old] # 1 /\ get_free_page # 0
  <2>1. PICK f \in Frame : f = get_free_page /\ mem_map[f] = 0
    BY <1>1, <1>7, FreePage
  <2> DEFINE e == [page |-> f, w |-> TRUE, dirty |-> FALSE]
  <2>2. /\ mem_map' = [mem_map EXCEPT ![f] = 1, ![old] = @ - 1]
        /\ content' = [content EXCEPT ![f] = content[old]]
        /\ pte' = [pte EXCEPT ![p][a] = e] /\ Goto(p, Served(p))
    BY <1>2, <1>3, <1>7, <2>1 DEF un_wp_page
  <2>3. e \in Entry /\ e.page = f /\ e.w
    BY <2>1, Numbers DEF Entry
  <2> HIDE DEF e
  <2>4. /\ pte' \in [Slot -> [Page -> Entry]]
        /\ \A q \in Slot, b \in Page : pte'[q][b] = IF q = p /\ b = a THEN e ELSE pte[q][b]
    BY <1>1, <1>2, <2>2, <2>3, EntryStored DEF Types
  <2>5. Moves(p, Served(p)) /\ Served(p).hand = 0 /\ Place(p)'
    BY <1>1, <2>2, ServedPlace
  <2>6. mem_map[old] \in Nat /\ mem_map[old] >= 1
    BY <1>3, <1>4, UsedIsCounted DEF Wired
  <2>7. Types'
    <3>1. mem_map' \in [Frame -> Nat]
      <4>1. mem_map[old] - 1 \in Nat
        BY <2>6
      <4> QED BY <1>1, <2>1, <2>2, <4>1 DEF Types
    <3>2. content' \in [Frame -> Value]
      BY <1>1, <1>3, <2>2 DEF Types
    <3> QED BY <1>1, <2>4, <2>5, <3>1, <3>2 DEF Types, Moves
  <2>8. ASSUME NEW q \in Slot PROVE Tables(q)' /\ Lives(q)'
    <3>1. Tables(q) /\ Lives(q)
      BY DEF Typed
    <3>2. \A b \in Page : Present(q, b)' <=> Present(q, b)
      BY <1>2, <2>1, <2>3, <2>4, Numbers DEF Present
    <3>3. Tables(q)'
      BY <1>1, <2>1, <2>3, <2>4, <3>1, <3>2, Numbers DEF Tables, Present
    <3> QED BY <1>1, <3>1, <3>2, <3>3 DEF Lives, Empty
  <2>9. ASSUME NEW q \in Slot \ {p} PROVE Place(q)'
    <3>1. Undisturbed(q)
      BY <1>1, <2>4, <2>5 DEF Undisturbed, Moves, Present
    <3> QED BY <1>1, <3>1, OthersPlace
  <2>10. Typed'
    BY <2>5, <2>7, <2>8, <2>9 DEF Typed
  <2>11. SameTables /\ SameTasks /\ SameHands
    BY <1>1, <1>4, <2>5 DEF Moves, SameTables, SameTasks, SameHands
  <2>12. Rewires(PageUser(p, a), f)
    <3>1. \A q \in Slot, b \in Page :
             pte'[q][b].page = IF q = p /\ b = a THEN f ELSE pte[q][b].page
      BY <2>3, <2>4
    <3> QED BY <2>11, <3>1, RewiresPage
  <2>13. Counts' /\ Kinds'
    BY <1>1, <1>3, <1>4, <2>1, <2>2, <2>12, WireCopied DEF Wired
  <2>14. \A v \in User : Uses(v) # f
    BY <2>1, FreeHasNoUser DEF Wired
  <2>15. \A v \in User : Uses(v)' = IF v = PageUser(p, a) THEN f ELSE Uses(v)
    BY <2>12 DEF Rewires
  <2>16. ASSUME NEW q \in Slot, NEW b \in Page, pte'[q][b].w
         PROVE  \/ pte[q][b].w /\ pte'[q][b].page = pte[q][b].page /\ pte[q][b].page # f
                \/ /\ pte'[q][b].page # 0
                   /\ \A v \in User : Uses(v)' = pte'[q][b].page => v = PageUser(q, b)
    <3>1. CASE q = p /\ b = a
      BY <2>1, <2>3, <2>4, <2>14, <2>15, <3>1, Numbers
    <3>2. CASE ~(q = p /\ b = a)
      <4>1. pte'[q][b] = pte[q][b]
        BY <2>4, <3>2
      <4>2. pte[q][b].page # f
        BY <2>14, UsesOf
      <4> QED BY <2>16, <4>1, <4>2
    <3> QED BY <3>1, <3>2
  <2>17. Owned'
    BY <2>1, <2>15, <2>16, OwnedKept, Numbers DEF Wired
  <2> QED BY <2>10, <2>13, <2>17 DEF Wired
<1> QED BY <1>5, <1>6, <1>7

\* A page is taken, to be filled and mapped.
LEMMA DoNoPageStep ==
  ASSUME Typed, Wired, NEW p \in Slot, do_no_page(p)
  PROVE  Typed' /\ Wired'
<1>1. /\ Types /\ At(p, "no_page") /\ UNCHANGED <<task, tableVars>> /\ pc[p].at = "no_page"
      /\ Place(p) /\ pc[p].hand = 0 /\ pc[p] \in Position
  BY DEF Typed, do_no_page, At, Place, Types
<1>2. CASE get_free_page = 0
  BY <1>1, <1>2, OomStep DEF do_no_page
<1>3. CASE get_free_page # 0
  <2>1. PICK f \in Frame : f = get_free_page /\ mem_map[f] = 0
    BY <1>1, <1>3, FreePage
  <2>2. PICK x \in {"load", "put_page"} : Goto(p, [pc[p] EXCEPT !.hand = f, !.at = x])
    BY <1>3, <2>1 DEF do_no_page
  <2> DEFINE g == [pc[p] EXCEPT !.hand = f, !.at = x]
  <2>3. /\ g \in Position /\ g.hand = f /\ g.at = x /\ g.a = pc[p].a /\ g.ret = pc[p].ret
    BY <1>1, <2>1, Numbers DEF Position, Label
  <2>4. Goto(p, g) /\ mem_map' = Taken(f) /\ content' = Cleared(f)
    BY <1>3, <2>1, <2>2 DEF do_no_page
  <2> HIDE DEF g
  <2>5. Moves(p, g)
    BY <1>1, <2>3, <2>4, PcStored DEF Goto
  <2>6. Place(p)'
    BY <1>1, <2>1, <2>2, <2>3, <2>5, Numbers DEF Place, Moves, Copies, Present, tableVars, Sleeps
  <2>7. mem_map' \in [Frame -> Nat] /\ content' \in [Frame -> Value]
    BY <1>1, <2>1, <2>4, Numbers DEF Types, Taken, Cleared
  <2>8. Types'
    BY <1>1, <2>5, <2>7 DEF Types, Moves, tableVars
  <2>9. ASSUME NEW q \in Slot PROVE Tables(q)' /\ Lives(q)'
    BY <1>1 DEF Typed, Tables, Lives, Empty, Present, tableVars
  <2>10. ASSUME NEW q \in Slot \ {p} PROVE Place(q)'
    <3>1. Undisturbed(q)
      BY <1>1, <2>5 DEF Undisturbed, Moves, Present, tableVars
    <3> QED BY <1>1, <3>1, OthersPlace
  <2>11. Typed'
    BY <2>6, <2>8, <2>9, <2>10 DEF Typed
  <2>12. SamePages /\ SameTables /\ SameTasks
    BY <1>1 DEF SamePages, SameTables, SameTasks, tableVars
  <2>13. Rewires(HandUser(p), f) /\ HandUser(p) \in User /\ Uses(HandUser(p)) = 0
    BY <1>1, <2>3, <2>5, <2>12, RewiresHand, UsesOf DEF Moves
  <2>14. Counts' /\ Kinds'
    BY <1>1, <2>1, <2>4, <2>13, WireTaken DEF Wired
  <2>15. \A v \in User : Uses(v) # f
    BY <2>1, FreeHasNoUser DEF Wired
  <2>16. \A r \in Slot, b \in Page : pte[r][b].page # f
    BY <2>15, UsesOf
  <2>17. \A v \in User : Uses(v)' \in {Uses(v), 0, f}
    BY <2>13 DEF Rewires
  <2>18. Owned'
    BY <1>1, <2>1, <2>16, <2>17, OwnedKept, Numbers DEF Wired, tableVars
  <2> QED BY <2>11, <2>14, <2>18 DEF Wired
<1> QED BY <1>2, <1>3

\* p goes on where it is.
LEMMA StaysAt ==
  ASSUME Typed, NEW p \in Slot, Goto(p, pc[p])
  PROVE  Moves(p, pc[p]) /\ pc' = pc
<1>1. Types /\ pc[p] \in Position
  BY DEF Typed, Types
<1> QED BY <1>1, PcStored DEF Goto, Continues, Types

\* The page goes into its entry, after a page table is found for it, or back.
LEMMA PutPageStep ==
  ASSUME Typed, Wired, NEW p \in Slot, put_page(p)
  PROVE  Typed' /\ Wired'
<1>1. /\ Types /\ At(p, "put_page") /\ task' = task /\ pc[p].at = "put_page"
      /\ Place(p) /\ pc[p] \in Position /\ task[p].state = "alive"
  BY DEF Typed, put_page, At, Place, Types
<1>2. PICK a \in Page : a = pc[p].a /\ ~Present(p, a)
  BY <1>1 DEF Place
<1>3. PICK f \in Frame : f = pc[p].hand
  BY <1>1, Numbers DEF Place, Position
<1>4. HandUser(p) \in User /\ Uses(HandUser(p)) = f
  BY <1>3, UsesOf
<1>5. CASE pg_dir[p][TableOf[a]] # 0
  <2> DEFINE e == [page |-> f, w |-> TRUE, dirty |-> FALSE]
  <2>1. pte' = [pte EXCEPT ![p][a] = e] /\ Goto(p, Served(p)) /\ UNCHANGED <<mem_map, content, pg_dir>>
    BY <1>2, <1>3, <1>5 DEF put_page
  <2>2. e \in Entry /\ e.page = f /\ e.w
    BY Numbers DEF Entry
  <2> HIDE DEF e
  <2>3. /\ pte' \in [Slot -> [Page -> Entry]]
        /\ \A q \in Slot, b \in Page : pte'[q][b] = IF q = p /\ b = a THEN e ELSE pte[q][b]
    BY <1>1, <1>2, <2>1, <2>2, EntryStored DEF Types
  <2>4. Moves(p, Served(p)) /\ Served(p).hand = 0 /\ Place(p)'
    BY <1>1, <2>1, ServedPlace
  <2>5. Types'
    BY <1>1, <2>1, <2>3, <2>4 DEF Types, Moves
  <2>6. ASSUME NEW q \in Slot PROVE Tables(q)' /\ Lives(q)'
    <3>1. Tables(q) /\ Lives(q)
      BY DEF Typed
    <3>2. Tables(q)'
      BY <1>3, <1>5, <2>1, <2>2, <2>3, <3>1, Numbers DEF Tables, Present
    <3>3. task[q].state \in {"free", "zombie"} => Empty(q)'
      BY <1>1, <2>1, <2>3, <3>1 DEF Lives, Empty, Present
    <3> QED BY <1>1, <3>1, <3>2, <3>3 DEF Lives
  <2>7. ASSUME NEW q \in Slot \ {p} PROVE Place(q)'
    <3>1. Undisturbed(q)
      BY <1>1, <2>3, <2>4 DEF Undisturbed, Moves, Present
    <3> QED BY <1>1, <3>1, OthersPlace
  <2>8. Typed'
    BY <2>4, <2>5, <2>6, <2>7 DEF Typed
  <2>9. SameTables /\ SameTasks
    BY <1>1, <2>1 DEF SameTables, SameTasks
  <2>10. \A v \in User : Uses(v)' = IF v = HandUser(p) THEN 0
                                    ELSE IF v = PageUser(p, a) THEN f ELSE Uses(v)
    <3>1. \A q \in Slot, b \in Page :
             pte'[q][b].page = IF q = p /\ b = a THEN f ELSE pte[q][b].page
      BY <2>2, <2>3
    <3>2. \A q \in Slot : pc'[q].hand = IF q = p THEN 0 ELSE pc[q].hand
      BY <2>4 DEF Moves
    <3> QED BY <2>9, <3>1, <3>2, RewiresMoved
  <2>11. /\ PageUser(p, a) \in User /\ Uses(PageUser(p, a)) = 0
         /\ HandUser(p)[1] = "hand" /\ HandUser(p) # PageUser(p, a)
    <3>1. PageUser(p, a) \in User /\ Uses(PageUser(p, a)) = 0
      BY <1>2, UsesOf DEF Present
    <3> QED BY <3>1 DEF PageUser, HandUser
  <2>12. Counts' /\ Kinds' /\ \A v \in User : Uses(v)' = f => v = PageUser(p, a)
    BY <1>1, <1>4, <2>1, <2>10, <2>11, WireMoved DEF Wired
  <2>13. ASSUME NEW q \in Slot, NEW b \in Page, pte'[q][b].w
         PROVE  \/ pte[q][b].w /\ pte'[q][b].page = pte[q][b].page /\ pte[q][b].page # f
                \/ /\ pte'[q][b].page # 0
                   /\ \A v \in User : Uses(v)' = pte'[q][b].page => v = PageUser(q, b)
    <3>1. CASE q = p /\ b = a
      BY <2>2, <2>3, <2>12, <3>1, Numbers
    <3>2. CASE ~(q = p /\ b = a)
      <4>1. pte'[q][b] = pte[q][b]
        BY <2>3, <3>2
      <4>2. PageUser(q, b) # HandUser(p)
        BY DEF PageUser, HandUser
      <4> QED BY <1>4, <2>13, <4>1, <4>2 DEF Wired, Owned
    <3> QED BY <3>1, <3>2
  <2>14. \A v \in User : Uses(v)' \in {Uses(v), 0, f}
    BY <2>10
  <2>15. Owned'
    BY <2>13, <2>14, OwnedKept, Numbers DEF Wired
  <2> QED BY <2>8, <2>12, <2>15 DEF Wired
<1>6. CASE pg_dir[p][TableOf[a]] = 0 /\ get_free_page = 0
  <2> DEFINE g == Releases(p, "exit")
  <2>1. /\ mem_map' = [mem_map EXCEPT ![f] = @ - 1] /\ Goto(p, g)
        /\ UNCHANGED <<content, tableVars>>
    BY <1>2, <1>3, <1>6 DEF put_page, oom
  <2>2. g \in Position /\ g.hand = 0 /\ g.at = "free" /\ g.ret = "exit"
    BY <1>1, Positions DEF Releases, AtUser
  <2> HIDE DEF g
  <2>3. Moves(p, g)
    BY <1>1, <2>1, <2>2, PcStored DEF Goto
  <2>4. Place(p)'
    BY <1>1, <2>2, <2>3 DEF Place, Moves, Copies, Sleeps
  <2>5. mem_map' \in [Frame -> Nat]
    <3>1. mem_map[f] \in Nat /\ mem_map[f] - 1 \in Nat
      BY <1>4, UsedIsCounted DEF Wired
    <3> QED BY <1>1, <2>1, <3>1 DEF Types
  <2>6. Types'
    BY <1>1, <2>1, <2>3, <2>5 DEF Types, Moves, tableVars
  <2>7. ASSUME NEW q \in Slot PROVE Tables(q)' /\ Lives(q)'
    BY <1>1, <2>1 DEF Typed, Tables, Lives, Empty, Present, tableVars
  <2>8. ASSUME NEW q \in Slot \ {p} PROVE Place(q)'
    <3>1. Undisturbed(q)
      BY <1>1, <2>1, <2>3 DEF Undisturbed, Moves, Present, tableVars
    <3> QED BY <1>1, <3>1, OthersPlace
  <2>9. Typed'
    BY <2>4, <2>6, <2>7, <2>8 DEF Typed
  <2>10. SamePages /\ SameTables /\ SameTasks
    BY <1>1, <2>1 DEF SamePages, SameTables, SameTasks, tableVars
  <2>11. Rewires(HandUser(p), 0)
    BY <2>2, <2>3, <2>10, RewiresHand DEF Moves
  <2>12. Counts' /\ Kinds'
    BY <1>1, <1>4, <2>1, <2>11, WireReleased DEF Wired
  <2>13. ASSUME NEW q \in Slot, NEW b \in Page, pte'[q][b].w
         PROVE  pte[q][b].w /\ pte'[q][b].page = pte[q][b].page /\ pte[q][b].page # 0
    BY <2>1, <2>13 DEF Wired, Owned, Present, tableVars
  <2>14. \A v \in User : Uses(v)' \in {Uses(v), 0}
    BY <2>11 DEF Rewires
  <2>15. Owned'
    BY <2>13, <2>14, OwnedKept, Numbers DEF Wired
  <2> QED BY <2>9, <2>12, <2>15 DEF Wired
<1>7. CASE pg_dir[p][TableOf[a]] = 0 /\ get_free_page # 0
  <2>1. PICK n : n = get_free_page
    OBVIOUS
  <2>2. /\ mem_map' = Taken(n) /\ content' = Cleared(n) /\ Goto(p, pc[p]) /\ UNCHANGED <<task, pte>>
        /\ pg_dir' = [pg_dir EXCEPT ![p][TableOf[a]] = n]
    BY <1>1, <1>2, <1>7, <2>1 DEF put_page
  <2>3. Moves(p, pc[p])
    BY <2>2, StaysAt
  <2>4. Place(p)'
    BY <1>1, <2>2, <2>3 DEF Place, Moves, Copies, Present, Sleeps
  <2>5. TableOf[a] \in Table
    BY Numbers
  <2> QED BY <1>1, <1>7, <2>1, <2>2, <2>3, <2>4, <2>5, GrowStep
<1> QED BY <1>5, <1>6, <1>7

\* share_page() finds another process that has the page.
LEMMA SharerFound ==
  ASSUME NEW p \in Slot, NEW a, Sharers(p, a) # {}
  PROVE  Max(Sharers(p, a)) \in Sharers(p, a) /\ Max(Sharers(p, a)) \in Slot \ {p}
<1>1. Sharers(p, a) \in SUBSET Slot /\ Sharers(p, a) \in SUBSET (Slot \ {p})
  BY DEF Sharers
<1>2. Sharers(p, a) \in SUBSET Nat /\ IsFiniteSet(Sharers(p, a))
  <2>1. IsFiniteSet(Slot) /\ Slot \in SUBSET Nat
    BY Numbers
  <2>2. IsFiniteSet(Sharers(p, a))
    BY <1>1, <2>1, FS_Subset, Zenon
  <2> QED BY <1>1, <2>1, <2>2
<1>3. Max(Sharers(p, a)) \in Sharers(p, a)
  BY <1>2, MaxIn, Zenon
<1> QED BY <1>1, <1>3

\* Both processes get the page, write-protected.
LEMMA SharePageStep ==
  ASSUME Typed, Wired, NEW p \in Slot, share_page(p)
  PROVE  Typed' /\ Wired'
<1>1. /\ Types /\ At(p, "no_page") /\ pc[p].at = "no_page" /\ Place(p) /\ pc[p].hand = 0
      /\ pc[p] \in Position /\ task[p].state = "alive"
  BY DEF Typed, share_page, At, Place, Types
<1>2. PICK a \in Page : a = pc[p].a /\ ~Present(p, a)
  BY <1>1 DEF Place
<1>3. PICK q \in Slot \ {p} : q = Max(Sharers(p, a)) /\ Present(q, a)
  <2>1. Sharers(p, a) # {}
    BY <1>2 DEF share_page, MayShare
  <2> QED BY <2>1, SharerFound DEF Sharers
<1>4. CASE pg_dir[p][TableOf[a]] = 0 /\ get_free_page = 0
  <2>1. oom(p) /\ UNCHANGED <<mem_map, content, task, tableVars>>
    BY <1>2, <1>4 DEF share_page
  <2> QED BY <1>1, <2>1, OomStep
<1>5. CASE pg_dir[p][TableOf[a]] = 0 /\ get_free_page # 0
  <2>1. PICK n : n = get_free_page
    OBVIOUS
  <2>2. /\ mem_map' = Taken(n) /\ content' = Cleared(n) /\ Goto(p, pc[p]) /\ UNCHANGED <<task, pte>>
        /\ pg_dir' = [pg_dir EXCEPT ![p][TableOf[a]] = n]
    BY <1>2, <1>5, <2>1 DEF share_page
  <2>3. Moves(p, pc[p])
    BY <2>2, StaysAt
  <2>4. Place(p)'
    BY <1>1, <2>2, <2>3 DEF Place, Moves, Copies, Present, Sleeps
  <2>5. TableOf[a] \in Table
    BY Numbers
  <2> QED BY <1>1, <1>5, <2>1, <2>2, <2>3, <2>4, <2>5, GrowStep
<1>6. CASE pg_dir[p][TableOf[a]] # 0
  <2> DEFINE e == [pte[q][a] EXCEPT !.w = FALSE]
  <2>1. /\ pte' = [pte EXCEPT ![q][a] = e, ![p][a] = e]
        /\ mem_map' = [mem_map EXCEPT ![e.page] = @ + 1]
        /\ Goto(p, Served(p)) /\ UNCHANGED <<content, task, pg_dir>>
    BY <1>2, <1>3, <1>6 DEF share_page
  <2>2. e \in Entry /\ ~e.w /\ e.page = pte[q][a].page
    <3>1. pte[q][a] \in Entry
      BY <1>1 DEF Types
    <3> QED BY <3>1 DEF Entry
  <2> HIDE DEF e
  <2>3. Joined(p, q, a, e)
    <3>1. pte \in [Slot -> [Page -> Entry]] /\ pte' = [pte EXCEPT ![q][a] = e, ![p][a] = e]
      BY <1>1, <2>1 DEF Types
    <3> QED BY <2>2, <3>1, EntriesStored, Zenon
  <2>4. Moves(p, Served(p)) /\ Served(p).hand = pc[p].hand /\ Place(p)'
    BY <1>1, <2>1, ServedPlace
  <2> QED BY <1>1, <1>2, <1>3, <1>6, <2>1, <2>2, <2>3, <2>4, JoinStep
<1> QED BY <1>4, <1>5, <1>6

-----------------------------------------------------------------------------
(* fork() *)

\* The slot fork() takes is free.
LEMMA FreeSlot ==
  ASSUME {d \in Slot : task[d].state = "free"} # {}
  PROVE  \E c \in Slot : c = Min({d \in Slot : task[d].state = "free"}) /\ task[c].state = "free"
<1> DEFINE S == {d \in Slot : task[d].state = "free"}
<1>1. S \in SUBSET Slot /\ S # {}
  OBVIOUS
<1>2. IsFiniteSet(Slot) /\ Slot \in SUBSET Nat
  BY Numbers
<1>3. IsFiniteSet(S) /\ S \in SUBSET Nat
  BY <1>1, <1>2, FS_Subset, Zenon
<1>4. Min(S) \in S
  BY <1>1, <1>3, MinIn, Zenon
<1> QED BY <1>4

\* fork() takes a page for the task structure and a slot for the child.
LEMMA ForkStep ==
  ASSUME Typed, Wired, NEW p \in Slot, fork(p)
  PROVE  Typed' /\ Wired'
<1>1. /\ Types /\ At(p, "user") /\ pc[p] = AtUser /\ task[p].state = "alive"
  BY DEF Typed, fork, At, Place
<1>2. PICK f \in Frame : f = get_free_page /\ mem_map[f] = 0
  BY <1>1, FreePage DEF fork
<1>3. PICK c \in Slot : c = Min({d \in Slot : task[d].state = "free"}) /\ task[c].state = "free"
  BY FreeSlot DEF fork
<1>4. c # p /\ task[c].page = 0 /\ Empty(c)
  BY <1>1, <1>3 DEF Typed, Lives
<1> DEFINE g == [AtUser EXCEPT !.at = "copy", !.a = 1, !.child = c]
           d == [state |-> "copied", page |-> f, exe |-> task[p].exe]
<1>5. /\ mem_map' = Taken(f) /\ content' = Cleared(f) /\ task' = [task EXCEPT ![c] = d]
      /\ Goto(p, g) /\ UNCHANGED tableVars
  BY <1>2, <1>3, <1>4 DEF fork, Empty
<1>6. g \in Position /\ g.at = "copy" /\ g.hand = 0 /\ g.a = 1 /\ g.child = c
  <2>1. AtUser \in Position /\ 1 \in 0..NPages + 1
    BY AbsentIsEntry, Numbers
  <2> QED BY <2>1 DEF Position, Label, AtUser
<1>7. d \in Task /\ d.state = "copied" /\ d.page = f
  <2>1. task[p] \in Task
    BY <1>1 DEF Types
  <2> QED BY <2>1, Numbers DEF Task
<1> HIDE DEF g, d
<1>8. Moves(p, g)
  BY <1>1, <1>5, <1>6, PcStored DEF Goto
<1>9. task' \in [Slot -> Task] /\ \A q \in Slot : task'[q] = IF q = c THEN d ELSE task[q]
  BY <1>1, <1>5, <1>7 DEF Types
<1>10. Place(p)'
  BY <1>1, <1>4, <1>5, <1>6, <1>7, <1>8, <1>9
     DEF Place, Moves, Copies, Sleeps, Empty, Present, tableVars
<1>11. mem_map' \in [Frame -> Nat] /\ content' \in [Frame -> Value]
  BY <1>1, <1>2, <1>5, Numbers DEF Types, Taken, Cleared
<1>12. Types'
  BY <1>1, <1>5, <1>8, <1>9, <1>11 DEF Types, Moves, tableVars
<1>13. ASSUME NEW q \in Slot PROVE Tables(q)' /\ Lives(q)'
  <2>1. Tables(q) /\ Lives(q)
    BY DEF Typed
  <2>2. (Empty(q)' <=> Empty(q)) /\ Tables(q)'
    BY <1>5, <2>1 DEF Empty, Tables, Present, tableVars
  <2> QED BY <1>2, <1>7, <1>9, <2>1, <2>2, Numbers DEF Lives
<1>14. ASSUME NEW q \in Slot \ {p} PROVE Place(q)'
  <2>1. Undisturbed(q)
    BY <1>3, <1>5, <1>8, <1>9 DEF Undisturbed, Moves, Present, tableVars
  <2> QED BY <1>1, <2>1, OthersPlace
<1>15. Typed'
  BY <1>10, <1>12, <1>13, <1>14 DEF Typed
<1>16. SamePages /\ SameTables /\ SameHands
  BY <1>1, <1>5, <1>6, <1>8 DEF SamePages, SameTables, SameHands, Moves, tableVars, AtUser
<1>17. Rewires(TaskUser(c), f) /\ TaskUser(c) \in User /\ Uses(TaskUser(c)) = 0
  <2>1. \A q \in Slot : task'[q].page = IF q = c THEN f ELSE task[q].page
    BY <1>7, <1>9
  <2> QED BY <1>4, <1>16, <2>1, RewiresTask, UsesOf
<1>18. Counts' /\ Kinds'
  BY <1>1, <1>2, <1>5, <1>17, WireTaken DEF Wired
<1>19. \A v \in User : Uses(v) # f
  BY <1>2, FreeHasNoUser DEF Wired
<1>20. \A r \in Slot, b \in Page : pte[r][b].page # f
  BY <1>19, UsesOf
<1>21. \A v \in User : Uses(v)' \in {Uses(v), 0, f}
  BY <1>17 DEF Rewires
<1>22. Owned'
  BY <1>2, <1>5, <1>20, <1>21, OwnedKept, Numbers DEF Wired, tableVars
<1> QED BY <1>15, <1>18, <1>22 DEF Wired

\* copy_page_tables() goes on by a page table, by a page for both, or not at all.
LEMMA CopyPageTablesStep ==
  ASSUME Typed, Wired, NEW p \in Slot, copy_page_tables(p)
  PROVE  Typed' /\ Wired'
<1>1. /\ Types /\ At(p, "copy") /\ pc[p].at = "copy" /\ pc[p] \in Position /\ Place(p)
      /\ pc[p].hand = 0 /\ task[p].state = "alive" /\ task' = task
  BY DEF Typed, copy_page_tables, At, Place, Types
<1>2. PICK a \in Page : a = pc[p].a
  BY DEF copy_page_tables
<1>3. PICK c \in Slot \ {p} : c = pc[p].child /\ task[c].state = "copied" /\ ~Present(c, a)
  <2>1. a \in Nat /\ a >= a
    BY <1>2, Numbers
  <2> QED BY <1>1, <1>2, <2>1 DEF Place, Copies
<1>4. PICK t \in Table : t = TableOf[a]
  BY <1>2, Numbers
<1> DEFINE next == [pc[p] EXCEPT !.a = a + 1]
<1>5. /\ next \in Position /\ next.at = "copy" /\ next.hand = 0 /\ next.a = a + 1
      /\ next.child = c
  BY <1>1, <1>2, <1>3, Numbers DEF Position
<1> HIDE DEF next
<1>6. CASE pg_dir[p][t] # 0 /\ pg_dir[c][t] = 0 /\ get_free_page = 0
  <2> DEFINE g == Releases(p, "fork_failed")
  <2>1. Goto(p, g) /\ UNCHANGED <<mem_map, content, tableVars>>
    BY <1>2, <1>3, <1>4, <1>6 DEF copy_page_tables
  <2>2. g \in Position /\ g.hand = 0 /\ g.at = "free" /\ g.ret = "fork_failed" /\ g.child = c
    BY <1>1, <1>3, Positions DEF Releases, AtUser
  <2> HIDE DEF g
  <2>3. Moves(p, g)
    BY <1>1, <2>1, <2>2, PcStored DEF Goto
  <2>4. Place(p)'
    BY <1>1, <1>3, <2>2, <2>3 DEF Place, Moves, Copies, Sleeps
  <2>5. content' \in [Frame -> Value]
    BY <1>1, <2>1 DEF Types
  <2> QED BY <1>1, <2>1, <2>2, <2>4, <2>5, MoveStep
<1>7. CASE pg_dir[p][t] # 0 /\ pg_dir[c][t] = 0 /\ get_free_page # 0
  <2>1. PICK n : n = get_free_page
    OBVIOUS
  <2>2. /\ mem_map' = Taken(n) /\ content' = Cleared(n) /\ Goto(p, pc[p]) /\ UNCHANGED <<task, pte>>
        /\ pg_dir' = [pg_dir EXCEPT ![c][t] = n]
    BY <1>2, <1>3, <1>4, <1>7, <2>1 DEF copy_page_tables
  <2>3. Moves(p, pc[p])
    BY <2>2, StaysAt
  <2>4. Place(p)'
    BY <1>1, <2>2, <2>3 DEF Place, Moves, Copies, Present, Sleeps
  <2> QED BY <1>1, <1>3, <1>7, <2>1, <2>2, <2>3, <2>4, GrowStep
<1>8. CASE ~(pg_dir[p][t] # 0 /\ pg_dir[c][t] = 0) /\ Present(p, a)
  <2> DEFINE e == [pte[p][a] EXCEPT !.w = FALSE]
  <2>1. /\ pte' = [pte EXCEPT ![p][a] = e, ![c][a] = e]
        /\ mem_map' = [mem_map EXCEPT ![e.page] = @ + 1]
        /\ Goto(p, next) /\ UNCHANGED <<content, pg_dir>>
    BY <1>2, <1>3, <1>4, <1>8 DEF copy_page_tables, Both, next
  <2>2. e \in Entry /\ ~e.w /\ e.page = pte[p][a].page
    <3>1. pte[p][a] \in Entry
      BY <1>1 DEF Types
    <3> QED BY <3>1 DEF Entry
  <2> HIDE DEF e
  <2>3. p \in Slot \ {c} /\ c \in Slot /\ Joined(c, p, a, e)
    <3>1. pte \in [Slot -> [Page -> Entry]] /\ pte' = [pte EXCEPT ![p][a] = e, ![c][a] = e]
      BY <1>1, <2>1 DEF Types
    <3>2. p \in Slot \ {c} /\ c \in Slot
      BY <1>3
    <3> QED BY <2>2, <3>1, <3>2, EntriesStored, Zenon
  <2>4. Moves(p, next)
    BY <1>1, <1>5, <2>1, PcStored DEF Goto
  <2>5. \A b \in Page : b >= a + 1 => b >= a /\ b # a
    BY <1>2, Numbers
  <2>6. Place(p)'
    BY <1>1, <1>2, <1>3, <1>5, <2>3, <2>4, <2>5, Numbers
       DEF Place, Moves, Copies, Present, Sleeps, Joined
  <2>7. pg_dir[c][TableOf[a]] # 0
    BY <1>2, <1>4, <1>8 DEF Typed, Tables
  <2> QED BY <1>1, <1>3, <1>5, <1>8, <2>1, <2>2, <2>3, <2>4, <2>6, <2>7, JoinStep
<1>9. CASE ~(pg_dir[p][t] # 0 /\ pg_dir[c][t] = 0) /\ ~Present(p, a)
  <2>1. Goto(p, next) /\ UNCHANGED <<mem_map, content, tableVars>>
    BY <1>2, <1>3, <1>4, <1>9 DEF copy_page_tables, next
  <2>2. Moves(p, next)
    BY <1>1, <1>5, <2>1, PcStored DEF Goto
  <2>3. \A b \in Page : b >= a + 1 => b >= a
    BY <1>2, Numbers
  <2>4. Place(p)'
    BY <1>1, <1>2, <1>3, <1>5, <2>1, <2>2, <2>3, Numbers
       DEF Place, Moves, Copies, Present, Sleeps, tableVars
  <2>5. content' \in [Frame -> Value]
    BY <1>1, <2>1 DEF Types
  <2> QED BY <1>1, <1>5, <2>1, <2>4, <2>5, MoveStep
<1> QED BY <1>6, <1>7, <1>8, <1>9

\* The child has its copy.
LEMMA ForkEndsStep ==
  ASSUME Typed, Wired, NEW p \in Slot, fork_ends(p)
  PROVE  Typed' /\ Wired'
<1>1. /\ Types /\ At(p, "copy") /\ pc[p].at = "copy" /\ Place(p) /\ pc[p].hand = 0
      /\ task[p].state = "alive"
  BY DEF Typed, fork_ends, At, Place
<1>2. PICK c \in Slot \ {p} : c = pc[p].child /\ task[c].state = "copied"
  BY <1>1 DEF Place, Copies
<1>3. PICK d : d = [task[c] EXCEPT !.state = "alive"]
  OBVIOUS
<1>4. d \in Task /\ d.state = "alive" /\ d.page = task[c].page
  <2>1. task[c] \in Task
    BY <1>1 DEF Types
  <2> QED BY <1>3, <2>1 DEF Task
<1>5. /\ task' = [task EXCEPT ![c] = d] /\ Goto(p, AtUser)
      /\ UNCHANGED <<mem_map, content, tableVars>>
  <2>1. task' = [task EXCEPT ![pc[p].child].state = "alive"]
    BY DEF fork_ends
  <2>2. task' = [task EXCEPT ![c] = [task[c] EXCEPT !.state = "alive"]]
    BY <1>2, <2>1, Zenon
  <2> QED BY <1>3, <2>2 DEF fork_ends
<1>6. Moves(p, AtUser)
  BY <1>1, <1>5, PcStored, AbsentIsEntry DEF Goto
<1>7. task' \in [Slot -> Task] /\ \A q \in Slot : task'[q] = IF q = c THEN d ELSE task[q]
  BY <1>1, <1>4, <1>5 DEF Types
<1>8. Types'
  BY <1>1, <1>5, <1>6, <1>7 DEF Types, Moves, tableVars
<1>9. ASSUME NEW q \in Slot PROVE Tables(q)' /\ Lives(q)'
  <2>1. Tables(q) /\ Lives(q)
    BY DEF Typed
  <2>2. Tables(q)' /\ (Empty(q)' <=> Empty(q))
    BY <1>5, <2>1 DEF Tables, Empty, Present, tableVars
  <2> QED BY <1>2, <1>4, <1>7, <2>1, <2>2 DEF Lives
<1>10. ASSUME NEW q \in Slot \ {p} PROVE Place(q)'
  <2>1. Undisturbed(q)
    BY <1>4, <1>5, <1>6, <1>7 DEF Undisturbed, Moves, Present, tableVars
  <2> QED BY <1>1, <2>1, OthersPlace
<1>11. Place(p)'
  BY <1>6 DEF Place, Moves, AtUser, Copies, Sleeps
<1>12. Typed'
  BY <1>8, <1>9, <1>10, <1>11 DEF Typed
<1>13. SamePages /\ SameTables /\ SameTasks /\ SameHands
  BY <1>1, <1>4, <1>5, <1>6, <1>7
     DEF SamePages, SameTables, SameTasks, SameHands, Moves, tableVars, AtUser
<1>14. \A v \in User : Uses(v)' = Uses(v)
  BY <1>13, RewiresNone
<1>15. Counts' /\ Kinds'
  BY <1>5, <1>14, WireSame DEF Wired
<1>16. Owned'
  <2>1. ASSUME NEW q \in Slot, NEW b \in Page, pte'[q][b].w
        PROVE  pte[q][b].w /\ pte'[q][b].page = pte[q][b].page /\ pte[q][b].page # 0
    BY <1>5, <2>1 DEF Wired, Owned, Present, tableVars
  <2> QED BY <1>14, <2>1, OwnedKept, Numbers DEF Wired
<1> QED BY <1>12, <1>15, <1>16 DEF Wired

-----------------------------------------------------------------------------
(* The release of memory *)

\* A user lets its frame go: what is left is wired as before.
LEMMA ReleaseWired ==
  ASSUME Types, Wired, NEW u \in User, NEW f \in Frame, Uses(u) = f,
         mem_map' = [mem_map EXCEPT ![f] = @ - 1], Rewires(u, 0),
         \A q \in Slot, b \in Page : pte'[q][b] = pte[q][b] \/ ~pte'[q][b].w
  PROVE  mem_map[f] # 0 /\ mem_map' \in [Frame -> Nat] /\ Wired'
<1>1. mem_map[f] \in Nat /\ mem_map[f] # 0 /\ mem_map[f] - 1 \in Nat
  BY UsedIsCounted DEF Wired
<1>2. mem_map' \in [Frame -> Nat]
  BY <1>1 DEF Types
<1>3. Counts' /\ Kinds'
  BY WireReleased DEF Wired
<1>4. ASSUME NEW q \in Slot, NEW b \in Page, pte'[q][b].w
      PROVE  pte[q][b].w /\ pte'[q][b].page = pte[q][b].page /\ pte[q][b].page # 0
  <2>1. pte'[q][b] = pte[q][b]
    BY <1>4
  <2> QED BY <1>4, <2>1 DEF Wired, Owned, Present
<1>5. \A v \in User : Uses(v)' \in {Uses(v), 0}
  BY DEF Rewires
<1>6. Owned'
  BY <1>4, <1>5, OwnedKept, Numbers DEF Wired
<1> QED BY <1>1, <1>2, <1>3, <1>6 DEF Wired

\* The process whose memory is released.
LEMMA ReleasedSlot ==
  ASSUME Typed, NEW p \in Slot, pc[p].at = "free"
  PROVE  /\ Released(p) \in Slot
         /\ pc[p].ret # "fork_failed" => Released(p) = p
         /\ pc[p].ret = "fork_failed" => /\ Released(p) = pc[p].child /\ Released(p) # p
                                         /\ task[Released(p)].state = "copied"
BY DEF Typed, Place, Copies, Released

\* free_page_tables() frees a page, or when there is none a page table.
LEMMA FreePageTablesStep ==
  ASSUME Typed, Wired, NEW p \in Slot, free_page_tables(p)
  PROVE  Typed' /\ Wired'
<1>1. /\ Types /\ At(p, "free") /\ pc[p].at = "free" /\ Place(p) /\ pc[p] \in Position
      /\ task[p].state = "alive"
  BY DEF Typed, free_page_tables, At, Place, Types
<1>2. PICK q \in Slot : /\ q = Released(p)
                        /\ q = p \/ (task[q].state = "copied" /\ q # p)
  BY <1>1, ReleasedSlot
<1>3. CASE PagesOf(q) # {}
  <2>1. PICK a \in Page : a = Min(PagesOf(q)) /\ Present(q, a)
    <3>1. PagesOf(q) \in SUBSET Page /\ Page \in SUBSET Nat /\ IsFiniteSet(Page)
      <4>1. PagesOf(q) \in SUBSET Page
        BY DEF PagesOf
      <4>2. Page \in SUBSET Nat
        BY DEF Page
      <4>3. IsFiniteSet(Page)
        BY FS_Interval, MemoryAssumption DEF Page
      <4> QED BY <4>1, <4>2, <4>3
    <3>2. PagesOf(q) \in SUBSET Nat /\ IsFiniteSet(PagesOf(q))
      <4>1. IsFiniteSet(PagesOf(q))
        BY <3>1, FS_Subset, Zenon
      <4> QED BY <3>1, <4>1
    <3>3. Min(PagesOf(q)) \in PagesOf(q)
      BY <1>3, <3>2, MinIn, Zenon
    <3> QED BY <3>3 DEF PagesOf
  <2>2. PICK f \in Frame : f = pte[q][a].page
    BY <1>1, <2>1, Numbers DEF Present, Types, Entry
  <2>3. PageUser(q, a) \in User /\ Uses(PageUser(q, a)) = f
    BY <2>2, UsesOf
  <2>4. mem_map[f] # 0
    BY <2>2, <2>3, UsedIsCounted DEF Wired
  <2>5. /\ mem_map' = [mem_map EXCEPT ![f] = @ - 1] /\ pte' = [pte EXCEPT ![q][a] = Absent]
        /\ UNCHANGED pg_dir /\ Goto(p, pc[p]) /\ UNCHANGED <<content, task>>
    BY <1>2, <1>3, <2>1, <2>2, <2>4 DEF free_page_tables
  <2>6. /\ pte' \in [Slot -> [Page -> Entry]]
        /\ \A r \in Slot, b \in Page : pte'[r][b] = IF r = q /\ b = a THEN Absent ELSE pte[r][b]
    BY <1>1, <2>5, EntryStored, AbsentIsEntry DEF Types
  <2>7. Absent.page = 0 /\ ~Absent.w
    BY DEF Absent
  <2>8. Moves(p, pc[p])
    BY <2>5, StaysAt
  <2>9. SameTables /\ SameTasks /\ SameHands
    BY <2>5, <2>8 DEF SameTables, SameTasks, SameHands, Moves
  <2>10. Rewires(PageUser(q, a), 0)
    <3>1. \A r \in Slot, b \in Page :
             pte'[r][b].page = IF r = q /\ b = a THEN 0 ELSE pte[r][b].page
      BY <2>6, <2>7
    <3> QED BY <2>9, <3>1, RewiresPage
  <2>11. mem_map' \in [Frame -> Nat] /\ Wired'
    <3>1. \A r \in Slot, b \in Page : pte'[r][b] = pte[r][b] \/ ~pte'[r][b].w
      BY <2>6, <2>7
    <3> QED BY <1>1, <2>3, <2>5, <2>10, <3>1, ReleaseWired
  <2>12. Types'
    BY <1>1, <2>5, <2>6, <2>8, <2>11 DEF Types, Moves
  <2>13. ASSUME NEW r \in Slot PROVE Tables(r)' /\ Lives(r)'
    <3>1. Tables(r) /\ Lives(r)
      BY DEF Typed
    <3>2. Tables(r)' /\ (Empty(r) => Empty(r)')
      BY <2>5, <2>6, <2>7, <3>1 DEF Tables, Present, Empty
    <3> QED BY <2>5, <3>1, <3>2 DEF Lives
  <2>14. Place(p)'
    BY <1>1, <2>5, <2>8 DEF Place, Moves, Copies, Sleeps
  <2>15. ASSUME NEW r \in Slot \ {p} PROVE Place(r)'
    <3>1. Undisturbed(r)
      BY <1>2, <2>5, <2>6, <2>8 DEF Undisturbed, Moves, Present
    <3> QED BY <1>1, <3>1, OthersPlace
  <2> QED BY <2>11, <2>12, <2>13, <2>14, <2>15 DEF Typed
<1>4. CASE PagesOf(q) = {}
  <2>1. PICK t \in Table : t = Min(TablesOf(q)) /\ pg_dir[q][t] # 0
    <3>1. TablesOf(q) \in SUBSET Table /\ Table \in SUBSET Nat /\ IsFiniteSet(Table)
      <4>1. TablesOf(q) \in SUBSET Table
        BY DEF TablesOf
      <4>2. Table \in SUBSET Nat
        BY DEF Table
      <4>3. IsFiniteSet(Table)
        BY FS_Interval, MemoryAssumption DEF Table
      <4> QED BY <4>1, <4>2, <4>3
    <3>2. TablesOf(q) \in SUBSET Nat /\ IsFiniteSet(TablesOf(q))
      <4>1. IsFiniteSet(TablesOf(q))
        BY <3>1, FS_Subset, Zenon
      <4> QED BY <3>1, <4>1
    <3>3. TablesOf(q) # {}
      BY <1>2, <1>4 DEF free_page_tables
    <3>4. Min(TablesOf(q)) \in TablesOf(q)
      BY <3>2, <3>3, MinIn, Zenon
    <3> QED BY <3>4 DEF TablesOf
  <2>2. PICK f \in Frame : f = pg_dir[q][t]
    BY <1>1, <2>1, Numbers DEF Types
  <2>3. TableUser(q, t) \in User /\ Uses(TableUser(q, t)) = f
    BY <2>2, UsesOf
  <2>4. mem_map[f] # 0
    BY <2>2, <2>3, UsedIsCounted DEF Wired
  <2>5. /\ mem_map' = [mem_map EXCEPT ![f] = @ - 1] /\ pg_dir' = [pg_dir EXCEPT ![q][t] = 0]
        /\ UNCHANGED pte /\ Goto(p, pc[p]) /\ UNCHANGED <<content, task>>
    BY <1>2, <1>4, <2>1, <2>2, <2>4 DEF free_page_tables
  <2>6. /\ pg_dir' \in [Slot -> [Table -> 0..NFrames]]
        /\ \A r \in Slot, s \in Table : pg_dir'[r][s] = IF r = q /\ s = t THEN 0 ELSE pg_dir[r][s]
    <3>1. 0 \in 0..NFrames /\ pg_dir \in [Slot -> [Table -> 0..NFrames]]
      BY <1>1, Numbers DEF Types
    <3> QED BY <2>5, <3>1, TableStored
  <2>7. Moves(p, pc[p])
    BY <2>5, StaysAt
  <2>8. SamePages /\ SameTasks /\ SameHands
    BY <2>5, <2>7 DEF SamePages, SameTasks, SameHands, Moves
  <2>9. Rewires(TableUser(q, t), 0)
    BY <2>6, <2>8, RewiresTable
  <2>10. mem_map' \in [Frame -> Nat] /\ Wired'
    BY <1>1, <2>3, <2>5, <2>9, ReleaseWired
  <2>11. Types'
    BY <1>1, <2>5, <2>6, <2>7, <2>10 DEF Types, Moves
  <2>12. ASSUME NEW r \in Slot PROVE Tables(r)' /\ Lives(r)'
    <3>1. Tables(r) /\ Lives(r)
      BY DEF Typed
    <3>2. Tables(r)' /\ (Empty(r) => Empty(r)')
      BY <1>4, <2>5, <2>6, <3>1, Numbers DEF Tables, Present, Empty, PagesOf
    <3> QED BY <2>5, <3>1, <3>2 DEF Lives
  <2>13. Place(p)'
    BY <1>1, <2>5, <2>7 DEF Place, Moves, Copies, Sleeps
  <2>14. ASSUME NEW r \in Slot \ {p} PROVE Place(r)'
    <3>1. Undisturbed(r)
      BY <1>2, <2>5, <2>7 DEF Undisturbed, Moves, Present
    <3> QED BY <1>1, <3>1, OthersPlace
  <2> QED BY <2>10, <2>11, <2>12, <2>13, <2>14 DEF Typed
<1> QED BY <1>3, <1>4

\* The task structure of q is released.
LEMMA TaskReleased ==
  ASSUME Types, Wired, NEW q \in Slot, NEW f \in Frame, f = task[q].page,
         mem_map' = [mem_map EXCEPT ![f] = @ - 1], task' = [task EXCEPT ![q] = NoTask],
         UNCHANGED tableVars, SameHands
  PROVE  /\ mem_map' \in [Frame -> Nat] /\ Wired'
         /\ task' \in [Slot -> Task]
         /\ \A r \in Slot : task'[r] = IF r = q THEN NoTask ELSE task[r]
<1>1. /\ task' \in [Slot -> Task]
      /\ \A r \in Slot : task'[r] = IF r = q THEN NoTask ELSE task[r]
  BY AbsentIsEntry DEF Types
<1>2. SamePages /\ SameTables
  BY DEF SamePages, SameTables, tableVars
<1>3. Rewires(TaskUser(q), 0)
  <2>1. \A r \in Slot : task'[r].page = IF r = q THEN 0 ELSE task[r].page
    BY <1>1 DEF NoTask
  <2> QED BY <1>2, <2>1, RewiresTask
<1>4. TaskUser(q) \in User /\ Uses(TaskUser(q)) = f
  BY UsesOf
<1>5. mem_map' \in [Frame -> Nat] /\ Wired'
  <2>1. \A r \in Slot, b \in Page : pte'[r][b] = pte[r][b] \/ ~pte'[r][b].w
    BY DEF tableVars
  <2> QED BY <1>3, <1>4, <2>1, ReleaseWired
<1> QED BY <1>1, <1>5

\* The end of the release: the process is a zombie, or runs its new program,
\* or its child is gone.
LEMMA FreeEndsStep ==
  ASSUME Typed, Wired, NEW p \in Slot, free_ends(p)
  PROVE  Typed' /\ Wired'
<1>1. /\ Types /\ At(p, "free") /\ pc[p].at = "free" /\ Place(p) /\ pc[p] \in Position
      /\ task[p].state = "alive" /\ pc[p].hand = 0
  BY DEF Typed, free_ends, At, Place, Types
<1>2. PICK q \in Slot : /\ q = Released(p)
                        /\ pc[p].ret # "fork_failed" => q = p
                        /\ pc[p].ret = "fork_failed" => q # p /\ task[q].state = "copied"
  BY <1>1, ReleasedSlot
<1>3. Empty(q)
  <2>1. PagesOf(q) = {} /\ TablesOf(q) = {}
    BY <1>2 DEF free_ends
  <2> QED BY <2>1 DEF Empty, PagesOf, TablesOf
<1>4. Goto(p, AtUser) /\ UNCHANGED <<content, tableVars>>
  BY DEF free_ends
<1>5. Moves(p, AtUser)
  BY <1>1, <1>4, PcStored, AbsentIsEntry DEF Goto
<1>6. Place(p)'
  BY <1>5 DEF Place, Moves, AtUser, Copies, Sleeps
<1>7. ASSUME NEW r \in Slot PROVE Tables(r)' /\ (Empty(r)' <=> Empty(r)) /\ Lives(r)
  BY <1>4 DEF Typed, Tables, Empty, Present, tableVars
<1>8. SamePages /\ SameTables /\ SameHands
  BY <1>1, <1>4, <1>5 DEF SamePages, SameTables, SameHands, Moves, tableVars, AtUser
<1>9. CASE pc[p].ret = "exit"
  <2>1. PICK d : d = [task[p] EXCEPT !.state = "zombie", !.exe = FALSE]
    OBVIOUS
  <2>2. d \in Task /\ d.state = "zombie" /\ d.page = task[p].page
    <3>1. task[p] \in Task
      BY <1>1 DEF Types
    <3> QED BY <2>1, <3>1 DEF Task
  <2>3. task' = [task EXCEPT ![p] = d] /\ UNCHANGED mem_map
    <3>1. /\ task' = [task EXCEPT ![p].state = "zombie", ![p].exe = FALSE]
          /\ UNCHANGED mem_map
      BY <1>9 DEF free_ends
    <3>2. task' = [task EXCEPT ![p] = [task[p] EXCEPT !.state = "zombie", !.exe = FALSE]]
      BY <1>1, <3>1 DEF Types
    <3> QED BY <2>1, <3>1, <3>2
  <2>4. task' \in [Slot -> Task] /\ \A r \in Slot : task'[r] = IF r = p THEN d ELSE task[r]
    BY <1>1, <2>2, <2>3 DEF Types
  <2>5. Types'
    BY <1>1, <1>4, <1>5, <2>3, <2>4 DEF Types, Moves, tableVars
  <2>6. ASSUME NEW r \in Slot PROVE Lives(r)'
    BY <1>1, <1>2, <1>3, <1>7, <1>9, <2>2, <2>4 DEF Lives
  <2>7. ASSUME NEW r \in Slot \ {p} PROVE Place(r)'
    <3>1. Undisturbed(r)
      BY <1>4, <1>5, <2>4 DEF Undisturbed, Moves, Present, tableVars
    <3> QED BY <1>1, <3>1, OthersPlace
  <2>8. SameTasks
    BY <2>2, <2>4 DEF SameTasks
  <2>9. \A v \in User : Uses(v)' = Uses(v)
    BY <1>8, <2>8, RewiresNone
  <2>10. Counts' /\ Kinds'
    BY <2>3, <2>9, WireSame DEF Wired
  <2>11. Owned'
    <3>1. ASSUME NEW r \in Slot, NEW b \in Page, pte'[r][b].w
          PROVE  pte[r][b].w /\ pte'[r][b].page = pte[r][b].page /\ pte[r][b].page # 0
      BY <1>4, <3>1 DEF Wired, Owned, Present, tableVars
    <3> QED BY <2>9, <3>1, OwnedKept, Numbers DEF Wired
  <2> QED BY <1>6, <1>7, <2>5, <2>6, <2>7, <2>10, <2>11 DEF Typed, Wired
<1>10. CASE pc[p].ret = "exec"
  <2>1. UNCHANGED <<task, mem_map>>
    BY <1>10 DEF free_ends
  <2>2. content' \in [Frame -> Value]
    BY <1>1, <1>4 DEF Types
  <2>3. AtUser \in Position /\ AtUser.hand = pc[p].hand
    BY <1>1, AbsentIsEntry DEF AtUser
  <2> QED BY <1>1, <1>4, <1>6, <2>1, <2>2, <2>3, MoveStep
<1>11. CASE pc[p].ret = "fork_failed"
  <2>1. PICK f \in Frame : f = task[q].page
    <3>1. task[q] \in Task /\ task[q].page # 0
      BY <1>1, <1>2, <1>7, <1>11 DEF Types, Lives
    <3> QED BY <3>1, Numbers DEF Task
  <2>2. mem_map' = [mem_map EXCEPT ![f] = @ - 1] /\ task' = [task EXCEPT ![q] = NoTask]
    BY <1>2, <1>11, <2>1 DEF free_ends
  <2>3. /\ mem_map' \in [Frame -> Nat] /\ Wired' /\ task' \in [Slot -> Task]
        /\ \A r \in Slot : task'[r] = IF r = q THEN NoTask ELSE task[r]
    BY <1>1, <1>4, <1>8, <2>1, <2>2, TaskReleased
  <2>4. Types'
    BY <1>1, <1>4, <1>5, <2>3 DEF Types, Moves, tableVars
  <2>5. ASSUME NEW r \in Slot PROVE Lives(r)'
    BY <1>3, <1>7, <2>3 DEF Lives, NoTask
  <2>6. ASSUME NEW r \in Slot \ {p} PROVE Place(r)'
    <3>1. Undisturbed(r)
      BY <1>2, <1>4, <1>5, <1>11, <2>3 DEF Undisturbed, Moves, Present, tableVars
    <3> QED BY <1>1, <3>1, OthersPlace
  <2> QED BY <1>6, <1>7, <2>3, <2>4, <2>5, <2>6 DEF Typed
<1> QED BY <1>1, <1>9, <1>10, <1>11 DEF Place

\* A zombie's father takes its task structure.
LEMMA ReleaseStep ==
  ASSUME Typed, Wired, NEW q \in Slot, release(q)
  PROVE  Typed' /\ Wired'
<1>1. /\ Types /\ task[q].state = "zombie" /\ busy = 0 /\ Lives(q)
      /\ UNCHANGED <<content, tableVars, pc, busy, panic, load>>
  BY DEF Typed, release
<1>2. PICK f \in Frame : f = task[q].page
  <2>1. task[q] \in Task /\ task[q].page # 0
    BY <1>1 DEF Types, Lives
  <2> QED BY <2>1, Numbers DEF Task
<1>3. mem_map' = [mem_map EXCEPT ![f] = @ - 1] /\ task' = [task EXCEPT ![q] = NoTask]
  BY <1>2 DEF release
<1>4. /\ mem_map' \in [Frame -> Nat] /\ Wired' /\ task' \in [Slot -> Task]
      /\ \A r \in Slot : task'[r] = IF r = q THEN NoTask ELSE task[r]
  <2>1. SameHands
    BY <1>1 DEF SameHands
  <2> QED BY <1>1, <1>2, <1>3, <2>1, TaskReleased
<1>5. Types'
  BY <1>1, <1>4 DEF Types, tableVars
<1>6. ASSUME NEW r \in Slot PROVE Tables(r)' /\ Lives(r)'
  <2>1. Tables(r) /\ Lives(r)
    BY DEF Typed
  <2>2. Tables(r)' /\ (Empty(r)' <=> Empty(r))
    BY <1>1, <2>1 DEF Tables, Empty, Present, tableVars
  <2> QED BY <1>1, <1>4, <2>1, <2>2 DEF Lives, NoTask
<1>7. ASSUME NEW r \in Slot PROVE Place(r)'
  <2>1. Place(r) /\ Sleeps(pc[r].at)
    BY <1>1, Numbers DEF Typed, Place
  <2>2. pc'[r] = pc[r] /\ busy' = busy /\ \A a \in Page : Present(r, a)' <=> Present(r, a)
    BY <1>1 DEF Present, tableVars
  <2>3. task[r].state = "alive" => task'[r].state = "alive"
    BY <1>1, <1>4
  <2> QED BY <2>1, <2>2, <2>3 DEF Place, Copies, Sleeps
<1> QED BY <1>4, <1>5, <1>6, <1>7 DEF Typed

-----------------------------------------------------------------------------
(* The start *)

\* The processes that are alive at the start have a frame each, numbered from 1.
Rank(S, p) == Cardinality({q \in S : q <= p})

LEMMA Ranks ==
  ASSUME NEW S \in SUBSET Nat, IsFiniteSet(S)
  PROVE  /\ Cardinality(S) \in Nat
         /\ \A p \in S : Rank(S, p) \in 1..Cardinality(S)
         /\ \A p, q \in S : Rank(S, p) = Rank(S, q) => p = q
         /\ \A f \in 1..Cardinality(S) : \E p \in S : Rank(S, p) = f
<1> DEFINE n == Cardinality(S)
           Low(p) == {q \in S : q <= p}
<1>1. n \in Nat
  BY FS_CardinalityType
<1>2. ASSUME NEW p \in S
      PROVE  IsFiniteSet(Low(p)) /\ Cardinality(Low(p)) \in 1..n
  <2>1. Low(p) \in SUBSET S /\ p \in Low(p)
    BY <1>2
  <2>2. IsFiniteSet(Low(p)) /\ Cardinality(Low(p)) <= n
    BY <2>1, FS_Subset, Zenon
  <2>3. Cardinality(Low(p)) \in Nat
    BY <2>2, FS_CardinalityType
  <2>4. Cardinality(Low(p)) # 0
    BY <2>1, <2>2, FS_EmptySet, Zenon
  <2> QED BY <1>1, <2>2, <2>3, <2>4
<1>3. ASSUME NEW p \in S, NEW q \in S, p < q PROVE Cardinality(Low(p)) # Cardinality(Low(q))
  <2>1. Low(p) \in SUBSET Low(q)
    <3>1. p \in Nat /\ q \in Nat /\ \A x \in S : x \in Nat
      OBVIOUS
    <3>2. \A x \in S : x <= p => x <= q
      BY <1>3, <3>1
    <3> QED BY <3>2
  <2>2. q \in Low(q) /\ q \notin Low(p)
    BY <1>3
  <2>3. IsFiniteSet(Low(q))
    BY <1>2
  <2>4. Cardinality(Low(q)) = Cardinality(Low(p)) => Low(q) = Low(p)
    BY <2>1, <2>3, FS_Subset, Zenon
  <2> QED BY <2>2, <2>4
<1>4. \A p, q \in S : Cardinality(Low(p)) = Cardinality(Low(q)) => p = q
  <2> SUFFICES ASSUME NEW p \in S, NEW q \in S, p # q
               PROVE  Cardinality(Low(p)) # Cardinality(Low(q))
    OBVIOUS
  <2>1. p \in Nat /\ q \in Nat
    OBVIOUS
  <2>2. p < q \/ q < p
    BY <2>1
  <2> QED BY <1>3, <2>2
<1> DEFINE rank == [p \in S |-> Cardinality(Low(p))]
<1>5. \A p \in S : rank[p] = Cardinality(Low(p))
  OBVIOUS
<1> HIDE DEF rank, Low, n
<1>6. rank \in Injection(S, 1..n)
  <2>1. rank \in [S -> 1..n]
    BY <1>2 DEF rank
  <2>2. \A p, q \in S : rank[p] = rank[q] => p = q
    BY <1>4, <1>5
  <2> QED BY <2>1, <2>2 DEF Injection, IsInjective
<1>7. IsFiniteSet(1..n) /\ Cardinality(1..n) = n
  BY <1>1, FS_Interval
<1>8. rank \in Surjection(S, 1..n)
  BY <1>6, <1>7, FS_Injection DEF n
<1>9. \A f \in 1..n : \E p \in S : rank[p] = f
  BY <1>8 DEF Surjection
<1> QED BY <1>1, <1>2, <1>4, <1>5, <1>9 DEF n, Low, Rank

\* The invariant holds at the start.
LEMMA InitInv ==
  ASSUME Init
  PROVE  Typed /\ Wired
<1>1. PICK S : S = load.alive
  OBVIOUS
<1>2. S \in SUBSET Slot /\ load.exe \in BOOLEAN /\ Cardinality(S) <= NFrames /\ load \in Workloads
  <2>1. load \in Workloads
    BY DEF Init
  <2>2. Cardinality(load.alive) <= NFrames
    BY <2>1, MemoryAssumption
  <2> QED BY <1>1, <2>1, <2>2, MemoryAssumption
<1>3. S \in SUBSET Nat /\ IsFiniteSet(S)
  <2>1. IsFiniteSet(Slot) /\ Slot \in SUBSET Nat
    BY Numbers
  <2>2. IsFiniteSet(S)
    BY <1>2, <2>1, FS_Subset, Zenon
  <2> QED BY <1>2, <2>1, <2>2
<1> DEFINE n == Cardinality(S)
<1>4. /\ n \in Nat /\ \A p \in S : Rank(S, p) \in 1..n
      /\ \A p, q \in S : Rank(S, p) = Rank(S, q) => p = q
      /\ \A f \in 1..n : \E p \in S : Rank(S, p) = f
  BY <1>3, Ranks, Zenon
<1>5. /\ task = [p \in Slot |-> IF p \in S
                   THEN [state |-> "alive", exe |-> load.exe, page |-> Rank(S, p)]
                   ELSE NoTask]
      /\ mem_map = [f \in Frame |-> IF f <= n THEN 1 ELSE 0]
      /\ content = [f \in Frame |-> 0]
      /\ pg_dir = [p \in Slot |-> [t \in Table |-> 0]]
      /\ pte = [p \in Slot |-> [a \in Page |-> Absent]]
      /\ pc = [p \in Slot |-> AtUser] /\ busy = 0 /\ panic = "none"
  BY <1>1, Zenon DEF Init, Rank
<1> HIDE DEF n
<1>6. \A p \in S : Rank(S, p) \in 0..NFrames /\ Rank(S, p) # 0
  BY <1>2, <1>4, Numbers DEF n
<1>7. /\ task \in [Slot -> Task]
      /\ \A p \in Slot : IF p \in S THEN task[p].state = "alive" /\ task[p].page = Rank(S, p)
                                    ELSE task[p].state = "free" /\ task[p].page = 0
  <2>1. \A p \in S : [state |-> "alive", exe |-> load.exe, page |-> Rank(S, p)] \in Task
    BY <1>2, <1>6 DEF Task
  <2> QED BY <1>5, <2>1, AbsentIsEntry DEF NoTask
<1>8. Types
  <2>1. mem_map \in [Frame -> Nat] /\ content \in [Frame -> Value]
    BY <1>5, Numbers
  <2>2. pg_dir \in [Slot -> [Table -> 0..NFrames]] /\ pc \in [Slot -> Position]
    BY <1>5, Numbers, AbsentIsEntry
  <2>3. pte \in [Slot -> [Page -> Entry]]
    BY <1>5, AbsentIsEntry
  <2> QED BY <1>2, <1>5, <1>7, <2>1, <2>2, <2>3 DEF Types
<1>9. ASSUME NEW q \in Slot PROVE Tables(q) /\ Lives(q) /\ Place(q)
  <2>1. /\ \A a \in Page : pte[q][a] = Absent
        /\ \A t \in Table : pg_dir[q][t] = 0
        /\ pc[q] = AtUser
    BY <1>5
  <2>2. Tables(q)
    BY <2>1 DEF Tables, Present, Absent
  <2>3. Lives(q)
    BY <1>6, <1>7, <2>1 DEF Lives, Empty, Present, Absent
  <2>4. Place(q)
    BY <1>5, <2>1 DEF Place, AtUser, Copies, Sleeps
  <2> QED BY <2>2, <2>3, <2>4
<1>10. \A u \in User : Uses(u) # 0 => \E p \in S : u = TaskUser(p) /\ Uses(u) = Rank(S, p)
  <2> SUFFICES ASSUME NEW u \in User, Uses(u) # 0
               PROVE  \E p \in S : u = TaskUser(p) /\ Uses(u) = Rank(S, p)
    OBVIOUS
  <2>1. ~\E q \in Slot, b \in Page : u = PageUser(q, b)
    BY <1>5, UsesOf DEF Absent
  <2>2. ~\E q \in Slot, t \in Table : u = TableUser(q, t)
    BY <1>5, UsesOf
  <2>3. ~\E q \in Slot : u = HandUser(q)
    BY <1>5, UsesOf DEF AtUser
  <2>4. PICK q \in Slot : u = TaskUser(q)
    BY <2>1, <2>2, <2>3, UserCases
  <2>5. Uses(u) = task[q].page
    BY <2>4, UsesOf
  <2> QED BY <1>7, <2>4, <2>5
<1>11. Kinds
  <2> SUFFICES ASSUME NEW u \in User, NEW v \in User, Uses(u) = Uses(v), Uses(u) # 0
               PROVE  u = v
    BY DEF Kinds
  <2> QED BY <1>4, <1>10
<1>12. ASSUME NEW f \in Frame PROVE mem_map[f] = Cardinality(Users(f))
  <2>1. CASE f <= n
    <3>1. PICK p \in S : Rank(S, p) = f
      BY <1>4, <2>1 DEF Frame
    <3>2. TaskUser(p) \in User /\ Uses(TaskUser(p)) = f
      BY <1>2, <1>7, <3>1, UsesOf
    <3>3. \A u \in User : Uses(u) = f => u = TaskUser(p)
      BY <1>4, <1>10, <3>1, Numbers
    <3>4. Users(f) = {TaskUser(p)}
      BY <3>2, <3>3 DEF Users
    <3> QED BY <1>5, <2>1, <3>4, FS_Singleton
  <2>2. CASE ~(f <= n)
    <3>1. \A u \in User : Uses(u) # f
      BY <1>4, <1>10, <2>2, Numbers
    <3>2. Users(f) = {}
      BY <3>1 DEF Users
    <3>3. Cardinality(Users(f)) = 0
      BY <3>2, FS_EmptySet
    <3> QED BY <1>5, <2>2, <3>3
  <2> QED BY <2>1, <2>2
<1>13. Owned
  BY <1>5 DEF Owned, Absent
<1> QED BY <1>8, <1>9, <1>11, <1>12, <1>13 DEF Typed, Wired, Counts

-----------------------------------------------------------------------------
(* The theorems *)

\* It is kept when nothing changes,
LEMMA Stutter ==
  ASSUME Typed, Wired, UNCHANGED vars
  PROVE  Typed' /\ Wired'
<1>1. UNCHANGED <<mem_map, content, task, pg_dir, pte, pc, busy, panic, stored, load>>
  BY DEF vars, tableVars
<1>2. Types'
  BY <1>1 DEF Typed, Types
<1>3. ASSUME NEW q \in Slot PROVE Tables(q)' /\ Lives(q)' /\ Place(q)'
  BY <1>1 DEF Typed, Tables, Lives, Place, Empty, Present, Copies
<1>4. \A v \in User : Uses(v)' = Uses(v)
  BY <1>1 DEF Uses
<1>5. Counts' /\ Kinds'
  BY <1>1, <1>4, WireSame DEF Wired
<1>6. Owned'
  BY <1>1, <1>4, OwnedKept, Numbers DEF Wired, Owned, Present
<1> QED BY <1>2, <1>3, <1>5, <1>6 DEF Typed, Wired

\* and by every step.
LEMMA StepInv ==
  ASSUME Typed, Wired, [Next]_vars
  PROVE  Typed' /\ Wired'
<1>1. ASSUME NEW p \in Slot,
             \/ share_page(p) \/ do_no_page(p) \/ bread_page(p) \/ put_page(p) \/ un_wp_page(p)
             \/ put_fs_byte(p)
      PROVE  Typed' /\ Wired'
  BY <1>1, SharePageStep, DoNoPageStep, BreadPageStep, PutPageStep, UnWpPageStep, PutFsByteStep
<1>2. ASSUME NEW p \in Slot, NEW a \in Page, Trap(p, a) \/ verify_area(p, a)
      PROVE  Typed' /\ Wired'
  BY <1>2, TrapStep
<1>3. ASSUME NEW p \in Slot, NEW a \in Page, NEW v \in Value, UserWrite(p, a, v)
      PROVE  Typed' /\ Wired'
  BY <1>3, UserWriteStep
<1>4. ASSUME NEW p \in Slot,
             \/ fork(p) \/ copy_page_tables(p) \/ fork_ends(p)
             \/ free_page_tables(p) \/ free_ends(p) \/ do_exit(p) \/ do_execve(p) \/ release(p)
      PROVE  Typed' /\ Wired'
  BY <1>4, ForkStep, CopyPageTablesStep, ForkEndsStep, FreePageTablesStep, FreeEndsStep,
     ExitStep, ExecStep, ReleaseStep
<1> QED BY <1>1, <1>2, <1>3, <1>4, Stutter, Zenon DEF Next

\* So it holds always.
LEMMA Always == Spec => [](Typed /\ Wired)
<1>1. Init => Typed /\ Wired
  BY InitInv
<1>2. Typed /\ Wired /\ [Next]_vars => (Typed /\ Wired)'
  BY StepInv
<1> QED BY <1>1, <1>2, PTL DEF Spec

\* Two users of a frame are of two processes, so a count never passes the
\* number of tasks: the byte of mem_map does not overflow, and no count
\* reaches USED.
LEMMA UsersPerTask ==
  ASSUME Kinds, NEW f \in Frame
  PROVE  Cardinality(Users(f)) \in 0..Cardinality(Slot)
<1> DEFINE owner == [u \in Users(f) |-> u[2]]
<1>1. owner \in [Users(f) -> Slot]
  <2>1. \A u \in User : u[2] \in Slot
    BY DEF User
  <2> QED BY <2>1 DEF Users
<1>2. ASSUME NEW u \in Users(f), NEW v \in Users(f), u[2] = v[2] PROVE u = v
  <2>1. u # v => Shares(u, v)
    BY DEF Users, Kinds, Frame
  <2>2. u = <<u[1], u[2], u[3]>> /\ v = <<v[1], v[2], v[3]>>
    BY DEF Users, User
  <2> QED BY <1>2, <2>1, <2>2 DEF Shares
<1>3. owner \in Injection(Users(f), Slot)
  BY <1>1, <1>2 DEF Injection, IsInjective
<1>4. IsFiniteSet(Slot) /\ Cardinality(Slot) \in Nat
  BY Numbers, FS_CardinalityType
<1>5. Cardinality(Users(f)) <= Cardinality(Slot)
  BY <1>3, <1>4, FS_Injection
<1>6. Cardinality(Users(f)) \in Nat
  BY UsersFinite
<1> QED BY <1>4, <1>5, <1>6

\* mem_map counts the users of a page, on every path of a fault, of fork(), of
\* exit and of exec: a page in use is not handed out, no page is lost, none is
\* freed twice, and no count passes the number of tasks.
THEOREM PagesAreCounted == Spec => []MapCountsUsers
<1>1. ASSUME Typed, Wired PROVE MapCountsUsers
  <2>1. mem_map \in [Frame -> 0..Cardinality(Slot)]
    <3>1. ASSUME NEW f \in Frame PROVE mem_map[f] \in 0..Cardinality(Slot)
      BY <1>1, UsersPerTask DEF Wired, Counts
    <3>2. mem_map \in [Frame -> Nat]
      BY <1>1 DEF Typed, Types
    <3> QED BY <3>1, <3>2
  <2>2. TypeOK
    BY <1>1, <2>1 DEF TypeOK, Typed, Types, Tables, Entry, Task, Position
  <2> QED BY <1>1, <2>2 DEF MapCountsUsers, Typed, Types, Wired, Counts
<1>2. Typed /\ Wired => MapCountsUsers
  BY <1>1
<1> QED BY <1>2, Always, PTL

\* A writable frame has one user.
LEMMA WritableHasOneUser ==
  ASSUME Typed, Wired, NEW p \in Slot, NEW a \in Page, pte[p][a].w
  PROVE  mem_map[pte[p][a].page] = 1
<1>1. PICK f \in Frame : f = pte[p][a].page
  <2>1. Present(p, a) /\ pte[p][a] \in Entry
    BY DEF Wired, Owned, Typed, Types
  <2> QED BY <2>1, Numbers DEF Present, Entry
<1>2. PageUser(p, a) \in User /\ Uses(PageUser(p, a)) = f
  BY <1>1, UsesOf
<1>3. \A u \in User : Uses(u) = f => u = PageUser(p, a)
  BY <1>1 DEF Wired, Owned
<1>4. Users(f) = {PageUser(p, a)}
  BY <1>2, <1>3 DEF Users
<1> QED BY <1>1, <1>4, FS_Singleton DEF Wired, Counts

\* What a process can write without a trap belongs to no other process and is
\* no page table: after fork(), after share_page(), and after un_wp_page() gave
\* the last user the page itself.
THEOREM PrivateWrites == Spec => []WritableIsPrivate
<1>1. Typed /\ Wired => WritableIsPrivate
  BY WritableHasOneUser DEF WritableIsPrivate
<1> QED BY <1>1, Always, PTL
-----------------------------------------------------------------------------
(***************************************************************************)
(* The refinement: for workloads that are RaceFree, every step of          *)
(* Memory.tla is a step of PrivateMemory.tla.                              *)
(*                                                                         *)
(* View(q) is what the refinement mapping shows of q's memory.  With Typed *)
(* and Wired, the mapping needs to know what an absent or clean page       *)
(* stands for, what a fault brings, and how far a child is copied: the     *)
(* parts of Good(q).  Then each action is shown to be an Exit, Exec, Fork  *)
(* or Store of the abstract memory, or to change no view.                  *)
(***************************************************************************)

\* Workloads without the race of verify_area() and of the lost dirty bit: no
\* page of the program is written, or no program is run, or nobody forks and
\* the kernel does not store into user memory.
RaceFree(w) ==
    \/ w.written \cap FilePage = {}
    \/ ~w.exe /\ "exec" \notin w.calls
    \/ "fork" \notin w.calls /\ "store" \notin w.calls

\* A clean page of the program is as it is in the file.
CleanIsFile(q) ==
    task[q].exe /\ ~Frees(q, "exec") =>
      \A a \in FilePage :
        Present(q, a) /\ ~pte[q][a].dirty => content[pte[q][a].page] = FileValue

\* A fault brings what an absent page stands for.
Brought(q, a) == IF task[q].exe THEN Image[a] ELSE 0
Brings(q) ==
    /\ pc[q].at = "load" => task[q].exe /\ pc[q].a \in FilePage
    /\ pc[q].at = "put_page" => content[pc[q].hand] = Brought(q, pc[q].a)

\* What the kernel stores into is the process's own, and written pages are
\* those of the workload.
StoresOwn(q) ==
    /\ pc[q].at = "store" /\ Present(q, pc[q].a) => pte[q][pc[q].a].w
    /\ pc[q].ret = "store" => "store" \in load.calls /\ pc[q].a \in load.written
    /\ pc[q].at = "wp_page" => pc[q].a \in load.written

\* The child has the father's pages up to the one copied next.
CopiedSoFar(q) ==
    pc[q].at = "copy" =>
      /\ pc[q].ret = "user" /\ "fork" \in load.calls
      /\ task[pc[q].child].exe = task[q].exe
      /\ \A b \in Page : b < pc[q].a => pte[pc[q].child][b].page = pte[q][b].page

\* Programs and modified pages come from the calls of the workload.
Programs(q) ==
    /\ Frees(q, "exec") => task[q].exe
    /\ task[q].exe => load.exe \/ "exec" \in load.calls
Modified(q) ==
    \A a \in Page : Present(q, a) /\ ~pte[q][a].w /\ pte[q][a].dirty =>
       "fork" \in load.calls \/ "store" \in load.calls

Good(q) == CleanIsFile(q) /\ Brings(q) /\ StoresOwn(q) /\ CopiedSoFar(q) /\ Programs(q) /\ Modified(q)
AllGood == \A q \in Slot : Good(q)

-----------------------------------------------------------------------------
(* What a step shows of the memories *)

View(q) ==
    IF task[q].state # "alive" \/ Frees(q, "exit") THEN Gone
    ELSE IF Frees(q, "exec") THEN Image
    ELSE [a \in Page |-> Seen(q, a)]

\* The refinement mapping, process by process.
LEMMA SpaceIsView ==
  Space = [q \in Slot |-> View(q)] /\ Space' = [q \in Slot |-> View(q)']
BY DEF Space, View

\* A step nothing is seen of is a stutter of the abstract memory,
LEMMA NothingSeen ==
  ASSUME \A q \in Slot : View(q)' = View(q), stored' = <<>>
  PROVE  Private!Next
<1>1. Space' = Space
  BY SpaceIsView
<1> QED BY <1>1 DEF Private!Next, Private!Unseen

\* one that takes the memory of p away is its exit,
LEMMA ExitSeen ==
  ASSUME NEW p \in Slot, View(p) # Gone, View(p)' = Gone, stored' = <<>>,
         \A q \in Slot \ {p} : View(q)' = View(q)
  PROVE  Private!Next
<1>1. Space[p] # Gone /\ Space' = [Space EXCEPT ![p] = Gone]
  BY SpaceIsView
<1>2. Private!Exit(p)
  BY <1>1 DEF Private!Exit, Private!Becomes
<1> QED BY <1>2 DEF Private!Next

\* one that gives p the image of a program is its exec,
LEMMA ExecSeen ==
  ASSUME NEW p \in Slot, View(p) # Gone, View(p)' = Image, stored' = <<>>,
         \A q \in Slot \ {p} : View(q)' = View(q)
  PROVE  Private!Next
<1>1. Space[p] # Gone /\ Space' = [Space EXCEPT ![p] = Image]
  BY SpaceIsView
<1>2. Private!Exec(p)
  BY <1>1 DEF Private!Exec, Private!Becomes
<1> QED BY <1>2 DEF Private!Next

\* one that gives c the memory of p is a fork,
LEMMA ForkSeen ==
  ASSUME NEW p \in Slot, NEW c \in Slot, View(p) # Gone, View(c) = Gone, View(c)' = View(p),
         stored' = <<>>, \A q \in Slot \ {c} : View(q)' = View(q)
  PROVE  Private!Next
<1>1. Space[p] # Gone /\ Space[c] = Gone /\ Space' = [Space EXCEPT ![c] = Space[p]]
  BY SpaceIsView
<1>2. Private!Fork(p, c)
  BY <1>1 DEF Private!Fork, Private!Becomes
<1> QED BY <1>2 DEF Private!Next

\* and one that changes a page of p is a store.
LEMMA StoreSeen ==
  ASSUME NEW p \in Slot, NEW a \in Page, NEW v \in Value, View(p) # Gone,
         View(p)' = [View(p) EXCEPT ![a] = v], stored' = <<p, a>>,
         \A q \in Slot \ {p} : View(q)' = View(q)
  PROVE  Private!Next
<1>1. Space[p] # Gone /\ Space' = [Space EXCEPT ![p] = [View(p) EXCEPT ![a] = v]]
  BY SpaceIsView
<1>2. Space[p] = View(p)
  BY SpaceIsView
<1>3. Space' = [Space EXCEPT ![p][a] = v]
  BY <1>1, <1>2
<1>4. Private!Store(p, a, v)
  BY <1>1, <1>3 DEF Private!Store
<1> QED BY <1>4 DEF Private!Next

\* What a process sees is a memory.
LEMMA ViewIsMemory ==
  ASSUME Typed, NEW q \in Slot
  PROVE  /\ task[q].state = "alive" /\ ~Frees(q, "exit") => View(q) \in [Page -> Value]
         /\ task[q].state = "alive" /\ ~Frees(q, "exit") => View(q) # Gone
         /\ Image \in [Page -> Value]
<1>1. Image \in [Page -> Value]
  BY Numbers DEF Image
<1>2. \A a \in Page : Seen(q, a) \in Value
  <2> SUFFICES ASSUME NEW a \in Page PROVE Seen(q, a) \in Value
    OBVIOUS
  <2>1. pte[q][a] \in Entry /\ content \in [Frame -> Value]
    BY DEF Typed, Types
  <2>2. Present(q, a) => pte[q][a].page \in Frame
    BY <2>1, Numbers DEF Present, Entry
  <2> QED BY <1>1, <2>1, <2>2, Numbers DEF Seen
<1>3. [a \in Page |-> Seen(q, a)] \in [Page -> Value]
  BY <1>2
<1> QED BY <1>1, <1>3, MemoryAssumption DEF View

\* It stays the same when the pages and what they hold stay the same.
LEMMA ViewKept ==
  ASSUME NEW q \in Slot, task'[q].state = task[q].state,
         Frees(q, "exit")' <=> Frees(q, "exit"), Frees(q, "exec")' <=> Frees(q, "exec"),
         \A a \in Page : Seen(q, a)' = Seen(q, a)
  PROVE  View(q)' = View(q)
BY DEF View, Image

\* A process whose memory a step does not touch, or which it does not touch
\* at all.
SameMemory(q) ==
    /\ task'[q] = task[q]
    /\ \A a \in Page :
         /\ pte'[q][a] = pte[q][a]
         /\ Present(q, a) => content'[pte[q][a].page] = content[pte[q][a].page]
Same(q) == pc'[q] = pc[q] /\ SameMemory(q)

\* What such a process sees stays,
LEMMA SameView ==
  ASSUME NEW q \in Slot, Same(q)
  PROVE  View(q)' = View(q)
<1>1. \A a \in Page : Seen(q, a)' = Seen(q, a)
  BY DEF Same, SameMemory, Seen, Present, Image
<1> QED BY <1>1, ViewKept DEF Same, SameMemory, Frees

\* and so does what the mapping needs of it.
LEMMA SameGood ==
  ASSUME Typed, NEW q \in Slot, Good(q), Same(q), load' = load,
         pc[q].at = "put_page" => content'[pc[q].hand] = content[pc[q].hand],
         pc[q].at = "copy" =>
            /\ task'[pc[q].child].exe = task[pc[q].child].exe
            /\ \A b \in Page : pte'[pc[q].child][b].page = pte[pc[q].child][b].page
  PROVE  Good(q)'
<1>1. FilePage \subseteq Page /\ Place(q)
  BY MemoryAssumption DEF Typed
<1>2. CleanIsFile(q)'
  BY <1>1 DEF Good, CleanIsFile, Same, SameMemory, Frees, Present
<1>3. Brings(q)'
  BY DEF Good, Brings, Brought, Same, SameMemory, Image
<1>4. StoresOwn(q)'
  BY <1>1 DEF Good, StoresOwn, Same, SameMemory, Present, Place
<1>5. CopiedSoFar(q)'
  BY DEF Good, CopiedSoFar, Same, SameMemory
<1>6. Programs(q)' /\ Modified(q)'
  BY DEF Good, Programs, Modified, Same, SameMemory, Frees, Present
<1> QED BY <1>2, <1>3, <1>4, <1>5, <1>6 DEF Good

\* While p runs, the others are kept when they are not touched.
LEMMA OthersSame ==
  ASSUME Typed, NEW p \in Slot, NEW label, At(p, label), NEW q \in Slot \ {p}, Good(q), Same(q),
         load' = load
  PROVE  Good(q)' /\ View(q)' = View(q)
<1>1. pc[q].at \in {"user", "load", "store"}
  BY OthersSleep
<1> QED BY <1>1, SameGood, SameView

\* One frame changes, which q has not mapped.
LEMMA SameBut ==
  ASSUME Typed, NEW q \in Slot, NEW f \in Frame, NEW v, content' = [content EXCEPT ![f] = v],
         \A a \in Page : pte[q][a].page # f, task'[q] = task[q], pte'[q] = pte[q]
  PROVE  SameMemory(q)
<1>1. \A a \in Page : Present(q, a) => pte[q][a].page \in Frame \ {f}
  BY Numbers DEF Typed, Types, Entry, Present
<1>2. \A g \in Frame \ {f} : content'[g] = content[g]
  BY DEF Typed, Types
<1> QED BY <1>1, <1>2 DEF SameMemory

\* Nobody maps a free frame.
LEMMA FreeIsUnused ==
  ASSUME Counts, NEW f \in Frame, mem_map[f] = 0
  PROVE  /\ \A q \in Slot, a \in Page : pte[q][a].page # f
         /\ \A q \in Slot : pc[q].hand # f
<1>1. \A u \in User : Uses(u) # f
  BY FreeHasNoUser
<1> QED BY <1>1, UsesOf

-----------------------------------------------------------------------------
(* Faults *)

Implements == AllGood' /\ Private!Next

\* A page table is installed, and p tries again.
LEMMA GrowSeen ==
  ASSUME Typed, Wired, AllGood, NEW p \in Slot, Goto(p, pc[p]),
         NEW f \in Frame, mem_map[f] = 0, content' = Cleared(f), UNCHANGED <<task, pte>>
  PROVE  Implements
<1>1. pc' = pc /\ load' = load /\ stored' = <<>>
  <2>1. pc' = [pc EXCEPT ![p] = pc[p]]
    BY DEF Goto, Continues
  <2> QED BY <2>1 DEF Goto, Continues, Typed, Types
<1>2. /\ \A q \in Slot, a \in Page : pte[q][a].page # f
      /\ \A q \in Slot : pc[q].hand # f
  BY FreeIsUnused DEF Wired
<1>3. ASSUME NEW q \in Slot PROVE Good(q)' /\ View(q)' = View(q)
  <2>1. Same(q)
    BY <1>1, <1>2, SameBut DEF Cleared, Same
  <2>2. content'[pc[q].hand] = content[pc[q].hand]
    BY <1>2 DEF Cleared, Typed, Types
  <2> QED BY <1>1, <2>1, <2>2, SameGood, SameView DEF AllGood
<1> QED BY <1>1, <1>3, NothingSeen DEF Implements, AllGood

\* No page is left: the memory of p is gone.
LEMMA OomSeen ==
  ASSUME Typed, AllGood, NEW p \in Slot, NEW label, At(p, label), label # "free", oom(p),
         UNCHANGED <<content, task, pte>>
  PROVE  Implements
<1> DEFINE g == Releases(p, "exit")
<1>1. Types /\ pc[p].at # "free" /\ task[p].state = "alive" /\ Place(p) /\ Good(p)
  BY DEF Typed, At, AllGood
<1>2. g \in Position /\ g.at = "free" /\ g.ret = "exit"
  BY <1>1, Positions DEF Releases, AtUser
<1>3. Moves(p, g) /\ stored' = <<>>
  BY <1>1, <1>2, PcStored DEF oom, Goto
<1> HIDE DEF g
<1>4. Good(p)'
  BY <1>1, <1>2, <1>3
     DEF Good, CleanIsFile, Brings, StoresOwn, CopiedSoFar, Programs, Modified, Moves, Frees, Present
<1>5. ASSUME NEW q \in Slot \ {p} PROVE Good(q)' /\ View(q)' = View(q)
  <2>1. Same(q)
    BY <1>3 DEF Same, SameMemory, Moves
  <2> QED BY <1>3, <2>1, OthersSame DEF AllGood, Moves
<1>6. View(p) # Gone
  BY <1>1, ViewIsMemory DEF Frees
<1>7. View(p)' = Gone
  BY <1>2, <1>3 DEF View, Moves, Frees
<1> QED BY <1>3, <1>4, <1>5, <1>6, <1>7, ExitSeen DEF Implements, AllGood

\* What the mapping needs of a process that only moves.
LEMMA ActorSame ==
  ASSUME Typed, NEW p \in Slot, Good(p), SameMemory(p), pc[p].at # "free",
         pc'[p].at = "free" => pc'[p].ret = "fork_failed",
         load' = load
  PROVE  /\ CleanIsFile(p)' /\ Programs(p)' /\ Modified(p)'
         /\ \A a \in Page : Seen(p, a)' = Seen(p, a)
<1>1. FilePage \subseteq Page
  BY MemoryAssumption
<1>2. CleanIsFile(p)' /\ Programs(p)' /\ Modified(p)'
  BY <1>1 DEF Good, CleanIsFile, Programs, Modified, SameMemory, Frees, Present
<1>3. \A a \in Page : Seen(p, a)' = Seen(p, a)
  BY DEF Seen, SameMemory, Present, Image
<1> QED BY <1>2, <1>3

\* p moves on, its pages and what they hold stay.
LEMMA MoveSeen ==
  ASSUME Typed, AllGood, NEW p \in Slot, NEW label, At(p, label), label # "free",
         NEW g, Moves(p, g), g.at = "free" => g.ret = "fork_failed", stored' = <<>>, Good(p)',
         task'[p] = task[p], \A a \in Page : Seen(p, a)' = Seen(p, a),
         \A q \in Slot \ {p} : Same(q)
  PROVE  Implements
<1>1. View(p)' = View(p)
  BY ViewKept DEF Frees, Moves, At
<1>2. ASSUME NEW q \in Slot \ {p} PROVE Good(q)' /\ View(q)' = View(q)
  BY OthersSame DEF AllGood, Moves
<1> QED BY <1>1, <1>2, NothingSeen DEF Implements, AllGood

\* A trap, and verify_area(), show nothing.
LEMMA TrapSeen ==
  ASSUME Typed, AllGood, NEW p \in Slot, NEW a \in Page, Trap(p, a) \/ verify_area(p, a)
  PROVE  Implements
<1>1. Types /\ Place(p) /\ Good(p) /\ At(p, "user") /\ pc[p] = AtUser
      /\ UNCHANGED <<content, task, pte>>
  BY DEF Typed, Trap, verify_area, At, Place, AllGood, tableVars
<1>2. PICK g \in Position :
        /\ Goto(p, g) /\ g.at \in {"no_page", "wp_page", "store"} /\ g.a = a
        /\ g.at = "wp_page" => a \in load.written
        /\ g.ret = "store" => "store" \in load.calls /\ a \in load.written
        /\ g.at = "store" => (Present(p, a) => pte[p][a].w)
  <2>1. a \in 0..NPages + 1
    BY Numbers DEF Page
  <2>2. AtUser \in Position
    BY AbsentIsEntry
  <2>3. /\ [AtUser EXCEPT !.at = "no_page", !.a = a] \in Position
        /\ [AtUser EXCEPT !.at = "wp_page", !.a = a] \in Position
        /\ [AtUser EXCEPT !.a = a, !.ret = "store", !.at = "wp_page"] \in Position
        /\ [AtUser EXCEPT !.a = a, !.ret = "store", !.at = "store"] \in Position
    BY <2>1, <2>2 DEF Position, AtUser, Label
  <2> QED BY <2>3 DEF Trap, verify_area, AtUser
<1>3. Moves(p, g) /\ stored' = <<>>
  BY <1>1, <1>2, PcStored DEF Goto
<1>4. Good(p)'
  BY <1>1, <1>2, <1>3
     DEF Good, CleanIsFile, Brings, StoresOwn, CopiedSoFar, Programs, Modified, Moves, Frees, Present,
         AtUser
<1>5. \A q \in Slot \ {p} : Same(q)
  BY <1>1, <1>3 DEF Same, SameMemory, Moves
<1>6. \A b \in Page : Seen(p, b)' = Seen(p, b)
  BY <1>1 DEF Seen, Present, Image
<1> QED BY <1>1, <1>2, <1>3, <1>4, <1>5, <1>6, MoveSeen

\* do_no_page() takes an empty page.
LEMMA DoNoPageSeen ==
  ASSUME Typed, Wired, AllGood, NEW p \in Slot, do_no_page(p)
  PROVE  Implements
<1>1. /\ Types /\ At(p, "no_page") /\ UNCHANGED <<task, pte>> /\ pc[p].at = "no_page"
      /\ Place(p) /\ pc[p] \in Position /\ Good(p)
  BY DEF Typed, do_no_page, At, Place, Types, AllGood, tableVars
<1>2. CASE get_free_page = 0
  <2>1. oom(p) /\ content' = content
    BY <1>2 DEF do_no_page
  <2> QED BY <1>1, <2>1, OomSeen
<1>3. CASE get_free_page # 0
  <2>1. PICK f \in Frame : f = get_free_page /\ mem_map[f] = 0
    BY <1>1, <1>3, FreePage
  <2>2. PICK x \in {"load", "put_page"} :
          /\ Goto(p, [pc[p] EXCEPT !.hand = f, !.at = x])
          /\ x = "load" <=> task[p].exe /\ pc[p].a \in FilePage
    BY <1>3, <2>1 DEF do_no_page
  <2> DEFINE g == [pc[p] EXCEPT !.hand = f, !.at = x]
  <2>3. /\ g \in Position /\ g.hand = f /\ g.at = x /\ g.a = pc[p].a /\ g.ret = pc[p].ret
    BY <1>1, <2>1, Numbers DEF Position, Label
  <2>4. Goto(p, g) /\ content' = [content EXCEPT ![f] = 0]
    BY <1>3, <2>1, <2>2 DEF do_no_page, Cleared
  <2> HIDE DEF g
  <2>5. Moves(p, g) /\ stored' = <<>>
    BY <1>1, <2>3, <2>4, PcStored DEF Goto
  <2>6. \A q \in Slot, a \in Page : pte[q][a].page # f
    BY <2>1, FreeIsUnused DEF Wired
  <2>7. \A q \in Slot : SameMemory(q)
    BY <1>1, <2>4, <2>6, SameBut
  <2>8. /\ CleanIsFile(p)' /\ Programs(p)' /\ Modified(p)'
        /\ \A a \in Page : Seen(p, a)' = Seen(p, a)
    BY <1>1, <2>2, <2>3, <2>5, <2>7, ActorSame DEF Moves
  <2>9. Brings(p)'
    <3>1. content'[f] = 0 /\ pc[p].a \in Page /\ task' = task /\ pc'[p] = g
      BY <1>1, <2>4, <2>5 DEF Types, Place, Moves
    <3> QED BY <2>2, <2>3, <3>1 DEF Brings, Brought, Image
  <2>10. StoresOwn(p)' /\ CopiedSoFar(p)'
    BY <1>1, <2>2, <2>3, <2>5 DEF Good, StoresOwn, CopiedSoFar, Moves
  <2>11. Good(p)'
    BY <2>8, <2>9, <2>10 DEF Good
  <2>12. \A q \in Slot \ {p} : Same(q)
    BY <2>5, <2>7 DEF Same, Moves
  <2> QED BY <1>1, <2>2, <2>3, <2>5, <2>8, <2>11, <2>12, MoveSeen
<1> QED BY <1>2, <1>3

\* The frame in the hands of a process is not mapped.
LEMMA HandIsUnused ==
  ASSUME Wired, NEW p \in Slot, pc[p].hand # 0
  PROVE  \A q \in Slot, a \in Page : pte[q][a].page # pc[p].hand
<1> SUFFICES ASSUME NEW q \in Slot, NEW a \in Page, pte[q][a].page = pc[p].hand PROVE FALSE
  OBVIOUS
<1>1. /\ PageUser(q, a) \in User /\ Uses(PageUser(q, a)) = pc[p].hand
      /\ HandUser(p) \in User /\ Uses(HandUser(p)) = pc[p].hand
  BY UsesOf
<1>2. PageUser(q, a) # HandUser(p) /\ HandUser(p)[1] # "page"
  BY DEF PageUser, HandUser
<1> QED BY <1>1, <1>2 DEF Wired, Kinds, Shares

\* bread_page() fills it from the file.
LEMMA BreadPageSeen ==
  ASSUME Typed, Wired, AllGood, NEW p \in Slot, bread_page(p)
  PROVE  Implements
<1>1. /\ Types /\ At(p, "load") /\ UNCHANGED <<task, pte>> /\ pc[p].at = "load"
      /\ Place(p) /\ pc[p] \in Position /\ Good(p)
  BY DEF Typed, bread_page, At, Place, Types, AllGood, tableVars
<1>2. PICK f \in Frame : f = pc[p].hand
  BY <1>1, Numbers DEF Place, Position
<1> DEFINE g == [pc[p] EXCEPT !.at = "put_page"]
<1>3. /\ g \in Position /\ g.hand = f /\ g.at = "put_page" /\ g.a = pc[p].a /\ g.ret = pc[p].ret
  BY <1>1, <1>2 DEF Position, Label
<1>4. Goto(p, g) /\ content' = [content EXCEPT ![f] = FileValue]
  BY <1>2 DEF bread_page
<1> HIDE DEF g
<1>5. Moves(p, g) /\ stored' = <<>>
  BY <1>1, <1>3, <1>4, PcStored DEF Goto
<1>6. \A q \in Slot, a \in Page : pte[q][a].page # f
  BY <1>2, HandIsUnused, Numbers
<1>7. \A q \in Slot : SameMemory(q)
  BY <1>1, <1>4, <1>6, SameBut
<1>8. /\ CleanIsFile(p)' /\ Programs(p)' /\ Modified(p)'
      /\ \A a \in Page : Seen(p, a)' = Seen(p, a)
  BY <1>1, <1>3, <1>5, <1>7, ActorSame DEF Moves
<1>9. Brings(p)'
  <2>1. content'[f] = FileValue /\ pc[p].a \in Page /\ task' = task /\ pc'[p] = g
    BY <1>1, <1>4, <1>5 DEF Types, Place, Moves
  <2> QED BY <1>1, <1>3, <2>1 DEF Good, Brings, Brought, Image
<1>10. StoresOwn(p)' /\ CopiedSoFar(p)'
  BY <1>1, <1>3, <1>5 DEF Good, StoresOwn, CopiedSoFar, Moves
<1>11. Good(p)'
  BY <1>8, <1>9, <1>10 DEF Good
<1>12. \A q \in Slot \ {p} : Same(q)
  BY <1>5, <1>7 DEF Same, Moves
<1> QED BY <1>1, <1>3, <1>5, <1>8, <1>11, <1>12, MoveSeen

\* Where a process is after its fault.
LEMMA ServedIs ==
  ASSUME Typed, NEW p \in Slot, pc[p].at \in {"no_page", "put_page", "wp_page"}
  PROVE  \/ Served(p) = AtUser
         \/ /\ Served(p).at = "store" /\ pc[p].ret = "store" /\ Served(p).ret = "store"
            /\ Served(p).a = pc[p].a /\ Served(p).hand = 0
<1>1. pc[p] \in Position
  BY DEF Typed, Types
<1> QED BY <1>1 DEF Served, Position

\* A fault of p is served by entry e for page a, which shows what was seen
\* before.
ServedBy(p, a, e) ==
    /\ Goto(p, Served(p)) /\ task' = task
    /\ \A b \in Page : pte'[p][b] = IF b = a THEN e ELSE pte[p][b]
    /\ \A b \in Page \ {a} : Present(p, b) => content'[pte[p][b].page] = content[pte[p][b].page]
    /\ e.page # 0 /\ content'[e.page] = Seen(p, a)
    /\ e.w \/ Served(p) = AtUser
    /\ e.dirty => "fork" \in load.calls \/ "store" \in load.calls \/ e.w
    /\ a \in FilePage /\ task[p].exe /\ ~e.dirty => content'[e.page] = FileValue

\* Then nothing is seen of the step.
LEMMA ServedSeen ==
  ASSUME Typed, AllGood, NEW p \in Slot, NEW label, At(p, label),
         label \in {"no_page", "put_page", "wp_page"},
         NEW a \in Page, a = pc[p].a, NEW e \in Entry, ServedBy(p, a, e),
         \A q \in Slot \ {p} : Good(q)' /\ View(q)' = View(q)
  PROVE  Implements
<1>1. Types /\ Place(p) /\ Good(p) /\ pc[p].at = label
  BY DEF Typed, AllGood, At
<1>2. Moves(p, Served(p)) /\ stored' = <<>>
  BY <1>1, ServedPlace DEF ServedBy, Goto
<1>3. \/ Served(p) = AtUser
      \/ /\ Served(p).at = "store" /\ pc[p].ret = "store" /\ Served(p).ret = "store"
         /\ Served(p).a = pc[p].a
  BY <1>1, ServedIs
<1>4. PICK g : g = Served(p) /\ pc'[p] = g /\ g.at \in {"user", "store"}
  BY <1>2, <1>3 DEF Moves, AtUser
<1>5. \A b \in Page : Seen(p, b)' = Seen(p, b)
  BY DEF ServedBy, Seen, Present, Image
<1>6. View(p)' = View(p)
  BY <1>1, <1>4, <1>5, ViewKept DEF ServedBy, Frees
<1>7. CleanIsFile(p)'
  <2>1. ~Frees(p, "exec") /\ FilePage \subseteq Page
    BY <1>1, MemoryAssumption DEF Frees
  <2> QED BY <1>1, <2>1 DEF ServedBy, Good, CleanIsFile, Present
<1>8. Brings(p)' /\ CopiedSoFar(p)' /\ Programs(p)'
  BY <1>1, <1>2, <1>4 DEF ServedBy, Good, Brings, CopiedSoFar, Programs, Frees, Moves
<1>9. StoresOwn(p)'
  BY <1>1, <1>2, <1>3, <1>4 DEF ServedBy, Good, StoresOwn, Moves, AtUser
<1>10. Modified(p)'
  BY <1>1, <1>2 DEF ServedBy, Good, Modified, Moves, Present
<1>11. Good(p)'
  BY <1>7, <1>8, <1>9, <1>10 DEF Good
<1> QED BY <1>2, <1>6, <1>11, NothingSeen DEF Implements, AllGood

\* put_page() maps what do_no_page() took.
LEMMA PutPageSeen ==
  ASSUME Typed, Wired, AllGood, NEW p \in Slot, put_page(p)
  PROVE  Implements
<1>1. /\ Types /\ At(p, "put_page") /\ task' = task /\ pc[p].at = "put_page"
      /\ Place(p) /\ pc[p] \in Position /\ Good(p)
  BY DEF Typed, put_page, At, Place, Types, AllGood
<1>2. PICK a \in Page : a = pc[p].a /\ ~Present(p, a)
  BY <1>1 DEF Place
<1>3. PICK f \in Frame : f = pc[p].hand
  BY <1>1, Numbers DEF Place, Position
<1>4. CASE pg_dir[p][TableOf[a]] # 0
  <2> DEFINE e == [page |-> f, w |-> TRUE, dirty |-> FALSE]
  <2>1. pte' = [pte EXCEPT ![p][a] = e] /\ Goto(p, Served(p)) /\ content' = content
    BY <1>2, <1>3, <1>4 DEF put_page
  <2>2. e \in Entry /\ e.page = f /\ e.w /\ ~e.dirty
    BY Numbers DEF Entry
  <2> HIDE DEF e
  <2>3. \A q \in Slot, b \in Page : pte'[q][b] = IF q = p /\ b = a THEN e ELSE pte[q][b]
    BY <1>1, <2>1, <2>2, EntryStored DEF Types
  <2>4. content'[e.page] = Seen(p, a) /\ e.page # 0
    BY <1>1, <1>2, <1>3, <2>1, <2>2, Numbers DEF Good, Brings, Brought, Seen
  <2>5. a \in FilePage /\ task[p].exe => content'[e.page] = FileValue
    BY <1>1, <1>2, <2>4 DEF Seen, Image
  <2>6. load' = load /\ \A q \in Slot \ {p} : pc'[q] = pc[q]
    BY <1>1, <2>1, ServedPlace DEF Moves
  <2>7. ASSUME NEW q \in Slot \ {p} PROVE Good(q)' /\ View(q)' = View(q)
    <3>1. Same(q)
      BY <1>1, <2>1, <2>3, <2>6 DEF Same, SameMemory
    <3> QED BY <1>1, <2>6, <3>1, OthersSame DEF AllGood
  <2>8. ServedBy(p, a, e)
    BY <1>1, <2>1, <2>2, <2>3, <2>4, <2>5 DEF ServedBy
  <2> QED BY <1>1, <1>2, <2>2, <2>7, <2>8, ServedSeen
<1>5. CASE pg_dir[p][TableOf[a]] = 0 /\ get_free_page = 0
  <2>1. oom(p) /\ UNCHANGED <<content, pte>>
    BY <1>2, <1>3, <1>5 DEF put_page, tableVars
  <2> QED BY <1>1, <2>1, OomSeen
<1>6. CASE pg_dir[p][TableOf[a]] = 0 /\ get_free_page # 0
  <2>1. PICK n \in Frame : n = get_free_page /\ mem_map[n] = 0
    BY <1>1, <1>6, FreePage
  <2>2. content' = Cleared(n) /\ Goto(p, pc[p]) /\ UNCHANGED <<task, pte>>
    BY <1>1, <1>2, <1>6, <2>1 DEF put_page
  <2> QED BY <2>1, <2>2, GrowSeen
<1> QED BY <1>4, <1>5, <1>6

\* Where a page of the program is written, nobody forks and the kernel does
\* not store.
LEMMA NoRace ==
  ASSUME RaceFree(load), NEW p \in Slot, Good(p), task[p].exe, NEW a \in FilePage, a \in load.written
  PROVE  "fork" \notin load.calls /\ "store" \notin load.calls
BY DEF RaceFree, Good, Programs

\* un_wp_page() gives the page itself or a copy.
LEMMA UnWpPageSeen ==
  ASSUME Typed, Wired, AllGood, RaceFree(load), NEW p \in Slot, un_wp_page(p)
  PROVE  Implements
<1>1. /\ Types /\ At(p, "wp_page") /\ task' = task /\ pc[p].at = "wp_page"
      /\ Place(p) /\ pc[p] \in Position /\ Good(p)
  BY DEF Typed, un_wp_page, At, Place, Types, AllGood
<1>2. PICK a \in Page : a = pc[p].a /\ Present(p, a) /\ a \in load.written
  BY <1>1 DEF Place, Good, StoresOwn
<1>3. PICK old \in Frame : old = pte[p][a].page
  <2>1. pte[p][a] \in Entry
    BY <1>1 DEF Types
  <2> QED BY <1>2, <2>1, Numbers DEF Entry, Present
<1>4. Seen(p, a) = content[old]
  BY <1>2, <1>3 DEF Seen
<1>5. CASE mem_map[old] = 1
  <2>1. pte' = [pte EXCEPT ![p][a].w = TRUE] /\ Goto(p, Served(p)) /\ content' = content
    BY <1>2, <1>3, <1>5 DEF un_wp_page
  <2>2. PICK e \in Entry : WriteBit(p, a, e)
    BY <1>1, <2>1, WriteBitStored DEF Types
  <2>3. pte' = [pte EXCEPT ![p][a] = e] /\ e.page = old /\ e.w /\ e.dirty = pte[p][a].dirty
    BY <1>3, <2>2 DEF WriteBit
  <2>4. \A q \in Slot, b \in Page : pte'[q][b] = IF q = p /\ b = a THEN e ELSE pte[q][b]
    BY <1>1, <2>2, <2>3, EntryStored DEF Types
  <2>5. load' = load /\ \A q \in Slot \ {p} : pc'[q] = pc[q]
    BY <1>1, <2>1, ServedPlace DEF Moves
  <2>6. ASSUME NEW q \in Slot \ {p} PROVE Good(q)' /\ View(q)' = View(q)
    <3>1. Same(q)
      BY <1>1, <2>1, <2>4, <2>5 DEF Same, SameMemory
    <3> QED BY <1>1, <2>5, <3>1, OthersSame DEF AllGood
  <2>7. a \in FilePage /\ task[p].exe /\ ~e.dirty => content'[e.page] = FileValue
    BY <1>1, <1>2, <1>3, <2>1, <2>3 DEF Good, CleanIsFile, Frees
  <2>8. e.page # 0 /\ content'[e.page] = Seen(p, a)
    BY <1>4, <2>1, <2>3, Numbers
  <2>9. \A b \in Page : pte'[p][b] = IF b = a THEN e ELSE pte[p][b]
    BY <2>4
  <2>10. content' = content /\ Goto(p, Served(p)) /\ e.w
    BY <2>1, <2>3
  <2>11. ServedBy(p, a, e)
    BY <1>1, <2>7, <2>8, <2>9, <2>10 DEF ServedBy
  <2> QED BY <1>1, <1>2, <2>2, <2>6, <2>11, ServedSeen
<1>6. CASE mem_map[old] # 1 /\ get_free_page = 0
  <2>1. oom(p) /\ UNCHANGED <<content, pte>>
    BY <1>2, <1>3, <1>6 DEF un_wp_page
  <2> QED BY <1>1, <2>1, OomSeen
<1>7. CASE mem_map[old] # 1 /\ get_free_page # 0
  <2>1. PICK f \in Frame : f = get_free_page /\ mem_map[f] = 0
    BY <1>1, <1>7, FreePage
  <2> DEFINE e == [page |-> f, w |-> TRUE, dirty |-> FALSE]
  <2>2. /\ content' = [content EXCEPT ![f] = content[old]] /\ pte' = [pte EXCEPT ![p][a] = e]
        /\ Goto(p, Served(p))
    BY <1>2, <1>3, <1>7, <2>1 DEF un_wp_page
  <2>3. e \in Entry /\ e.page = f /\ e.w /\ ~e.dirty
    BY <2>1, Numbers DEF Entry
  <2> HIDE DEF e
  <2>4. \A q \in Slot, b \in Page : pte'[q][b] = IF q = p /\ b = a THEN e ELSE pte[q][b]
    BY <1>1, <2>2, <2>3, EntryStored DEF Types
  <2>5. \A q \in Slot, b \in Page : pte[q][b].page # f
    BY <2>1, FreeIsUnused DEF Wired
  <2>6. content'[f] = content[old] /\ \A g \in Frame \ {f} : content'[g] = content[g]
    BY <1>1, <2>2 DEF Types
  <2>7. load' = load /\ \A q \in Slot \ {p} : pc'[q] = pc[q]
    BY <1>1, <2>2, ServedPlace DEF Moves
  <2>8. \A q \in Slot, b \in Page : Present(q, b) => content'[pte[q][b].page] = content[pte[q][b].page]
    <3>1. \A q \in Slot, b \in Page : Present(q, b) => pte[q][b].page \in Frame \ {f}
      BY <1>1, <2>5, Numbers DEF Types, Entry, Present
    <3> QED BY <2>6, <3>1
  <2>9. ASSUME NEW q \in Slot \ {p} PROVE Good(q)' /\ View(q)' = View(q)
    <3>1. Same(q)
      BY <1>1, <2>4, <2>7, <2>8 DEF Same, SameMemory
    <3> QED BY <1>1, <2>7, <3>1, OthersSame DEF AllGood
  <2>10. a \in FilePage /\ task[p].exe => content[old] = FileValue
    <3> SUFFICES ASSUME a \in FilePage, task[p].exe PROVE content[old] = FileValue
      OBVIOUS
    <3>1. ~pte[p][a].w
      BY <1>3, <1>7, WritableHasOneUser
    <3>2. ~pte[p][a].dirty
      BY <1>1, <1>2, <3>1, NoRace DEF Good, Modified
    <3> QED BY <1>1, <1>2, <1>3, <3>2 DEF Good, CleanIsFile, Frees
  <2>11. e.page # 0 /\ content'[e.page] = Seen(p, a)
    BY <1>4, <2>3, <2>6, Numbers
  <2>12. \A b \in Page : pte'[p][b] = IF b = a THEN e ELSE pte[p][b]
    BY <2>4
  <2>13. ServedBy(p, a, e)
    BY <1>1, <1>4, <2>2, <2>3, <2>8, <2>10, <2>11, <2>12 DEF ServedBy
  <2> QED BY <1>1, <1>2, <2>3, <2>9, <2>13, ServedSeen
<1> QED BY <1>5, <1>6, <1>7

\* share_page() takes a clean page of another process for one from the file.
LEMMA SharePageSeen ==
  ASSUME Typed, Wired, AllGood, RaceFree(load), NEW p \in Slot, share_page(p)
  PROVE  Implements
<1>1. /\ Types /\ At(p, "no_page") /\ pc[p].at = "no_page" /\ Place(p) /\ pc[p] \in Position
      /\ Good(p)
  <2>1. At(p, "no_page")
    BY DEF share_page
  <2> QED BY <2>1 DEF Typed, At, Types, AllGood
<1>2. PICK a \in Page : a = pc[p].a /\ ~Present(p, a) /\ a \in FilePage /\ task[p].exe
  BY <1>1 DEF Place, share_page, MayShare
<1>3. PICK q \in Slot \ {p} : /\ q = Max(Sharers(p, a)) /\ Present(q, a) /\ ~pte[q][a].dirty
                              /\ task[q].exe
  <2>1. Sharers(p, a) # {}
    BY <1>2 DEF share_page, MayShare
  <2> QED BY <2>1, SharerFound DEF Sharers
<1>4. CASE pg_dir[p][TableOf[a]] = 0 /\ get_free_page = 0
  <2>1. oom(p) /\ UNCHANGED <<content, task, pte>>
    BY <1>2, <1>4 DEF share_page, tableVars
  <2> QED BY <1>1, <2>1, OomSeen
<1>5. CASE pg_dir[p][TableOf[a]] = 0 /\ get_free_page # 0
  <2>1. PICK n \in Frame : n = get_free_page /\ mem_map[n] = 0
    BY <1>1, <1>5, FreePage
  <2>2. content' = Cleared(n) /\ Goto(p, pc[p]) /\ UNCHANGED <<task, pte>>
    BY <1>2, <1>5, <2>1 DEF share_page
  <2> QED BY <2>1, <2>2, GrowSeen
<1>6. CASE pg_dir[p][TableOf[a]] # 0
  <2>1. PICK e \in Entry : /\ e = [pte[q][a] EXCEPT !.w = FALSE]
                           /\ ~e.w /\ e.page = pte[q][a].page /\ ~e.dirty
    <3> DEFINE x == [pte[q][a] EXCEPT !.w = FALSE]
    <3>1. pte[q][a] \in Entry
      BY <1>1 DEF Types
    <3>2. x \in Entry /\ ~x.w /\ x.page = pte[q][a].page /\ ~x.dirty
      BY <1>3, <3>1 DEF Entry
    <3> HIDE DEF x
    <3>3. x = [pte[q][a] EXCEPT !.w = FALSE]
      BY DEF x
    <3> QED BY <3>2, <3>3, Zenon
  <2>2. /\ pte' = [pte EXCEPT ![q][a] = e, ![p][a] = e]
        /\ Goto(p, Served(p)) /\ UNCHANGED <<content, task>>
    BY <1>2, <1>3, <1>6, <2>1 DEF share_page
  <2>3. \A r \in Slot, b \in Page : pte'[r][b] = IF r \in {p, q} /\ b = a THEN e ELSE pte[r][b]
    <3>1. pte \in [Slot -> [Page -> Entry]] /\ pte' = [pte EXCEPT ![q][a] = e, ![p][a] = e]
      BY <1>1, <2>2 DEF Types
    <3>2. Joined(p, q, a, e)
      BY <2>1, <3>1, EntriesStored, Zenon
    <3> QED BY <3>2 DEF Joined
  <2>4. Goto(p, Served(p)) /\ content' = content /\ task' = task
    BY <2>2
  <2>5. load' = load /\ \A r \in Slot \ {p} : pc'[r] = pc[r]
    BY <1>1, <2>4, ServedPlace DEF Moves
  <2>6. Good(q) /\ pc[q].at \in {"user", "load", "store"} /\ Place(q)
    BY <1>1, OthersSleep DEF AllGood, Typed
  <2>7. content[pte[q][a].page] = FileValue
    BY <1>2, <1>3, <2>6 DEF Good, CleanIsFile, Frees
  <2>8. content'[e.page] = Seen(p, a) /\ e.page # 0 /\ content'[e.page] = FileValue
    BY <1>2, <1>3, <2>4, <2>1, <2>7 DEF Seen, Image, Present
  <2>9. Served(p) = AtUser
    <3> SUFFICES ASSUME pc[p].ret = "store" PROVE FALSE
      BY DEF Served
    <3>1. "store" \in load.calls /\ a \in load.written
      BY <1>1, <1>2 DEF Good, StoresOwn
    <3> QED BY <1>1, <1>2, <3>1, NoRace
  <2>10. Good(q)'
    <3>1. CleanIsFile(q)'
      <4> SUFFICES ASSUME NEW b \in FilePage, Present(q, b)', ~pte'[q][b].dirty
                   PROVE  content'[pte'[q][b].page] = FileValue
        BY DEF CleanIsFile
      <4>1. ~Frees(q, "exec") /\ FilePage \subseteq Page
        BY <2>6, MemoryAssumption DEF Frees
      <4>2. CASE b = a
        BY <2>1, <2>3, <2>8, <4>1, <4>2
      <4>3. CASE b # a
        <5>1. pte'[q][b] = pte[q][b]
          BY <2>3, <4>1, <4>3
        <5> QED BY <1>3, <2>4, <2>6, <4>1, <5>1 DEF Good, CleanIsFile, Present
      <4> QED BY <4>2, <4>3
    <3>4. Modified(q)'
      BY <2>1, <2>3, <2>5, <2>6 DEF Good, Modified, Present
    <3>2. Brings(q)' /\ CopiedSoFar(q)' /\ Programs(q)'
      BY <2>4, <2>5, <2>6 DEF Good, Brings, CopiedSoFar, Programs, Frees
    <3>3. StoresOwn(q)'
      <4>1. pc[q].at = "store" => pc[q].a # a /\ pc[q].a \in Page
        <5> SUFFICES ASSUME pc[q].at = "store" PROVE pc[q].a # a /\ pc[q].a \in Page
          OBVIOUS
        <5>1. "store" \in load.calls /\ pc[q].a \in load.written /\ pc[q].a \in Page
          BY <2>6 DEF Good, StoresOwn, Place
        <5> QED BY <1>2, <1>3, <2>6, <5>1, NoRace
      <4> QED BY <2>3, <2>5, <2>6, <4>1 DEF Good, StoresOwn, Present
    <3> QED BY <3>1, <3>2, <3>3, <3>4 DEF Good
  <2>11. View(q)' = View(q)
    <3>1. \A b \in Page : Seen(q, b)' = Seen(q, b)
      BY <1>3, <2>4, <2>1, <2>3 DEF Seen, Present, Image
    <3> QED BY <2>4, <2>5, <3>1, ViewKept DEF Frees
  <2>12. ASSUME NEW r \in Slot \ {p} PROVE Good(r)' /\ View(r)' = View(r)
    <3>1. CASE r = q
      BY <2>10, <2>11, <3>1
    <3>2. CASE r # q
      <4>1. Same(r)
        BY <2>4, <2>3, <2>5, <3>2 DEF Same, SameMemory
      <4> QED BY <1>1, <2>5, <4>1, OthersSame DEF AllGood
    <3> QED BY <3>1, <3>2
  <2>13. \A b \in Page : pte'[p][b] = IF b = a THEN e ELSE pte[p][b]
    BY <2>3
  <2>14. ServedBy(p, a, e)
    BY <1>1, <1>2, <2>1, <2>4, <2>8, <2>9, <2>13 DEF ServedBy
  <2> QED BY <1>1, <1>2, <2>1, <2>12, <2>14, ServedSeen
<1> QED BY <1>4, <1>5, <1>6

-----------------------------------------------------------------------------
(* Stores *)

\* A store into a page that p has for itself.
LEMMA StoreIsSeen ==
  ASSUME Typed, Wired, AllGood, NEW p \in Slot, NEW a \in Page, NEW v \in Value,
         NEW label, At(p, label), label \in {"user", "store"}, Store(p, a, v), pte[p][a].w
  PROVE  Implements
<1>1. Types /\ task' = task /\ Good(p) /\ task[p].state = "alive" /\ pc[p].at = label
  BY DEF Typed, At, AllGood, Store
<1>2. Moves(p, AtUser) /\ stored' = <<p, a>>
  BY <1>1, PcStored, AbsentIsEntry DEF Store
<1>3. PICK f \in Frame : f = pte[p][a].page
  <2>1. pte[p][a] \in Entry /\ Present(p, a)
    BY <1>1 DEF Types, Wired, Owned
  <2> QED BY <2>1, Numbers DEF Entry, Present
<1>4. PICK e \in Entry : /\ pte' = [pte EXCEPT ![p][a] = e]
                         /\ e.page = f /\ e.w = pte[p][a].w /\ e.dirty
  BY <1>1, <1>3, DirtyBitStored DEF Types, Store
<1>5. \A q \in Slot, b \in Page : pte'[q][b] = IF q = p /\ b = a THEN e ELSE pte[q][b]
  BY <1>1, <1>4, EntryStored DEF Types
<1>6. content' = [content EXCEPT ![f] = v]
  BY <1>3 DEF Store
<1>7. content'[f] = v /\ \A g \in Frame \ {f} : content'[g] = content[g]
  BY <1>1, <1>6 DEF Types
<1>8. \A q \in Slot, b \in Page : pte[q][b].page = f => q = p /\ b = a
  <2>1. \A u \in User : Uses(u) = f => u = PageUser(p, a)
    BY <1>3 DEF Wired, Owned
  <2> QED BY <2>1, UsesOf, UsersDiffer
<1>9. \A q \in Slot, b \in Page :
        Present(q, b) /\ ~(q = p /\ b = a) => content'[pte[q][b].page] = content[pte[q][b].page]
  <2>1. \A q \in Slot, b \in Page : Present(q, b) /\ ~(q = p /\ b = a) => pte[q][b].page \in Frame \ {f}
    BY <1>1, <1>8, Numbers DEF Types, Entry, Present
  <2> QED BY <1>7, <2>1
<1>10. ASSUME NEW q \in Slot \ {p} PROVE Good(q)' /\ View(q)' = View(q)
  <2>1. Same(q)
    BY <1>1, <1>2, <1>5, <1>9 DEF Same, SameMemory, Moves
  <2> QED BY <1>1, <1>2, <2>1, OthersSame DEF AllGood, Moves
<1>11. Good(p)'
  <2>1. CleanIsFile(p)'
    <3>1. ~Frees(p, "exec") /\ FilePage \subseteq Page
      BY <1>1, MemoryAssumption DEF Frees
    <3> QED BY <1>1, <1>4, <1>5, <1>9, <3>1 DEF Good, CleanIsFile, Present
  <2>2. Brings(p)' /\ CopiedSoFar(p)' /\ Programs(p)' /\ StoresOwn(p)'
    BY <1>1, <1>2 DEF Good, Brings, CopiedSoFar, Programs, StoresOwn, Frees, Moves, AtUser
  <2>3. Modified(p)'
    <3>1. pte'[p][a].w
      BY <1>4, <1>5
    <3> QED BY <1>1, <1>2, <1>5, <3>1 DEF Good, Modified, Moves, Present
  <2> QED BY <2>1, <2>2, <2>3 DEF Good
<1>12. /\ View(p) = [b \in Page |-> Seen(p, b)] /\ View(p) # Gone
       /\ View(p)' = [b \in Page |-> Seen(p, b)']
  <2>1. View(p) # Gone
    BY <1>1, ViewIsMemory DEF Frees
  <2>2. /\ ~Frees(p, "exec") /\ ~Frees(p, "exit")
        /\ ~Frees(p, "exec")' /\ ~Frees(p, "exit")'
    BY <1>1, <1>2 DEF Frees, Moves, AtUser
  <2> QED BY <1>1, <2>1, <2>2 DEF View
<1>13. \A b \in Page : Seen(p, b)' = IF b = a THEN v ELSE Seen(p, b)
  BY <1>1, <1>3, <1>4, <1>5, <1>7, <1>9, Numbers DEF Seen, Present, Image
<1>14. View(p)' = [View(p) EXCEPT ![a] = v]
  BY <1>12, <1>13
<1> QED BY <1>2, <1>10, <1>11, <1>12, <1>14, StoreSeen DEF Implements, AllGood

\* It is made by the user,
LEMMA UserWriteSeen ==
  ASSUME Typed, Wired, AllGood, NEW p \in Slot, NEW a \in Page, NEW v \in Value, UserWrite(p, a, v)
  PROVE  Implements
BY StoreIsSeen DEF UserWrite

\* put_fs_byte() stores into a page of the process's own, or traps.
LEMMA PutFsByteSeen ==
  ASSUME Typed, Wired, AllGood, NEW p \in Slot, put_fs_byte(p)
  PROVE  Implements
<1>1. /\ Types /\ At(p, "store") /\ pc[p].at = "store" /\ Place(p) /\ pc[p] \in Position
      /\ Good(p)
  BY DEF Typed, put_fs_byte, At, Types, AllGood
<1>2. PICK a \in Page : a = pc[p].a
  BY <1>1 DEF Place
<1>3. CASE Present(p, a)
  <2>1. PICK v \in Value : Store(p, a, v)
    BY <1>2, <1>3 DEF put_fs_byte
  <2>2. pte[p][a].w
    BY <1>1, <1>2, <1>3 DEF Good, StoresOwn
  <2> QED BY <1>1, <2>1, <2>2, StoreIsSeen
<1>4. CASE ~Present(p, a)
  <2> DEFINE g == [pc[p] EXCEPT !.at = "no_page"]
  <2>1. Goto(p, g) /\ UNCHANGED <<content, task, pte>>
    BY <1>2, <1>4 DEF put_fs_byte, tableVars
  <2>2. g \in Position /\ g.at = "no_page" /\ g.a = a /\ g.ret = pc[p].ret
    BY <1>1, <1>2 DEF Position, Label
  <2> HIDE DEF g
  <2>3. Moves(p, g) /\ stored' = <<>>
    BY <1>1, <2>1, <2>2, PcStored DEF Goto
  <2>4. \A q \in Slot : SameMemory(q)
    BY <2>1 DEF SameMemory
  <2>5. /\ CleanIsFile(p)' /\ Programs(p)' /\ Modified(p)'
        /\ \A b \in Page : Seen(p, b)' = Seen(p, b)
    BY <1>1, <2>2, <2>3, <2>4, ActorSame DEF Moves
  <2>6. Brings(p)' /\ StoresOwn(p)' /\ CopiedSoFar(p)'
    BY <1>1, <1>2, <2>2, <2>3 DEF Good, Brings, StoresOwn, CopiedSoFar, Moves
  <2>7. \A q \in Slot \ {p} : Same(q)
    BY <2>3, <2>4 DEF Same, Moves
  <2>8. Good(p)'
    BY <2>5, <2>6 DEF Good
  <2> QED BY <1>1, <2>1, <2>2, <2>3, <2>5, <2>7, <2>8, MoveSeen
<1> QED BY <1>3, <1>4

-----------------------------------------------------------------------------
(* fork(), exit and exec *)

\* A process in user mode, or not there, needs nothing but good page entries.
LEMMA IdleGood ==
  ASSUME NEW q \in Slot, pc'[q] = AtUser, load' = load, CleanIsFile(q)', Modified(q)',
         task'[q].exe => load.exe \/ "exec" \in load.calls
  PROVE  Good(q)'
BY DEF Good, Brings, StoresOwn, CopiedSoFar, Programs, Frees, AtUser

\* Who is not alive is nowhere, and his memory is not seen.
LEMMA NotAlive ==
  ASSUME Typed, NEW q \in Slot, task[q].state # "alive"
  PROVE  pc[q] = AtUser /\ View(q) = Gone
BY DEF Typed, Place, View

\* fork() takes a slot, whose memory is not seen yet.
LEMMA ForkStarts ==
  ASSUME Typed, Wired, AllGood, NEW p \in Slot, fork(p)
  PROVE  Implements
<1>1. /\ Types /\ At(p, "user") /\ pc[p] = AtUser /\ task[p].state = "alive" /\ Good(p)
  BY DEF Typed, fork, At, Place, AllGood
<1>2. PICK f \in Frame : f = get_free_page /\ mem_map[f] = 0
  BY <1>1, FreePage DEF fork
<1>3. PICK c \in Slot : c = Min({d \in Slot : task[d].state = "free"}) /\ task[c].state = "free"
  BY FreeSlot DEF fork
<1>4. c # p /\ Empty(c)
  BY <1>1, <1>3 DEF Typed, Lives
<1> DEFINE g == [AtUser EXCEPT !.at = "copy", !.a = 1, !.child = c]
           d == [state |-> "copied", page |-> f, exe |-> task[p].exe]
<1>5. /\ content' = [content EXCEPT ![f] = 0] /\ task' = [task EXCEPT ![c] = d]
      /\ Goto(p, g) /\ UNCHANGED pte /\ "fork" \in load.calls
  BY <1>2, <1>3, <1>4 DEF fork, Empty, Cleared, tableVars
<1>6. g \in Position /\ g.at = "copy" /\ g.ret = "user" /\ g.a = 1 /\ g.child = c
  <2>1. AtUser \in Position /\ 1 \in 0..NPages + 1
    BY AbsentIsEntry, Numbers
  <2> QED BY <2>1 DEF Position, Label, AtUser
<1>7. /\ \A q \in Slot \ {c} : task'[q] = task[q]
      /\ task'[c].state = "copied" /\ task'[c].exe = task[p].exe
  BY <1>1, <1>5 DEF Types
<1> HIDE DEF g, d
<1>8. Moves(p, g) /\ stored' = <<>>
  BY <1>1, <1>5, <1>6, PcStored DEF Goto
<1>9. \A q \in Slot, a \in Page : pte[q][a].page # f
  BY <1>2, FreeIsUnused DEF Wired
<1>10. \A q \in Slot \ {c} : SameMemory(q)
  BY <1>5, <1>7, <1>9, SameBut
<1>11. /\ CleanIsFile(p)' /\ Programs(p)' /\ Modified(p)'
       /\ \A a \in Page : Seen(p, a)' = Seen(p, a)
  BY <1>1, <1>4, <1>6, <1>8, <1>10, ActorSame DEF Moves, AtUser
<1>12. Good(p)'
  <2>1. CopiedSoFar(p)'
    BY <1>4, <1>5, <1>6, <1>7, <1>8, Numbers DEF CopiedSoFar, Moves, Page
  <2>2. Brings(p)' /\ StoresOwn(p)'
    BY <1>6, <1>8 DEF Brings, StoresOwn, Moves
  <2> QED BY <1>11, <2>1, <2>2 DEF Good
<1>13. View(p)' = View(p)
  BY <1>1, <1>4, <1>6, <1>7, <1>8, <1>11, ViewKept DEF Frees, Moves, AtUser
<1>14. Good(c)' /\ View(c)' = View(c)
  <2>1. pc'[c] = AtUser /\ View(c) = Gone
    BY <1>3, <1>4, <1>8, NotAlive DEF Moves
  <2>2. CleanIsFile(c)' /\ Modified(c)'
    BY <1>4, <1>5, MemoryAssumption DEF CleanIsFile, Modified, Empty, Present
  <2>3. Good(c)'
    BY <1>1, <1>7, <1>8, <2>1, <2>2, IdleGood DEF Good, Programs, Moves
  <2> QED BY <1>7, <2>1, <2>3 DEF View
<1>15. ASSUME NEW q \in Slot \ {p, c} PROVE Good(q)' /\ View(q)' = View(q)
  <2>1. Same(q)
    BY <1>8, <1>10 DEF Same, Moves
  <2> QED BY <1>1, <1>8, <2>1, OthersSame DEF AllGood, Moves
<1> QED BY <1>8, <1>12, <1>13, <1>14, <1>15, NothingSeen DEF Implements, AllGood

\* copy_page_tables() goes on without a change of what is seen.
LEMMA CopySeen ==
  ASSUME Typed, Wired, AllGood, NEW p \in Slot, copy_page_tables(p)
  PROVE  Implements
<1>1. /\ Types /\ At(p, "copy") /\ pc[p].at = "copy" /\ pc[p] \in Position /\ Place(p)
      /\ Good(p) /\ task[p].state = "alive" /\ task' = task
  <2>1. At(p, "copy") /\ task' = task
    BY DEF copy_page_tables
  <2> QED BY <2>1 DEF Typed, At, Types, AllGood
<1>2. PICK a \in Page : a = pc[p].a
  BY DEF copy_page_tables
<1>3. PICK c \in Slot \ {p} : /\ c = pc[p].child /\ task[c].state = "copied" /\ ~Present(c, a)
                              /\ task[c].exe = task[p].exe /\ "fork" \in load.calls
                              /\ pc[p].ret = "user"
                              /\ \A b \in Page : b < a => pte[c][b].page = pte[p][b].page
  <2>1. a \in Nat /\ a >= a
    BY <1>2, Numbers
  <2> QED BY <1>1, <1>2, <2>1 DEF Place, Copies, Good, CopiedSoFar
<1>4. PICK t \in Table : t = TableOf[a]
  BY <1>2, Numbers
<1> DEFINE next == [pc[p] EXCEPT !.a = a + 1]
<1>5. /\ next \in Position /\ next.at = "copy" /\ next.a = a + 1 /\ next.ret = pc[p].ret
      /\ next.child = c
  BY <1>1, <1>2, <1>3, Numbers DEF Position
<1> HIDE DEF next
<1>6. \A b \in Page : b < a + 1 => b < a \/ b = a
  BY <1>2, Numbers
<1>7. CASE pg_dir[p][t] # 0 /\ pg_dir[c][t] = 0 /\ get_free_page = 0
  <2> DEFINE g == Releases(p, "fork_failed")
  <2>1. Goto(p, g) /\ UNCHANGED <<content, pte>>
    BY <1>2, <1>3, <1>4, <1>7 DEF copy_page_tables, tableVars
  <2>2. g \in Position /\ g.at = "free" /\ g.ret = "fork_failed"
    BY <1>1, Positions DEF Releases, AtUser
  <2> HIDE DEF g
  <2>3. Moves(p, g) /\ stored' = <<>>
    BY <1>1, <2>1, <2>2, PcStored DEF Goto
  <2>4. \A q \in Slot : SameMemory(q)
    BY <1>1, <2>1 DEF SameMemory
  <2>5. /\ CleanIsFile(p)' /\ Programs(p)' /\ Modified(p)'
        /\ \A b \in Page : Seen(p, b)' = Seen(p, b)
    BY <1>1, <2>2, <2>3, <2>4, ActorSame DEF Moves
  <2>6. Brings(p)' /\ StoresOwn(p)' /\ CopiedSoFar(p)'
    BY <2>2, <2>3 DEF Brings, StoresOwn, CopiedSoFar, Moves
  <2>7. \A q \in Slot \ {p} : Same(q)
    BY <2>3, <2>4 DEF Same, Moves
  <2>8. Good(p)'
    BY <2>5, <2>6 DEF Good
  <2> QED BY <1>1, <2>2, <2>3, <2>5, <2>7, <2>8, MoveSeen
<1>8. CASE pg_dir[p][t] # 0 /\ pg_dir[c][t] = 0 /\ get_free_page # 0
  <2>1. PICK n \in Frame : n = get_free_page /\ mem_map[n] = 0
    BY <1>1, <1>8, FreePage
  <2>2. content' = Cleared(n) /\ Goto(p, pc[p]) /\ UNCHANGED pte
    BY <1>2, <1>3, <1>4, <1>8, <2>1 DEF copy_page_tables
  <2> QED BY <1>1, <2>1, <2>2, GrowSeen
<1>9. CASE ~(pg_dir[p][t] # 0 /\ pg_dir[c][t] = 0) /\ Present(p, a)
  <2>1. PICK e \in Entry : /\ e = [pte[p][a] EXCEPT !.w = FALSE]
                           /\ ~e.w /\ e.page = pte[p][a].page /\ e.dirty = pte[p][a].dirty
    <3> DEFINE x == [pte[p][a] EXCEPT !.w = FALSE]
    <3>1. pte[p][a] \in Entry
      BY <1>1 DEF Types
    <3>2. x \in Entry /\ ~x.w /\ x.page = pte[p][a].page /\ x.dirty = pte[p][a].dirty
      BY <3>1 DEF Entry
    <3> HIDE DEF x
    <3>3. x = [pte[p][a] EXCEPT !.w = FALSE]
      BY DEF x
    <3> QED BY <3>2, <3>3, Zenon
  <2>2. pte' = [pte EXCEPT ![p][a] = e, ![c][a] = e] /\ Goto(p, next) /\ content' = content
    BY <1>2, <1>3, <1>4, <1>9, <2>1 DEF copy_page_tables, Both, next
  <2>3. \A r \in Slot, b \in Page : pte'[r][b] = IF r \in {p, c} /\ b = a THEN e ELSE pte[r][b]
    <3>1. pte \in [Slot -> [Page -> Entry]] /\ pte' = [pte EXCEPT ![p][a] = e, ![c][a] = e]
      BY <1>1, <2>2 DEF Types
    <3>2. p \in Slot \ {c} /\ c \in Slot
      BY <1>3
    <3>3. Joined(c, p, a, e)
      BY <3>1, <3>2, EntriesStored, Zenon
    <3> QED BY <3>3 DEF Joined
  <2>4. Moves(p, next) /\ stored' = <<>> /\ content' = content
    BY <1>1, <1>5, <2>2, PcStored DEF Goto
  <2>5. /\ \A b \in Page : pte'[p][b].page = pte[p][b].page /\ pte'[p][b].dirty = pte[p][b].dirty
        /\ \A b \in Page : b = a => pte'[c][b].page = pte[p][b].page
                                    /\ pte'[c][b].dirty = pte[p][b].dirty
        /\ \A b \in Page : b # a => pte'[c][b] = pte[c][b]
    BY <2>1, <2>3
  <2>6. Good(p)'
    <3>1. CleanIsFile(p)'
      <4>1. ~Frees(p, "exec") /\ FilePage \subseteq Page
        BY <1>1, MemoryAssumption DEF Frees
      <4> QED BY <1>1, <2>4, <2>5, <4>1 DEF Good, CleanIsFile, Present
    <3>2. CopiedSoFar(p)'
      BY <1>1, <1>2, <1>3, <1>5, <1>6, <2>4, <2>5 DEF CopiedSoFar, Moves
    <3>3. Brings(p)' /\ StoresOwn(p)'
      BY <1>3, <1>5, <2>4 DEF Brings, StoresOwn, Moves
    <3>4. Programs(p)' /\ Modified(p)'
      BY <1>1, <1>3, <1>5, <2>4 DEF Good, Programs, Modified, Moves, Frees
    <3> QED BY <3>1, <3>2, <3>3, <3>4 DEF Good
  <2>7. View(p)' = View(p)
    <3>1. \A b \in Page : Seen(p, b)' = Seen(p, b)
      BY <1>1, <2>4, <2>5 DEF Seen, Present, Image
    <3> QED BY <1>1, <1>5, <2>4, <3>1, ViewKept DEF Frees, Moves
  <2>8. Good(c) /\ pc[c] = AtUser /\ View(c) = Gone
    BY <1>3, NotAlive DEF AllGood
  <2>9. CleanIsFile(c)'
    <3> SUFFICES ASSUME NEW b \in FilePage, task'[c].exe, Present(c, b)', ~pte'[c][b].dirty
                 PROVE  content'[pte'[c][b].page] = FileValue
      BY DEF CleanIsFile
    <3>1. b \in Page /\ ~Frees(p, "exec") /\ ~Frees(c, "exec")
      BY <1>1, <2>8, MemoryAssumption DEF Frees, AtUser
    <3>2. CASE b = a
      BY <1>1, <1>3, <1>9, <2>4, <2>5, <3>1, <3>2 DEF Good, CleanIsFile
    <3>3. CASE b # a
      BY <1>1, <2>4, <2>5, <2>8, <3>1, <3>3 DEF Good, CleanIsFile, Present
    <3> QED BY <3>2, <3>3
  <2>10. Good(c)' /\ View(c)' = View(c)
    <3>1. Modified(c)' /\ pc'[c] = AtUser /\ load' = load
      BY <1>3, <2>4, <2>8 DEF Modified, Moves
    <3>2. Good(c)'
      BY <1>1, <2>8, <2>9, <3>1, IdleGood DEF Good, Programs
    <3> QED BY <1>1, <1>3, <2>8, <3>2 DEF View
  <2>11. ASSUME NEW q \in Slot \ {p, c} PROVE Good(q)' /\ View(q)' = View(q)
    <3>1. Same(q)
      BY <1>1, <2>3, <2>4 DEF Same, SameMemory, Moves
    <3> QED BY <1>1, <2>4, <3>1, OthersSame DEF AllGood, Moves
  <2> QED BY <2>4, <2>6, <2>7, <2>10, <2>11, NothingSeen DEF Implements, AllGood
<1>10. CASE ~(pg_dir[p][t] # 0 /\ pg_dir[c][t] = 0) /\ ~Present(p, a)
  <2>1. Goto(p, next) /\ UNCHANGED <<content, pte>>
    BY <1>2, <1>3, <1>4, <1>10 DEF copy_page_tables, next, tableVars
  <2>2. Moves(p, next) /\ stored' = <<>>
    BY <1>1, <1>5, <2>1, PcStored DEF Goto
  <2>3. \A q \in Slot : SameMemory(q)
    BY <1>1, <2>1 DEF SameMemory
  <2>4. /\ CleanIsFile(p)' /\ Programs(p)' /\ Modified(p)'
        /\ \A b \in Page : Seen(p, b)' = Seen(p, b)
    BY <1>1, <1>5, <2>2, <2>3, ActorSame DEF Moves
  <2>5. CopiedSoFar(p)'
    BY <1>1, <1>2, <1>3, <1>5, <1>6, <1>10, <2>1, <2>2 DEF CopiedSoFar, Moves, Present
  <2>6. Brings(p)' /\ StoresOwn(p)'
    BY <1>3, <1>5, <2>2 DEF Brings, StoresOwn, Moves
  <2>7. \A q \in Slot \ {p} : Same(q)
    BY <2>2, <2>3 DEF Same, Moves
  <2>8. Good(p)'
    BY <2>4, <2>5, <2>6 DEF Good
  <2> QED BY <1>1, <1>5, <2>2, <2>4, <2>7, <2>8, MoveSeen
<1> QED BY <1>7, <1>8, <1>9, <1>10

\* The child appears with the memory of its father.
LEMMA ForkEndsSeen ==
  ASSUME Typed, Wired, AllGood, NEW p \in Slot, fork_ends(p)
  PROVE  Implements
<1>1. /\ Types /\ At(p, "copy") /\ pc[p].at = "copy" /\ pc[p] \in Position /\ Place(p)
      /\ Good(p) /\ task[p].state = "alive" /\ UNCHANGED <<content, pte>>
  <2>1. At(p, "copy") /\ UNCHANGED <<content, pte>>
    BY DEF fork_ends, tableVars
  <2> QED BY <2>1 DEF Typed, At, Types, AllGood
<1>2. PICK c \in Slot \ {p} : /\ c = pc[p].child /\ task[c].state = "copied"
                              /\ task[c].exe = task[p].exe
  BY <1>1 DEF Place, Copies, Good, CopiedSoFar
<1>3. \A b \in Page : pte[c][b].page = pte[p][b].page
  <2>1. pc[p].a \in 0..NPages + 1 /\ pc[p].a # 0 /\ pc[p].a \notin 1..NPages
    BY <1>1 DEF fork_ends, Page, Position, Place
  <2>2. \A b \in Page : b < pc[p].a
    BY <2>1, Numbers DEF Page
  <2> QED BY <1>1, <1>2, <2>2 DEF Good, CopiedSoFar
<1>4. task' = [task EXCEPT ![c].state = "alive"] /\ Goto(p, AtUser)
  BY <1>2 DEF fork_ends
<1>5. /\ \A q \in Slot \ {c} : task'[q] = task[q]
      /\ task'[c].state = "alive" /\ task'[c].exe = task[c].exe
  <2>1. task' = [task EXCEPT ![c] = [task[c] EXCEPT !.state = "alive"]]
    BY <1>4, Zenon
  <2>2. task[c] \in Task /\ task \in [Slot -> Task]
    BY <1>1 DEF Types
  <2> QED BY <2>1, <2>2 DEF Task
<1>6. Moves(p, AtUser) /\ stored' = <<>>
  BY <1>1, <1>4, PcStored, AbsentIsEntry DEF Goto
<1>7. \A q \in Slot \ {c} : SameMemory(q)
  BY <1>1, <1>5 DEF SameMemory
<1>8. /\ CleanIsFile(p)' /\ Programs(p)' /\ Modified(p)'
      /\ \A a \in Page : Seen(p, a)' = Seen(p, a)
  BY <1>1, <1>2, <1>6, <1>7, ActorSame DEF Moves, AtUser
<1>9. Good(p)' /\ View(p)' = View(p)
  <2>1. Good(p)'
    BY <1>6, <1>8, IdleGood DEF Programs, Moves
  <2>2. View(p)' = View(p)
    BY <1>1, <1>2, <1>5, <1>6, <1>8, ViewKept DEF Frees, Moves, AtUser
  <2> QED BY <2>1, <2>2
<1>10. Good(c) /\ pc[c] = AtUser /\ View(c) = Gone /\ pc'[c] = AtUser
  BY <1>2, <1>6, NotAlive DEF AllGood, Moves
<1>11. Good(c)'
  <2>1. FilePage \subseteq Page
    BY MemoryAssumption
  <2>2. CleanIsFile(c)' /\ Modified(c)' /\ load' = load
    BY <1>1, <1>5, <1>6, <1>10, <2>1 DEF Good, CleanIsFile, Modified, Frees, Present, Moves
  <2> QED BY <1>5, <1>10, <2>2, IdleGood DEF Good, Programs
<1>12. View(c)' = View(p)
  <2>1. View(p) = [b \in Page |-> Seen(p, b)]
    BY <1>1 DEF View, Frees
  <2>2. View(c)' = [b \in Page |-> Seen(c, b)']
    BY <1>5, <1>10 DEF View, Frees, AtUser
  <2>3. \A b \in Page : Seen(c, b)' = Seen(p, b)
    BY <1>1, <1>2, <1>3, <1>5 DEF Seen, Present, Image
  <2> QED BY <2>1, <2>2, <2>3
<1>13. ASSUME NEW q \in Slot \ {p, c} PROVE Good(q)' /\ View(q)' = View(q)
  <2>1. Same(q)
    BY <1>6, <1>7 DEF Same, Moves
  <2> QED BY <1>1, <1>6, <2>1, OthersSame DEF AllGood, Moves
<1>14. View(p) # Gone
  BY <1>1, ViewIsMemory DEF Frees
<1> QED BY <1>2, <1>6, <1>9, <1>10, <1>11, <1>12, <1>13, <1>14, ForkSeen DEF Implements, AllGood

\* What free_page_tables() releases is not seen any more, or not yet.
LEMMA FreeSeen ==
  ASSUME Typed, Wired, AllGood, NEW p \in Slot, free_page_tables(p)
  PROVE  Implements
<1>1. /\ Types /\ At(p, "free") /\ pc[p].at = "free" /\ Place(p) /\ Good(p)
      /\ task[p].state = "alive"
  <2>1. At(p, "free")
    BY DEF free_page_tables
  <2> QED BY <2>1 DEF Typed, At, AllGood
<1>2. PICK q \in Slot : /\ q = Released(p)
                        /\ q = p => pc[p].ret \in {"exit", "exec"}
                        /\ q # p => task[q].state = "copied" /\ pc[p].ret = "fork_failed"
  BY <1>1, ReleasedSlot DEF Place
<1>3. panic' = "none"
  BY StepInv DEF Next, Typed, Types
<1>4. UNCHANGED <<content, task>> /\ Goto(p, pc[p])
  <2>1. "none" # "trying to free free page"
    OBVIOUS
  <2> QED BY <1>3, <2>1 DEF free_page_tables, Panic
<1>5. /\ \A r \in Slot \ {q} : pte'[r] = pte[r]
      /\ \A b \in Page : pte'[q][b] \in {pte[q][b], Absent}
  <2>1. \/ pte' = pte
        \/ PagesOf(q) # {} /\ pte' = [pte EXCEPT ![q][Min(PagesOf(q))] = Absent]
    BY <1>2, <1>3 DEF free_page_tables, Panic
  <2> QED BY <1>1, <2>1 DEF Types
<1>6. pc' = pc /\ load' = load /\ stored' = <<>>
  <2>1. pc' = [pc EXCEPT ![p] = pc[p]]
    BY <1>4 DEF Goto, Continues
  <2> QED BY <1>1, <1>4, <2>1 DEF Goto, Continues, Types
<1>7. \A r \in Slot \ {q} : Same(r)
  BY <1>4, <1>5, <1>6 DEF Same, SameMemory
<1>8. ASSUME NEW r \in Slot \ {q} PROVE Good(r)' /\ View(r)' = View(r)
  <2>1. pc[r].at \notin {"put_page", "copy"}
    BY <1>1, OthersSleep
  <2>2. Good(r)
    BY DEF AllGood
  <2> QED BY <1>6, <1>7, <2>1, <2>2, SameGood, SameView
<1>9. CleanIsFile(q)' /\ Modified(q)'
  <2>1. \A b \in Page : Present(q, b)' => pte'[q][b] = pte[q][b]
    BY <1>5 DEF Present, Absent
  <2>2. Good(q) /\ FilePage \subseteq Page
    BY MemoryAssumption DEF AllGood
  <2> QED BY <1>4, <1>6, <2>1, <2>2 DEF Good, CleanIsFile, Modified, Frees, Present
<1>10. Good(q)' /\ View(q)' = View(q)
  <2>1. CASE q = p
    <3>1. Good(p)'
      BY <1>1, <1>4, <1>6, <1>9, <2>1
         DEF Good, Brings, StoresOwn, CopiedSoFar, Programs, Frees
    <3>2. View(p)' = View(p)
      BY <1>1, <1>2, <1>4, <1>6, <2>1 DEF View, Frees, Image
    <3> QED BY <2>1, <3>1, <3>2
  <2>2. CASE q # p
    <3>1. pc[q] = AtUser /\ View(q) = Gone /\ Good(q)
      BY <1>2, <2>2, NotAlive DEF AllGood
    <3>2. Good(q)'
      BY <1>4, <1>6, <1>9, <3>1, IdleGood DEF Good, Programs
    <3> QED BY <1>2, <1>4, <2>2, <3>1, <3>2 DEF View
  <2> QED BY <2>1, <2>2
<1> QED BY <1>6, <1>8, <1>10, NothingSeen DEF Implements, AllGood

\* The end of the release: nothing is seen of it, the memory went before.
LEMMA FreeEndsSeen ==
  ASSUME Typed, Wired, AllGood, NEW p \in Slot, free_ends(p)
  PROVE  Implements
<1>1. /\ Types /\ At(p, "free") /\ pc[p].at = "free" /\ Place(p) /\ Good(p)
      /\ task[p].state = "alive" /\ UNCHANGED <<content, pte>> /\ Goto(p, AtUser)
  <2>1. At(p, "free") /\ UNCHANGED <<content, pte>> /\ Goto(p, AtUser)
    BY DEF free_ends, tableVars
  <2> QED BY <2>1 DEF Typed, At, AllGood
<1>2. PICK q \in Slot : /\ q = Released(p)
                        /\ pc[p].ret # "fork_failed" => q = p
                        /\ pc[p].ret = "fork_failed" => q # p /\ task[q].state = "copied"
  BY <1>1, ReleasedSlot
<1>3. \A b \in Page : ~Present(q, b)
  BY <1>2 DEF free_ends, PagesOf
<1>4. Moves(p, AtUser) /\ stored' = <<>>
  BY <1>1, PcStored, AbsentIsEntry DEF Goto
<1>5. FilePage \subseteq Page
  BY MemoryAssumption
<1>6. \A r \in Slot : task'[r] = task[r] => SameMemory(r)
  BY <1>1 DEF SameMemory
<1>7. ASSUME NEW r \in Slot \ {p}, task'[r] = task[r] PROVE Good(r)' /\ View(r)' = View(r)
  <2>1. Same(r)
    BY <1>4, <1>6, <1>7 DEF Same, Moves
  <2> QED BY <1>1, <1>4, <2>1, OthersSame DEF AllGood, Moves
<1>8. CASE pc[p].ret = "exit"
  <2>1. task' = [task EXCEPT ![p].state = "zombie", ![p].exe = FALSE]
    BY <1>8 DEF free_ends
  <2>2. /\ \A r \in Slot \ {p} : task'[r] = task[r]
        /\ task'[p].state = "zombie" /\ ~task'[p].exe
    <3>1. task[p] \in Task
      BY <1>1 DEF Types
    <3> QED BY <1>1, <2>1, <3>1 DEF Types, Task
  <2>3. Good(p)'
    <3>1. CleanIsFile(p)' /\ Modified(p)'
      BY <1>1, <1>4, <2>2 DEF CleanIsFile, Good, Modified, Present, Moves
    <3> QED BY <1>4, <2>2, <3>1, IdleGood DEF Moves
  <2>4. View(p)' = View(p)
    BY <1>1, <1>8, <2>2 DEF View, Frees
  <2> QED BY <1>4, <1>7, <2>2, <2>3, <2>4, NothingSeen DEF Implements, AllGood
<1>9. CASE pc[p].ret = "exec"
  <2>1. task' = task /\ task[p].exe
    BY <1>1, <1>9 DEF free_ends, Good, Programs, Frees
  <2>2. Good(p)'
    <3>1. CleanIsFile(p)' /\ Modified(p)'
      BY <1>1, <1>2, <1>3, <1>5, <1>9 DEF CleanIsFile, Modified, Present
    <3> QED BY <1>1, <1>4, <2>1, <3>1, IdleGood DEF Good, Programs, Moves
  <2>3. View(p)' = View(p)
    <3>1. View(p) = Image
      BY <1>1, <1>9 DEF View, Frees
    <3>2. View(p)' = [b \in Page |-> Seen(p, b)']
      BY <1>1, <1>4, <2>1 DEF View, Frees, Moves, AtUser
    <3>3. \A b \in Page : Seen(p, b)' = Image[b]
      BY <1>1, <1>2, <1>3, <1>9, <2>1 DEF Seen, Present, Image
    <3> QED BY <3>1, <3>2, <3>3 DEF Image
  <2> QED BY <1>4, <1>7, <2>1, <2>2, <2>3, NothingSeen DEF Implements, AllGood
<1>10. CASE pc[p].ret = "fork_failed"
  <2>1. task' = [task EXCEPT ![q] = NoTask]
    BY <1>2, <1>10 DEF free_ends
  <2>2. \A r \in Slot : task'[r] = IF r = q THEN NoTask ELSE task[r]
    BY <1>1, <2>1 DEF Types
  <2>3. Good(p)' /\ View(p)' = View(p)
    <3>1. SameMemory(p)
      BY <1>2, <1>6, <1>10, <2>2
    <3>2. CleanIsFile(p)' /\ Modified(p)' /\ \A b \in Page : Seen(p, b)' = Seen(p, b)
      BY <1>1, <1>4, <1>5, <1>10, <3>1
         DEF Good, CleanIsFile, Modified, SameMemory, Frees, Present, Seen, Image, Moves
    <3>3. Good(p)'
      BY <1>1, <1>4, <3>1, <3>2, IdleGood DEF Good, Programs, SameMemory, Moves
    <3>4. View(p)' = View(p)
      BY <1>1, <1>4, <1>10, <3>1, <3>2, ViewKept DEF SameMemory, Frees, Moves, AtUser
    <3> QED BY <3>3, <3>4
  <2>4. Good(q)' /\ View(q)' = View(q)
    <3>1. pc[q] = AtUser /\ View(q) = Gone /\ task'[q] = NoTask /\ pc'[q] = AtUser
      BY <1>2, <1>4, <1>10, <2>2, NotAlive DEF Moves
    <3>2. CleanIsFile(q)' /\ Modified(q)'
      BY <1>1, <1>3, <1>5 DEF CleanIsFile, Modified, Present
    <3>3. Good(q)'
      BY <1>4, <3>1, <3>2, IdleGood DEF NoTask, Moves
    <3> QED BY <3>1, <3>3 DEF View, NoTask
  <2> QED BY <1>4, <1>7, <2>2, <2>3, <2>4, NothingSeen DEF Implements, AllGood
<1> QED BY <1>1, <1>8, <1>9, <1>10 DEF Place

\* do_exit() and do_execve() take the memory away before they release it.
LEMMA ExitIsSeen ==
  ASSUME Typed, Wired, AllGood, NEW p \in Slot, do_exit(p)
  PROVE  Implements
<1>1. At(p, "user") /\ oom(p) /\ UNCHANGED <<content, task, pte>>
  BY DEF do_exit, oom, tableVars
<1> QED BY <1>1, OomSeen

\* do_execve() gives the process the image of the program.
LEMMA ExecIsSeen ==
  ASSUME Typed, Wired, AllGood, NEW p \in Slot, do_execve(p)
  PROVE  Implements
<1>1. /\ Types /\ At(p, "user") /\ pc[p].at = "user" /\ Good(p) /\ task[p].state = "alive"
      /\ UNCHANGED <<content, pte>> /\ "exec" \in load.calls
  BY DEF do_execve, Typed, At, AllGood, tableVars
<1> DEFINE g == Releases(p, "exec")
<1>2. g \in Position /\ g.at = "free" /\ g.ret = "exec"
  BY <1>1, Positions DEF Releases, AtUser
<1>3. Goto(p, g) /\ task' = [task EXCEPT ![p].exe = TRUE]
  BY DEF do_execve
<1> HIDE DEF g
<1>4. Moves(p, g) /\ stored' = <<>>
  BY <1>1, <1>2, <1>3, PcStored DEF Goto
<1>5. /\ \A r \in Slot \ {p} : task'[r] = task[r]
      /\ task'[p].state = "alive" /\ task'[p].exe
  <2>1. task[p] \in Task
    BY <1>1 DEF Types
  <2> QED BY <1>1, <1>3, <2>1 DEF Types, Task
<1>6. Good(p)'
  BY <1>1, <1>2, <1>4, <1>5
     DEF Good, CleanIsFile, Brings, StoresOwn, CopiedSoFar, Programs, Modified, Moves, Frees, Present
<1>7. View(p) # Gone
  BY <1>1, ViewIsMemory DEF Frees
<1>8. View(p)' = Image
  BY <1>2, <1>4, <1>5 DEF View, Moves, Frees, Image
<1>9. ASSUME NEW q \in Slot \ {p} PROVE Good(q)' /\ View(q)' = View(q)
  <2>1. Same(q)
    BY <1>1, <1>4, <1>5 DEF Same, SameMemory, Moves
  <2> QED BY <1>1, <1>4, <2>1, OthersSame DEF AllGood, Moves
<1> QED BY <1>4, <1>6, <1>7, <1>8, <1>9, ExecSeen DEF Implements, AllGood

\* A zombie has no memory to be seen.
LEMMA ReleaseSeen ==
  ASSUME Typed, Wired, AllGood, NEW q \in Slot, release(q)
  PROVE  Implements
<1>1. /\ Types /\ task[q].state = "zombie" /\ busy = 0 /\ Empty(q)
      /\ UNCHANGED <<content, pte, pc, load>> /\ stored' = <<>>
      /\ task' = [task EXCEPT ![q] = NoTask]
  BY DEF Typed, Lives, release, tableVars
<1>2. \A r \in Slot : task'[r] = IF r = q THEN NoTask ELSE task[r]
  BY <1>1 DEF Types
<1>3. Good(q)' /\ View(q)' = View(q)
  <2>1. pc[q] = AtUser /\ View(q) = Gone
    BY <1>1, NotAlive
  <2>2. CleanIsFile(q)' /\ Modified(q)'
    BY <1>1, MemoryAssumption DEF CleanIsFile, Modified, Present, Empty
  <2>3. Good(q)'
    BY <1>1, <1>2, <2>1, <2>2, IdleGood DEF NoTask
  <2> QED BY <1>2, <2>1, <2>3 DEF View, NoTask
<1>4. ASSUME NEW r \in Slot \ {q} PROVE Good(r)' /\ View(r)' = View(r)
  <2>1. Same(r)
    BY <1>1, <1>2 DEF Same, SameMemory
  <2>2. pc[r].at \notin {"put_page", "copy"}
    BY <1>1, Numbers DEF Typed, Place, Sleeps
  <2> QED BY <1>1, <2>1, <2>2, SameGood, SameView DEF AllGood
<1> QED BY <1>1, <1>3, <1>4, NothingSeen DEF Implements, AllGood

-----------------------------------------------------------------------------
(* The theorem *)

\* At the start the memories are those the abstract specification starts from.
LEMMA StartSeen ==
  ASSUME Init
  PROVE  AllGood /\ Private!Init
<1>1. load \in Workloads /\ load.exe \in BOOLEAN
  BY MemoryAssumption DEF Init
<1>2. /\ \A q \in Slot : pc[q] = AtUser
      /\ \A q \in Slot, a \in Page : ~Present(q, a)
      /\ \A q \in Slot : \/ task[q].state = "alive" /\ task[q].exe = load.exe
                         \/ task[q].state = "free" /\ task[q].exe = FALSE
      /\ stored = <<>>
  BY DEF Init, Present, Absent, NoTask
<1>3. ASSUME NEW q \in Slot PROVE Good(q)
  <2>1. FilePage \subseteq Page
    BY MemoryAssumption
  <2>2. CleanIsFile(q) /\ Modified(q)
    BY <1>2, <2>1 DEF CleanIsFile, Modified
  <2>3. Brings(q) /\ StoresOwn(q) /\ CopiedSoFar(q) /\ Programs(q)
    BY <1>2 DEF Brings, StoresOwn, CopiedSoFar, Programs, Frees, AtUser
  <2> QED BY <2>2, <2>3 DEF Good
<1>4. ASSUME NEW q \in Slot PROVE View(q) \in {Gone} \union Private!Empty
  <2>1. ~Frees(q, "exit") /\ ~Frees(q, "exec")
    BY <1>2 DEF Frees, AtUser
  <2>2. CASE task[q].state = "free"
    BY <2>2 DEF View
  <2>3. CASE task[q].state = "alive" /\ task[q].exe
    <3>1. \A a \in Page : Seen(q, a) = Image[a]
      BY <1>2, <2>3 DEF Seen
    <3>2. View(q) = Image
      BY <2>1, <2>3, <3>1 DEF View, Image
    <3> QED BY <3>2 DEF Private!Empty
  <2>4. CASE task[q].state = "alive" /\ ~task[q].exe
    <3>1. \A a \in Page : Seen(q, a) = 0
      BY <1>2, <2>4 DEF Seen
    <3>2. View(q) = [a \in Page |-> 0]
      BY <2>1, <2>4, <3>1 DEF View
    <3> QED BY <3>2 DEF Private!Empty
  <2> QED BY <1>2, <2>2, <2>3, <2>4
<1>5. Space \in [Slot -> {Gone} \union Private!Empty]
  BY <1>4, SpaceIsView
<1> QED BY <1>2, <1>3, <1>5 DEF AllGood, Private!Init

\* Every step keeps what the mapping needs and is a step of the abstract memory.
LEMMA StepSeen ==
  ASSUME Typed, Wired, AllGood, RaceFree(load), Next
  PROVE  Implements
<1>1. ASSUME NEW p \in Slot,
             \/ share_page(p) \/ do_no_page(p) \/ bread_page(p) \/ put_page(p) \/ un_wp_page(p)
             \/ put_fs_byte(p)
      PROVE  Implements
  BY <1>1, SharePageSeen, DoNoPageSeen, BreadPageSeen, PutPageSeen, UnWpPageSeen, PutFsByteSeen
<1>2. ASSUME NEW p \in Slot, NEW a \in Page, Trap(p, a) \/ verify_area(p, a)
      PROVE  Implements
  BY <1>2, TrapSeen
<1>3. ASSUME NEW p \in Slot, NEW a \in Page, NEW v \in Value, UserWrite(p, a, v)
      PROVE  Implements
  BY <1>3, UserWriteSeen
<1>4. ASSUME NEW p \in Slot,
             \/ fork(p) \/ copy_page_tables(p) \/ fork_ends(p)
             \/ free_page_tables(p) \/ free_ends(p) \/ do_exit(p) \/ do_execve(p) \/ release(p)
      PROVE  Implements
  BY <1>4, ForkStarts, CopySeen, ForkEndsSeen, FreeSeen, FreeEndsSeen, ExitIsSeen, ExecIsSeen,
     ReleaseSeen
<1> QED BY <1>1, <1>2, <1>3, <1>4, Zenon DEF Next

\* Where no race of verify_area() and no lost dirty bit can come in, every
\* process has a memory of its own: it is copied by fork(), replaced by exec(),
\* and changed by nothing but the stores of the process.
THEOREM MemoryIsPrivate ==
  ASSUME \A w \in Workloads : RaceFree(w)
  PROVE  Spec => ImplementsPrivateMemory
<1>1. Init => AllGood /\ Private!Init
  BY StartSeen
<1>2. Typed /\ Wired /\ AllGood /\ [Next]_vars => AllGood' /\ [Private!Next]_(Private!vars)
  <2> SUFFICES ASSUME Typed, Wired, AllGood, [Next]_vars
               PROVE  AllGood' /\ [Private!Next]_(Private!vars)
    OBVIOUS
  <2>1. CASE Next
    <3>1. RaceFree(load)
      BY DEF Typed, Types
    <3> QED BY <2>1, <3>1, StepSeen DEF Implements
  <2>2. CASE UNCHANGED vars
    <3>1. UNCHANGED <<mem_map, content, task, pg_dir, pte, pc, busy, panic, stored, load>>
      BY <2>2 DEF vars, tableVars
    <3>2. ASSUME NEW q \in Slot PROVE Good(q)' /\ View(q)' = View(q)
      <4>1. Same(q)
        BY <3>1 DEF Same, SameMemory
      <4> QED BY <3>1, <4>1, SameGood, SameView DEF AllGood
    <3>3. Space' = Space
      BY <3>2, SpaceIsView
    <3> QED BY <3>1, <3>2, <3>3 DEF AllGood, Private!vars
  <2> QED BY <2>1, <2>2
<1>3. Spec => Private!Spec
  BY <1>1, <1>2, Always, PTL DEF Spec, Private!Spec
<1> QED BY <1>3 DEF ImplementsPrivateMemory
==============================================================================
