-------------------------------- MODULE Memory --------------------------------
(***************************************************************************)
(* Memory management: mm/memory.c with its callers in kernel/fork.c,       *)
(* kernel/exit.c and fs/exec.c.  Pages are shared by fork() and by         *)
(* processes that run the same program, copied when they are written, and  *)
(* counted in mem_map.                                                     *)
(*                                                                         *)
(* A process in the kernel is not preempted: busy names the process in the *)
(* middle of a fault, a fork() or the release of its memory, which takes a *)
(* step for each page or page table.  It gives the processor away while    *)
(* bread_page() reads a page of the program (label "load"), and in a       *)
(* system call between verify_area() and the store into the user's buffer  *)
(* (label "store").                                                        *)
(*                                                                         *)
(* The processor: a user's write to a page without the write bit traps; a  *)
(* write of the kernel does not (80386).  Every write sets the dirty bit.  *)
(* Translations are flushed where the code calls invalidate(), so a stale  *)
(* one is not modelled.                                                    *)
(***************************************************************************)
EXTENDS Naturals, FiniteSetsExt

CONSTANTS Slot,       \* entries of task[], without task 0
          NFrames,    \* pages of memory above LOW_MEM
          NPages,     \* pages of an address space
          NTables,    \* page tables of an address space
          TableOf,    \* page -> the table its entry is in
          FilePage,   \* the pages below end_data, which a program file has
          Value,      \* what a page may hold: 0 and others
          FileValue,  \* what the program file holds
          Workloads,  \* what the processes do: see MemoryAssumption
          Gone        \* the memory of no process

Frame == 1..NFrames
Page == 1..NPages
Table == 1..NTables

ASSUME MemoryAssumption ==
    /\ Slot \subseteq Nat \ {0} /\ IsFiniteSet(Slot)
    /\ NFrames \in Nat /\ NPages \in Nat /\ NTables \in Nat
    /\ TableOf \in [Page -> Table]
    /\ FilePage \subseteq Page
    /\ {0, FileValue} \subseteq Value
    \* A workload says who is alive at the start, with or without a program,
    \* which calls are made, and which pages are written.
    /\ Workloads \subseteq [alive : SUBSET Slot, exe : BOOLEAN, written : SUBSET Page,
                           calls : SUBSET {"fork", "exit", "exec", "store"}]
    /\ \A w \in Workloads : Cardinality(w.alive) <= NFrames
    /\ Gone \notin [Page -> Value]

VARIABLES mem_map,    \* frame -> number of its users
          content,    \* frame -> what it holds
          task,       \* slot -> state, page of the task structure, whether
                      \*   the process runs a program file
          pg_dir,     \* slot -> table -> frame, 0 when absent
          pte,        \* slot -> page -> entry of its page table
          pc,         \* slot -> where the process is, and local variables
          busy,       \* the process that runs in the kernel, or 0
          panic,      \* "none" or the message the kernel stopped with
          stored,     \* <<p, a>> when the last step was p's store into
                      \*   page a, otherwise <<>>
          load        \* the workload, chosen at the start

tableVars == <<pg_dir, pte>>
vars == <<mem_map, content, task, pg_dir, pte, pc, busy, panic, stored, load>>

Absent == [page |-> 0, w |-> FALSE, dirty |-> FALSE]
Present(p, a) == pte[p][a].page # 0
NoTask == [state |-> "free", page |-> 0, exe |-> FALSE]

(* a: the page worked on; ret: where to go on afterwards; hand: a page the *)
(* process has taken and not yet mapped; child: the slot fork() fills.     *)
AtUser == [at |-> "user", a |-> 0, ret |-> "user", hand |-> 0, child |-> 0]

(* Those who are alive have a page for the task structure and no memory    *)
(* yet.                                                                    *)
Init ==
    /\ load \in Workloads
    /\ task = [p \in Slot |->
                 IF p \in load.alive
                   THEN [state |-> "alive", exe |-> load.exe,
                         page |-> Cardinality({q \in load.alive : q <= p})]
                   ELSE NoTask]
    /\ mem_map = [f \in Frame |-> IF f <= Cardinality(load.alive) THEN 1 ELSE 0]
    /\ content = [f \in Frame |-> 0]
    /\ pg_dir = [p \in Slot |-> [t \in Table |-> 0]]
    /\ pte = [p \in Slot |-> [a \in Page |-> Absent]]
    /\ pc = [p \in Slot |-> AtUser]
    /\ busy = 0
    /\ panic = "none"
    /\ stored = <<>>

-----------------------------------------------------------------------------
(* Helpers *)

(* p runs at the label. *)
At(p, label) ==
    /\ panic = "none" /\ task[p].state = "alive"
    /\ busy \in {0, p} /\ pc[p].at = label

Sleeps(label) == label \in {"user", "load", "store"}
Continues(p, f) ==
    /\ pc' = [pc EXCEPT ![p] = f]
    /\ busy' = IF Sleeps(f.at) THEN 0 ELSE p
    /\ UNCHANGED <<panic, load>>
Goto(p, f) == Continues(p, f) /\ stored' = <<>>

Panic(msg) ==
    /\ panic' = msg
    /\ stored' = <<>>
    /\ UNCHANGED <<mem_map, content, task, pg_dir, pte, pc, busy, load>>

(* get_free_page(): the last free page, filled with zeroes; 0 if none *)
FreeFrames == {f \in Frame : mem_map[f] = 0}
get_free_page == IF FreeFrames = {} THEN 0 ELSE Max(FreeFrames)
Taken(f) == [mem_map EXCEPT ![f] = 1]
Cleared(f) == [content EXCEPT ![f] = 0]

(* A fault has been served: back to the user or to the system call.  The   *)
(* page is kept for the call, which tries its store again.                 *)
Served(p) == IF pc[p].ret = "store"
               THEN [pc[p] EXCEPT !.at = "store", !.hand = 0]
               ELSE AtUser

(* free_page_tables() is called for q, then the label ret is reached *)
Releases(p, ret) == [AtUser EXCEPT !.at = "free", !.ret = ret, !.child = pc[p].child]

-----------------------------------------------------------------------------
(* Faults *)

(* oom(): the process exits *)
oom(p) == Goto(p, Releases(p, "exit"))

(* Mutant: the page need not be clean. *)
SharersOfAny(p, a) ==
    {q \in Slot \ {p} : task[q].state = "alive" /\ task[q].exe /\ Present(q, a)}

(* share_page(): another process with the same program has the page, and   *)
(* it is clean; the tasks are searched from the last to the first.         *)
Sharers(p, a) ==
    {q \in Slot \ {p} : /\ task[q].state = "alive" /\ task[q].exe
                        /\ Present(q, a) /\ ~pte[q][a].dirty}
MayShare(p, a) == task[p].exe /\ a \in FilePage /\ Sharers(p, a) # {}

(* try_to_share(): first the page table, if there is none *)
share_page(p) ==
    LET a == pc[p].a
        q == Max(Sharers(p, a))
        f == get_free_page
        shared == [pte[q][a] EXCEPT !.w = FALSE]
    IN /\ At(p, "no_page") /\ MayShare(p, a)
       /\ IF pg_dir[p][TableOf[a]] = 0
            THEN IF f = 0
                   THEN oom(p) /\ UNCHANGED <<mem_map, content, task, tableVars>>
                   ELSE /\ mem_map' = Taken(f)
                        /\ content' = Cleared(f)
                        /\ pg_dir' = [pg_dir EXCEPT ![p][TableOf[a]] = f]
                        /\ Goto(p, pc[p])
                        /\ UNCHANGED <<task, pte>>
            ELSE IF Present(p, a)
                   THEN Panic("try_to_share: to_page already exists")
                   ELSE /\ pte' = [pte EXCEPT ![q][a] = shared, ![p][a] = shared]
                        /\ mem_map' = [mem_map EXCEPT ![shared.page] = @ + 1]
                        /\ Goto(p, Served(p))
                        /\ UNCHANGED <<content, task, pg_dir>>

(* do_no_page() for a page nobody shares: an empty page, or one that       *)
(* bread_page() fills from the program file                                *)
do_no_page(p) ==
    LET a == pc[p].a
        f == get_free_page
        fromFile == task[p].exe /\ a \in FilePage
    IN /\ At(p, "no_page") /\ ~MayShare(p, a)
       /\ UNCHANGED <<task, tableVars>>
       /\ IF f = 0
            THEN oom(p) /\ UNCHANGED <<mem_map, content>>
            ELSE /\ mem_map' = Taken(f)
                 /\ content' = Cleared(f)
                 /\ Goto(p, [pc[p] EXCEPT !.hand = f,
                                          !.at = IF fromFile THEN "load" ELSE "put_page"])

(* bread_page() has the blocks *)
bread_page(p) ==
    /\ At(p, "load")
    /\ content' = [content EXCEPT ![pc[p].hand] = FileValue]
    /\ Goto(p, [pc[p] EXCEPT !.at = "put_page"])
    /\ UNCHANGED <<mem_map, task, tableVars>>

(* Mutant: without a page table the page is not freed. *)
put_page_leaks(p) ==
    LET t == TableOf[pc[p].a]
        f == get_free_page
        new == [page |-> pc[p].hand, w |-> TRUE, dirty |-> FALSE]
    IN /\ At(p, "put_page")
       /\ UNCHANGED task
       /\ IF pg_dir[p][t] # 0
            THEN /\ pte' = [pte EXCEPT ![p][pc[p].a] = new]
                 /\ Goto(p, Served(p))
                 /\ UNCHANGED <<mem_map, content, pg_dir>>
            ELSE IF f = 0
            THEN oom(p) /\ UNCHANGED <<mem_map, content, tableVars>>
            ELSE /\ mem_map' = Taken(f)
                 /\ content' = Cleared(f)
                 /\ pg_dir' = [pg_dir EXCEPT ![p][t] = f]
                 /\ Goto(p, pc[p])
                 /\ UNCHANGED pte

(* put_page(), which may need a page table; without one the page is freed *)
put_page(p) ==
    LET a == pc[p].a
        f == get_free_page
        hand == pc[p].hand
    IN /\ At(p, "put_page")
       /\ UNCHANGED task
       /\ IF pg_dir[p][TableOf[a]] # 0
            THEN /\ pte' = [pte EXCEPT ![p][a] = [page |-> hand, w |-> TRUE, dirty |-> FALSE]]
                 /\ Goto(p, Served(p))
                 /\ UNCHANGED <<mem_map, content, pg_dir>>
            ELSE IF f = 0
            THEN /\ mem_map' = [mem_map EXCEPT ![hand] = @ - 1]
                 /\ oom(p)
                 /\ UNCHANGED <<content, tableVars>>
            ELSE /\ mem_map' = Taken(f)
                 /\ content' = Cleared(f)
                 /\ pg_dir' = [pg_dir EXCEPT ![p][TableOf[a]] = f]
                 /\ Goto(p, pc[p])
                 /\ UNCHANGED pte

(* un_wp_page(): the last user gets the page itself, any other a copy *)
un_wp_page(p) ==
    LET a == pc[p].a
        old == pte[p][a].page
        f == get_free_page
    IN /\ At(p, "wp_page")
       /\ UNCHANGED <<task, pg_dir>>
       /\ IF mem_map[old] = 1
            THEN /\ pte' = [pte EXCEPT ![p][a].w = TRUE]
                 /\ Goto(p, Served(p))
                 /\ UNCHANGED <<mem_map, content>>
            ELSE IF f = 0
            THEN oom(p) /\ UNCHANGED <<mem_map, content, pte>>
            ELSE /\ mem_map' = [mem_map EXCEPT ![f] = 1, ![old] = @ - 1]
                 /\ content' = [content EXCEPT ![f] = content[old]]
                 /\ pte' = [pte EXCEPT ![p][a] = [page |-> f, w |-> TRUE, dirty |-> FALSE]]
                 /\ Goto(p, Served(p))

-----------------------------------------------------------------------------
(* What a process does with its memory *)

(* It uses a page that is absent, or writes one that is write-protected. *)
Trap(p, a) ==
    /\ At(p, "user")
    /\ \/ /\ ~Present(p, a)
          /\ Goto(p, [AtUser EXCEPT !.at = "no_page", !.a = a])
       \/ /\ Present(p, a) /\ ~pte[p][a].w /\ a \in load.written
          /\ Goto(p, [AtUser EXCEPT !.at = "wp_page", !.a = a])
    /\ UNCHANGED <<mem_map, content, task, tableVars>>

Store(p, a, v) ==
    /\ content' = [content EXCEPT ![pte[p][a].page] = v]
    /\ pte' = [pte EXCEPT ![p][a].dirty = TRUE]
    /\ Continues(p, AtUser)
    /\ stored' = <<p, a>>
    /\ UNCHANGED <<mem_map, task, pg_dir>>

UserWrite(p, a, v) ==
    At(p, "user") /\ a \in load.written /\ pte[p][a].w /\ Store(p, a, v)

(* A system call that answers into page a: verify_area() first *)
verify_area(p, a) ==
    /\ At(p, "user") /\ "store" \in load.calls /\ a \in load.written
    /\ Goto(p, [AtUser EXCEPT !.a = a, !.ret = "store",
                  !.at = IF Present(p, a) /\ ~pte[p][a].w THEN "wp_page" ELSE "store"])
    /\ UNCHANGED <<mem_map, content, task, tableVars>>

(* put_fs_byte(), with the kernel's rights; an absent page traps *)
put_fs_byte(p) ==
    LET a == pc[p].a
    IN /\ At(p, "store")
       /\ \/ Present(p, a) /\ \E v \in Value : Store(p, a, v)
          \/ /\ ~Present(p, a)
             /\ Goto(p, [pc[p] EXCEPT !.at = "no_page"])
             /\ UNCHANGED <<mem_map, content, task, tableVars>>

-----------------------------------------------------------------------------
(* fork(): copy_process() and copy_page_tables(), page by page *)

fork(p) ==
    LET free == {c \in Slot : task[c].state = "free"}
        c == Min(free)
        f == get_free_page
    IN /\ At(p, "user") /\ "fork" \in load.calls
       /\ free # {} /\ f # 0
       /\ IF \E t \in Table : pg_dir[c][t] # 0
            THEN Panic("copy_page_tables: already exist")
            ELSE /\ mem_map' = Taken(f)
                 /\ content' = Cleared(f)
                 /\ task' = [task EXCEPT ![c] = [state |-> "copied", page |-> f,
                                                 exe |-> task[p].exe]]
                 /\ Goto(p, [AtUser EXCEPT !.at = "copy", !.a = 1, !.child = c])
                 /\ UNCHANGED tableVars

(* Mutant: the father's entry stays as it is. *)
OnlyChild(p, c, a, entry) == [pte EXCEPT ![c][a] = entry]

(* Father and child get the write-protected entry. *)
Both(p, c, a, entry) == [pte EXCEPT ![p][a] = entry, ![c][a] = entry]

copy_page_tables(p) ==
    LET a == pc[p].a
        c == pc[p].child
        t == TableOf[a]
        f == get_free_page
        this_page == [pte[p][a] EXCEPT !.w = FALSE]
        next == [pc[p] EXCEPT !.a = a + 1]
    IN /\ At(p, "copy") /\ a \in Page
       /\ UNCHANGED task
       /\ IF pg_dir[p][t] # 0 /\ pg_dir[c][t] = 0
            THEN IF f = 0
                   THEN /\ Goto(p, Releases(p, "fork_failed"))
                        /\ UNCHANGED <<mem_map, content, tableVars>>
                   ELSE /\ mem_map' = Taken(f)
                        /\ content' = Cleared(f)
                        /\ pg_dir' = [pg_dir EXCEPT ![c][t] = f]
                        /\ Goto(p, pc[p])
                        /\ UNCHANGED pte
            ELSE IF Present(p, a)
            THEN /\ pte' = Both(p, c, a, this_page)
                 /\ mem_map' = [mem_map EXCEPT ![this_page.page] = @ + 1]
                 /\ Goto(p, next)
                 /\ UNCHANGED <<content, pg_dir>>
            ELSE Goto(p, next) /\ UNCHANGED <<mem_map, content, tableVars>>

fork_ends(p) ==
    /\ At(p, "copy") /\ pc[p].a \notin Page
    /\ task' = [task EXCEPT ![pc[p].child].state = "alive"]
    /\ Goto(p, AtUser)
    /\ UNCHANGED <<mem_map, content, tableVars>>

-----------------------------------------------------------------------------
(* free_page_tables(), for the process itself or for a failed fork() *)

Released(p) == IF pc[p].ret = "fork_failed" THEN pc[p].child ELSE p
PagesOf(q) == {a \in Page : Present(q, a)}
TablesOf(q) == {t \in Table : pg_dir[q][t] # 0}

free_page_tables(p) ==
    LET q == Released(p)
        a == Min(PagesOf(q))
        t == Min(TablesOf(q))
        f == IF PagesOf(q) # {} THEN pte[q][a].page ELSE pg_dir[q][t]
    IN /\ At(p, "free") /\ PagesOf(q) \cup TablesOf(q) # {}
       /\ IF mem_map[f] = 0
            THEN Panic("trying to free free page")
            ELSE /\ mem_map' = [mem_map EXCEPT ![f] = @ - 1]
                 /\ IF PagesOf(q) # {}
                      THEN pte' = [pte EXCEPT ![q][a] = Absent] /\ UNCHANGED pg_dir
                      ELSE pg_dir' = [pg_dir EXCEPT ![q][t] = 0] /\ UNCHANGED pte
                 /\ Goto(p, pc[p])
                 /\ UNCHANGED <<content, task>>

(* The end of do_exit(), of do_execve() and of a fork() without memory *)
free_ends(p) ==
    LET q == Released(p)
        f == task[q].page
    IN /\ At(p, "free") /\ PagesOf(q) \cup TablesOf(q) = {}
       /\ CASE pc[p].ret = "exit" ->
                 /\ task' = [task EXCEPT ![p].state = "zombie", ![p].exe = FALSE]
                 /\ UNCHANGED mem_map
            [] pc[p].ret = "exec" -> UNCHANGED <<task, mem_map>>
            [] OTHER ->
                 /\ mem_map' = [mem_map EXCEPT ![f] = @ - 1]
                 /\ task' = [task EXCEPT ![q] = NoTask]
       /\ Goto(p, AtUser)
       /\ UNCHANGED <<content, tableVars>>

(* do_exit() *)
do_exit(p) ==
    /\ At(p, "user") /\ "exit" \in load.calls
    /\ Goto(p, Releases(p, "exit"))
    /\ UNCHANGED <<mem_map, content, task, tableVars>>

(* do_execve(), behind the point of no return *)
do_execve(p) ==
    /\ At(p, "user") /\ "exec" \in load.calls
    /\ task' = [task EXCEPT ![p].exe = TRUE]
    /\ Goto(p, Releases(p, "exec"))
    /\ UNCHANGED <<mem_map, content, tableVars>>

(* release() of a zombie by its father *)
release(q) ==
    /\ panic = "none" /\ busy = 0 /\ task[q].state = "zombie"
    /\ mem_map' = [mem_map EXCEPT ![task[q].page] = @ - 1]
    /\ task' = [task EXCEPT ![q] = NoTask]
    /\ stored' = <<>>
    /\ UNCHANGED <<content, tableVars, pc, busy, panic, load>>

Next == \E p \in Slot :
    \/ share_page(p) \/ do_no_page(p) \/ bread_page(p) \/ put_page(p) \/ un_wp_page(p)
    \/ \E a \in Page : Trap(p, a) \/ verify_area(p, a) \/ \E v \in Value : UserWrite(p, a, v)
    \/ put_fs_byte(p)
    \/ fork(p) \/ copy_page_tables(p) \/ fork_ends(p)
    \/ free_page_tables(p) \/ free_ends(p) \/ do_exit(p) \/ do_execve(p) \/ release(p)

Spec == Init /\ [][Next]_vars

-----------------------------------------------------------------------------
(* Properties *)

Label == {"user", "no_page", "load", "put_page", "wp_page", "store", "copy", "free"}
(* An entry that is present is in a page table that is present. *)
TypeOK ==
    /\ \A p \in Slot, a \in Page : Present(p, a) => pg_dir[p][TableOf[a]] # 0
    /\ mem_map \in [Frame -> 0..Cardinality(Slot)]
    /\ content \in [Frame -> Value]
    /\ task \in [Slot -> [state : {"free", "copied", "alive", "zombie"},
                          page : 0..NFrames, exe : BOOLEAN]]
    /\ pg_dir \in [Slot -> [Table -> 0..NFrames]]
    /\ pte \in [Slot -> [Page -> [page : 0..NFrames, w : BOOLEAN, dirty : BOOLEAN]]]
    /\ pc \in [Slot -> [at : Label, a : 0..NPages + 1, hand : 0..NFrames,
                        ret : {"user", "store", "exit", "exec", "fork_failed"},
                        child : Slot \cup {0}]]
    /\ busy \in Slot \cup {0}

(* All that refers to a frame: entries, tables, task structures, and pages *)
(* in the hands of a process that has not mapped them yet.                 *)
User == ({"page"} \X Slot \X Page) \cup ({"table"} \X Slot \X Table)
        \cup ({"task", "hand"} \X Slot \X {0})
Uses(u) ==
    CASE u[1] = "page"  -> pte[u[2]][u[3]].page
      [] u[1] = "table" -> pg_dir[u[2]][u[3]]
      [] u[1] = "task"  -> task[u[2]].page
      [] u[1] = "hand"  -> pc[u[2]].hand
Users(f) == {u \in User : Uses(u) = f}

(* mem_map counts the users of a page, on every path: when a fork() fails  *)
(* half-way, when put_page() finds no page for a table, when a process     *)
(* dies in a fault.  So no page in use is handed out and none is lost; and *)
(* the kernel never panics over a page freed twice or a table already there. *)
MapCountsUsers ==
    /\ TypeOK
    /\ panic = "none"
    /\ \A f \in Frame : mem_map[f] = Cardinality(Users(f))

(* A page that a process can write without a trap has no other user, be it *)
(* a process that got it by fork(), by share_page(), or as a page table.   *)
WritableIsPrivate ==
    \A p \in Slot, a \in Page : pte[p][a].w => mem_map[pte[p][a].page] = 1

(* What a process sees: an absent page is what a fault would bring. *)
Image == [a \in Page |-> IF a \in FilePage THEN FileValue ELSE 0]
Seen(p, a) ==
    IF Present(p, a) THEN content[pte[p][a].page]
    ELSE IF task[p].exe THEN Image[a] ELSE 0
Frees(p, why) == pc[p].at = "free" /\ pc[p].ret = why
Space == [p \in Slot |->
    IF task[p].state # "alive" \/ Frees(p, "exit") THEN Gone
    ELSE IF Frees(p, "exec") THEN Image
    ELSE [a \in Page |-> Seen(p, a)]]

Private == INSTANCE PrivateMemory WITH space <- Space

(* Each process sees a memory of its own: copies made late, pages shared   *)
(* behind its back and pages fetched on demand never show.                 *)
ImplementsPrivateMemory == Private!Spec
=============================================================================
