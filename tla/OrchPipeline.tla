---------------------------- MODULE OrchPipeline ----------------------------
(***************************************************************************)
(* The stand-alone orchestrator (src/orchestrator/orchestrator.c): one     *)
(* alloc thread, then the desc threads, then the detect threads, each      *)
(* stage joined before the next.  The desc threads share the tasks out in  *)
(* stripes of desc_batch_size and describe them; every detect thread       *)
(* enters every task in a map of its own and registers the predecessors of *)
(* its stripes, through one ring of predecessors they all append to.       *)
(***************************************************************************)
EXTENDS TensorMapCore

CONSTANTS
    TaskList,        \* the case: in_data, out_data and inout_data of each task
    MaxThreads,      \* bound: threads of a stage
    desc_batch_size,
    detect_batch_size

\* main refuses a thread count below one; the buffers of the case are known to the map.
ASSUME PipelineAssumption ==
    /\ {MaxThreads, desc_batch_size, detect_batch_size} \subseteq Nat \ {0}
    /\ TaskList \in Seq(ToSet(TaskList))
    /\ \A td \in ToSet(TaskList) : \A list \in {td.in, td.out, td.inout} :
         list \in Seq(ToSet(list)) /\ \A t \in ToSet(list) : t.addr \in DOMAIN Hash

total_task_cnt == Len(TaskList)
Tasks == 0 .. total_task_cnt - 1

VARIABLES
    desc_thread_count, detect_thread_count,   \* the arguments of main
    desc,        \* per desc thread: desc_task_id, desc_start, desc_end
    g_task_tensor_buf,    \* what was described of each task
    described,   \* history: how often each task was described
    detect,      \* per detect thread: its cursors, its map, its task in work
    found,       \* history: the predecessors passed to add_predecessors
    g_predecessors,       \* per task: cnt and exp, the offset of its first word
    g_predecessor_ring    \* the words from head to tail

vars == <<desc_thread_count, detect_thread_count, desc, g_task_tensor_buf, described,
          detect, found, g_predecessors, g_predecessor_ring>>
descFrame   == <<desc_thread_count, detect_thread_count, detect, found,
                 g_predecessors, g_predecessor_ring>>
detectFrame == <<desc_thread_count, detect_thread_count, desc, g_task_tensor_buf, described>>

Desc   == 0 .. desc_thread_count - 1
Detect == 0 .. detect_thread_count - 1

Init ==
    /\ desc_thread_count \in 1 .. MaxThreads /\ detect_thread_count \in 1 .. MaxThreads
    /\ desc = [d \in Desc |-> [ id |-> 0, start |-> d * desc_batch_size,
                                end |-> (d + 1) * desc_batch_size ]]
    /\ g_task_tensor_buf = [t \in Tasks |-> [in |-> <<>>, out |-> <<>>, inout |-> <<>>]]
    /\ described = [t \in Tasks |-> 0]
    /\ detect = [d \in Detect |->
         [ at |-> 0, start |-> d * detect_batch_size, map |-> tm_init, pc |-> "scan", todo |-> <<>> ]]
    /\ found = [t \in Tasks |-> <<>>]
    /\ g_predecessors = [t \in Tasks |-> [cnt |-> 0, exp |-> 0]]
    /\ g_predecessor_ring = <<>>

----------------------------------------------------------------------------
\* DESC_DO_OR_SKIP: the stripe [start, end) is the thread's own; the first task past
\* it moves the stripe on, and is skipped even when the new stripe includes it.
Mine(w)  == w.start <= w.id /\ w.id < w.end
StrideOfOne == desc_batch_size
Stride   == desc_batch_size * desc_thread_count
Moved(w) == IF w.id >= w.end
              THEN [w EXCEPT !.id = @ + 1, !.start = @ + Stride, !.end = @ + Stride]
              ELSE [w EXCEPT !.id = @ + 1]

desc_do(d) ==
    /\ desc[d].id < total_task_cnt /\ Mine(desc[d])
    /\ LET t == desc[d].id IN
         /\ g_task_tensor_buf' = [g_task_tensor_buf EXCEPT ![t] = TaskList[t + 1]]
         /\ described' = [described EXCEPT ![t] = @ + 1]
    /\ desc' = [desc EXCEPT ![d].id = @ + 1]
    /\ UNCHANGED descFrame

desc_skip(d) ==
    /\ desc[d].id < total_task_cnt /\ ~ Mine(desc[d])
    /\ desc' = [desc EXCEPT ![d] = Moved(@)]
    /\ UNCHANGED <<descFrame, g_task_tensor_buf, described>>

\* main joins every desc thread before it creates the detect threads.
DescJoined == \A d \in Desc : desc[d].id = total_task_cnt

----------------------------------------------------------------------------
As(tensors, kind) == [k \in DOMAIN tensors |-> <<tensors[k], kind>>]
DetectEnd(w) == Min({ w.start + detect_batch_size, total_task_cnt })

\* detect_insert_outs: the plain outputs first, then the INOUT tensors.
detect_insert_outs(m, td, t) ==
    InsertAll(m, As(td.out, "out") \o As(td.inout, "inout"), t)

prepare_outs_only(m, td, t) == detect_insert_outs(m, td, t)
\* prepare_hash: a task of another thread.  Its INOUT lookups are made for the entries
\* they remove, the producers they find are forgotten.
prepare_hash(m, td, t) ==
    detect_insert_outs(LookupAll(m, As(td.inout, "inout")).map, td, t)

\* detect_task without its call of add_predecessors, which other threads see.
detect_task(m, td, t) ==
    LET s == LookupAll(m, As(td.in, "in") \o As(td.inout, "inout"))
    IN [map |-> detect_insert_outs(s.map, td, t), found |-> s.found]

Busy(d) == DescJoined /\ detect[d].start < total_task_cnt
Advance(w) ==
    IF w.at + 1 < DetectEnd(w) THEN [w EXCEPT !.at = @ + 1, !.pc = "scan"]
    ELSE [w EXCEPT !.at = @ + 1, !.pc = "scan",
                   !.start = @ + detect_thread_count * detect_batch_size]

prepare(d) ==
    LET w == detect[d] IN
    /\ Busy(d) /\ w.pc = "scan" /\ w.at < w.start
    /\ detect' = [detect EXCEPT ![d].map = prepare_hash(@, g_task_tensor_buf[w.at], w.at),
                                ![d].at = @ + 1]
    /\ UNCHANGED <<detectFrame, found, g_predecessors, g_predecessor_ring>>

\* The map is the thread's own, so the insertions may join the lookups in one step.
detect_own(d) ==
    LET w == detect[d]
        s == detect_task(w.map, g_task_tensor_buf[w.at], w.at)
    IN /\ Busy(d) /\ w.pc = "scan" /\ w.at >= w.start
       /\ found' = [found EXCEPT ![w.at] = s.found]
       /\ detect' = [detect EXCEPT ![d] =
            IF s.found = <<>> THEN Advance([w EXCEPT !.map = s.map])
            ELSE [w EXCEPT !.map = s.map, !.pc = "exp", !.todo = s.found]]
       /\ UNCHANGED <<detectFrame, g_predecessors, g_predecessor_ring>>

FirstWordZero(t) == 0
FirstWord(t) == IF g_predecessors[t].cnt <= 0 THEN Len(g_predecessor_ring) ELSE g_predecessors[t].exp

\* add_predecessors, in the steps other threads can come between: remember the tail,
\* append word after word with a CAS on the tail, store the count.
exp(d) ==
    /\ detect[d].pc = "exp"
    /\ g_predecessors' = [g_predecessors EXCEPT ![detect[d].at].exp = FirstWord(detect[d].at)]
    /\ detect' = [detect EXCEPT ![d].pc = "slot"]
    /\ UNCHANGED <<detectFrame, found, g_predecessor_ring>>

slot(d) ==
    /\ detect[d].pc = "slot" /\ detect[d].todo # <<>>
    /\ g_predecessor_ring' = Append(g_predecessor_ring, Head(detect[d].todo))
    /\ detect' = [detect EXCEPT ![d].todo = Tail(@)]
    /\ UNCHANGED <<detectFrame, found, g_predecessors>>

cnt(d) ==
    /\ detect[d].pc = "slot" /\ detect[d].todo = <<>>
    /\ g_predecessors' = [g_predecessors EXCEPT ![detect[d].at].cnt = Len(found[detect[d].at])]
    /\ detect' = [detect EXCEPT ![d] = Advance(@)]
    /\ UNCHANGED <<detectFrame, found, g_predecessor_ring>>

DetectJoined == DescJoined /\ \A d \in Detect : detect[d].start >= total_task_cnt

DescThread(d)   == desc_do(d) \/ desc_skip(d)
DetectThread(d) == prepare(d) \/ detect_own(d) \/ exp(d) \/ slot(d) \/ cnt(d)

\* main prints and returns; in every other state some thread can go on.
finished == DetectJoined /\ UNCHANGED vars

Next ==
    \/ \E d \in Desc : DescThread(d)
    \/ \E d \in Detect : DetectThread(d)
    \/ finished

Spec == Init /\ [][Next]_vars

----------------------------------------------------------------------------
\* When the desc threads are joined every task has been described by one of them.
\* With a single thread nothing separates its stripes and the first task of every stripe
\* but the first is skipped while the stripe is moved: the claim is for two or more.
DescribedOnce == DescJoined /\ desc_thread_count > 1 => \A t \in Tasks : described[t] = 1

\* The predecessors one map finds when it takes the tasks in order.
Sequential ==
    LET run[t \in -1 .. total_task_cnt - 1] ==
          IF t = -1 THEN [map |-> tm_init, found |-> <<>>]
          ELSE detect_task(run[t - 1].map, TaskList[t + 1], t)
    IN [t \in Tasks |-> run[t].found]

\* Whatever the numbers of threads, a task gets the predecessors a single map finds:
\* entering the tasks of the other threads reproduces what detecting them does.
FoundAsSequential ==
    DescJoined /\ desc_thread_count > 1 =>
      \A d \in Detect : \A t \in Tasks :
        t < detect[d].at /\ (t \div detect_batch_size) % detect_thread_count = d
          => found[t] = Sequential[t]

\* The words dump_predecessors prints for a task.
Dumped(t) == SubSeq(g_predecessor_ring, g_predecessors[t].exp + 1,
                    g_predecessors[t].exp + g_predecessors[t].cnt)

\* With one detect thread they are the task's predecessors.  Several threads append
\* their words between each other's, and the words from exp on are then a mixture.
DumpedAlone == DetectJoined /\ detect_thread_count = 1 => \A t \in Tasks : Dumped(t) = found[t]
=============================================================================
