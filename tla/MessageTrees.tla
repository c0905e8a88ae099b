----------------------------- MODULE MessageTrees -----------------------------
(***************************************************************************)
(* Conversations of a messaging platform (messaging/trees/, with the turn  *)
(* intake, the workflow and the node runner that drive them).  A prompt    *)
(* that is a reply joins the tree of the message it replies to; a tree     *)
(* runs one node at a time and queues the others; /stop and /clear cancel  *)
(* nodes, subtrees, or everything, while tasks start, run and finish.      *)
(*                                                                         *)
(* No critical section of the manager's or of a tree's lock suspends, so   *)
(* each is one action.  The workflow's lock is held by a command until the *)
(* tasks it cancelled are drained, or until that takes too long.  There is *)
(* one chat: a token of its two generations is one number, boundary.       *)
(* The session store gets a snapshot of a tree with most transitions: a    *)
(* claim and an admission take and save it in one step, a command takes it *)
(* in the manager and saves it later, in the workflow.  The server may     *)
(* stop at any time and be restored from what the store got; when that     *)
(* reaches the file is SessionPersistence.  Text and sessions are left out.*)
(***************************************************************************)
EXTENDS Integers, FiniteSets, SequencesExt, Queues

CONSTANTS Nodes,           \* prompts, named by their platform message
          NoNode,          \* Python's None where a node's id is expected
          MaxTrees,        \* bound: trees ever created
          MaxDeliveries,   \* bound: deliveries of prompts, repeated ones included
          MaxInterventions \* bound: commands (/stop, /clear) and restarts, together

ASSUME TreesAssumption ==
    NoNode \notin Nodes /\ {MaxTrees, MaxDeliveries, MaxInterventions} \subseteq Nat

VARIABLES
    trees,       \* every MessageTree ever created, in order
    published,   \* TreeRepository._trees
    index,       \* TreeRepository._reference_to_tree, a partial function
    slots,       \* every claim ever made, with the processor's _TaskSlot
    intake,      \* the turn each prompt is in the middle of admitting
    boundary,    \* _stop_generation + _clear_generations of the chat
    draining,    \* claims the command that holds _state_lock still awaits
    owed,        \* trees whose snapshots it is to save, or remove
    taken,       \* the snapshots it took, a partial function: tree |-> its nodes
    saved,       \* SessionStore._conversation, likewise
    overtaken,   \* history: trees a claim saved while a command had an older snapshot of them
    deliveries,  \* number of deliveries so far
    commands,    \* number of commands so far
    restarts,    \* number of restarts so far
    raised       \* history: whether a command failed with a ValueError

treeVars == <<trees, published, index, slots>>
intakeVars == <<intake, deliveries>>
commandVars == <<boundary, draining, owed, taken, commands, raised>>
storeVars == <<saved, overtaken, restarts>>
vars == <<treeVars, intakeVars, commandVars, storeVars>>

\* A platform message: a prompt, or the status message of its k-th delivery.
Prompt(n) == [node |-> n, status |-> 0]
Status(n, k) == [node |-> n, status |-> k]
References == [node : Nodes, status : 0..MaxDeliveries]
NoReference == [node |-> NoNode, status |-> 0]

States == {"pending", "in_progress", "completed", "error"}
Runnable == {"pending", "in_progress"}
Stages == {"created", "running", "settled", "stopping", "failing", "cleanup", "escaping",
           "unentered", "finished", "unlaunched"}
Reasons == {"none", "stop", "clear"}

------------------------------------------------------------------------------
(* One tree: the graph, its queue, its claim                                *)

\* The active claim is the number of its slot, 0 for none.
NewTree(n) ==
    [root |-> n, queue |-> <<>>, active |-> 0, requested |-> FALSE, nodes |-> <<>>]

\* The node of a turn; born is a history of the token it was received with.
Node(turn) == [state |-> "pending", status |-> turn.status, parent |-> turn.parent,
               born |-> turn.token]

InState(tr, n, states) == n \in DOMAIN tr.nodes /\ tr.nodes[n].state \in states

ActiveNode(tr) == IF tr.active = 0 THEN {} ELSE {slots[tr.active].node}

\* The queue without those gone, in its order.
Dequeued(tr, gone) == Remaining(tr.queue, gone)

Marked(tr, those, state) ==
    [n \in DOMAIN tr.nodes |->
        IF n \in those THEN [tr.nodes[n] EXCEPT !.state = state] ELSE tr.nodes[n]]

\* The references a tree of these nodes is known by.
RefersTo(nodes) ==
    {Prompt(n) : n \in DOMAIN nodes} \cup
        {Status(n, nodes[n].status) : n \in {m \in DOMAIN nodes : nodes[m].status # 0}}

\* The messages of a prompt: itself and its status.
NodeMessages(nodes, n) == {Prompt(n), Status(n, nodes[n].status)}

\* A plausible bug: replies to a prompt's status are not followed.
RepliesStayIn_ToPrompts(nodes, ns) ==
    \A m \in DOMAIN nodes : (\E n \in ns : nodes[m].parent = Prompt(n)) => m \in ns

RepliesStayIn(nodes, ns) ==
    \A m \in DOMAIN nodes : (\E n \in ns : nodes[m].parent \in NodeMessages(nodes, n)) => m \in ns

\* get_reference_descendants: r, what replies to it, what replies to that or
\* to its status, and so on.
ReplySubtree(tr, r) ==
    LET nodes == tr.nodes
        first == {m \in DOMAIN nodes : r \in {Prompt(m), nodes[m].parent}}
        closed == {ns \in SUBSET DOMAIN nodes : first \subseteq ns /\ RepliesStayIn(nodes, ns)}
        below == {m \in DOMAIN nodes : \A ns \in closed : m \in ns}
    IN {r} \cup UNION {NodeMessages(nodes, m) : m \in below}

ChildrenStayIn(nodes, ns) ==
    \A m \in DOMAIN nodes : nodes[m].parent.node \in ns => m \in ns

\* get_descendants: n itself, its children, and so on.
Descendants(nodes, n) ==
    LET closed == {ns \in SUBSET DOMAIN nodes : n \in ns /\ ChildrenStayIn(nodes, ns)}
    IN {m \in DOMAIN nodes : \A ns \in closed : m \in ns}

\* A claim may still write: it is active and no cancellation reached it.
Live(tr, c) == tr.active = c /\ ~tr.requested

\* complete_claim
Completed(tr, c) == [tr EXCEPT !.nodes = Marked(tr, {slots[c].node}, "completed")]

\* A plausible bug: the failed dependants stay in the queue.
Failed_StillQueued(tr, c, propagate) ==
    LET n == slots[c].node
        below == IF propagate
                 THEN {m \in Descendants(tr.nodes, n) \ {n} : InState(tr, m, {"pending"})} ELSE {}
    IN IF InState(tr, n, {"completed"}) THEN tr
       ELSE [tr EXCEPT !.nodes = Marked(tr, below \cup {n}, "error")]

\* fail_claim
Failed(tr, c, propagate) ==
    LET n == slots[c].node
        below == IF propagate
                 THEN {m \in Descendants(tr.nodes, n) \ {n} : InState(tr, m, {"pending"})} ELSE {}
    IN IF InState(tr, n, {"completed"}) THEN tr
       ELSE [tr EXCEPT !.nodes = Marked(tr, below \cup {n}, "error"),
                       !.queue = Dequeued(tr, below)]

\* Cancelling those: queued ones leave the queue, runnable ones end, and the
\* active claim, if it is for one of them, may write no more.
Cancelled(tr, those) ==
    [tr EXCEPT !.requested = @ \/ ActiveNode(tr) \cap those # {},
               !.nodes = Marked(tr, {n \in those : InState(tr, n, Runnable)}, "error"),
               !.queue = Dequeued(tr, those)]

\* A cancellation reports the runnable nodes of those, and one that failed
\* while its task still cleans up; _ui_target raises for a node whose status
\* message was cleared.
Raises(tr, those) ==
    \E n \in those :
        /\ InState(tr, n, Runnable) \/ (n \in ActiveNode(tr) /\ InState(tr, n, {"error"}))
        /\ tr.nodes[n].status = 0

\* What is left of a cancellation that raised after part of its nodes.
Interrupted(tr, part) == [Cancelled(tr, part) EXCEPT !.requested = TRUE]

\* remove_message_subtree: a status is cleared with what replies to it, a
\* prompt goes with its status.
Pruned(tr, r) ==
    LET removed == {n \in DOMAIN tr.nodes : Prompt(n) \in ReplySubtree(tr, r)}
        left == [n \in DOMAIN tr.nodes \ removed |-> tr.nodes[n]]
    IN [tr EXCEPT !.nodes =
           IF r.status # 0
           THEN [left EXCEPT ![r.node].status = 0, ![r.node].state = "error"]
           ELSE left]

\* finish_and_claim_next: the first queued node that is still pending.
NextQueued(tr) == SelectInSeq(tr.queue, LAMBDA n : InState(tr, n, {"pending"}))

Claimed(tr, n) ==
    [tr EXCEPT !.active = Len(slots) + 1, !.requested = FALSE,
               !.nodes = Marked(tr, {n}, "in_progress")]

------------------------------------------------------------------------------
(* Snapshots                                                                *)

\* A snapshot of a tree.  Whether a node in it is pending or in progress makes
\* no difference to anyone.
Snapshot(tr) ==
    [n \in DOMAIN tr.nodes |->
        IF InState(tr, n, Runnable) THEN [tr.nodes[n] EXCEPT !.state = "pending"] ELSE tr.nodes[n]]

\* The snapshots of the trees ts, as this step leaves them.
Snapshots(ts) == [t \in ts |-> Snapshot(trees'[t])]

\* save_tree_snapshot for each of the snapshots new and remove_tree_snapshot
\* for the trees gone.  The store knows a tree by its root, and takes what it
\* is given, be it older than what it has.
Stored(new, gone) ==
    LET others == {u \in DOMAIN saved :
                      \A t \in DOMAIN new \cup gone : trees[u].root # trees'[t].root}
    IN [t \in DOMAIN new \cup others |-> IF t \in DOMAIN new THEN new[t] ELSE saved[t]]

\* The trees ts are saved as this step leaves them.
Save(ts) ==
    /\ saved' = Stored(Snapshots(ts), {})
    /\ overtaken' = (overtaken \ ts) \cup (ts \cap DOMAIN taken)

------------------------------------------------------------------------------
(* Turn intake and admission                                                *)

Replace(t, tr) == trees' = [trees EXCEPT ![t] = tr]

Slot(t, n, at) == [tree |-> t, node |-> n, at |-> at, cancel |-> "none"]

NoTurn == [at |-> "idle", known |-> FALSE, reply |-> NoReference, token |-> 0, status |-> 0,
           parent |-> NoReference]

\* The turn ends; only what a repeated delivery repeats is kept.
Idle(n) == intake' = [intake EXCEPT ![n] = [NoTurn EXCEPT !.known = TRUE, !.reply = intake[n].reply]]

\* No command holds _state_lock.
Unlocked == owed = {}

\* handle_message takes the token and resolves the reply; then the status
\* message is sent.  A repeated delivery replies to the same message.
Receive(n, r) ==
    /\ Unlocked
    /\ intake[n].at = "idle"
    /\ deliveries < MaxDeliveries
    /\ r.node # n
    /\ intake[n].known => r = intake[n].reply
    /\ intake' = [intake EXCEPT ![n] =
           [at |-> "sending", known |-> TRUE, reply |-> r, token |-> boundary,
            status |-> deliveries + 1,
            parent |-> IF r \in DOMAIN index THEN r ELSE NoReference]]
    /\ deliveries' = deliveries + 1
    /\ UNCHANGED <<treeVars, commandVars, storeVars>>

\* The status message cannot be sent, or the turn was received before a
\* /stop or /clear, or its parent was removed meanwhile.
Discard(n) ==
    /\ intake[n].at = "sending"
    /\ Idle(n)
    /\ UNCHANGED <<treeVars, deliveries, commandVars, storeVars>>

\* A plausible bug: a turn is admitted whatever happened since it was received.
MayAdmit_AnyToken(n) == intake[n].at = "sending" /\ Unlocked

MayAdmit(n) ==
    /\ intake[n].at = "sending"
    /\ Unlocked
    /\ intake[n].token = boundary

\* enqueue_or_claim for a pending node of t: run it now, or queue it.
Enqueued(tr, n) ==
    IF tr.active = 0 THEN Claimed(tr, n) ELSE [tr EXCEPT !.queue = Append(@, n)]

\* A plausible bug: the claim is left to a launch that does not come.
LaunchIfFree_Never(t, n, wasBusy) == slots' = slots

\* The processor's launch(), unless the tree was busy.
LaunchIfFree(t, n, wasBusy) ==
    slots' = IF wasBusy THEN slots ELSE Append(slots, Slot(t, n, "created"))

WithNode(tr, n) ==
    [tr EXCEPT !.nodes = [m \in DOMAIN @ \cup {n} |->
        IF m = n THEN Node(intake[n]) ELSE @[m]]]

\* register_node
Register(t, n) ==
    index' = [r \in DOMAIN index \cup {Prompt(n), Status(n, intake[n].status)} |->
                 IF r \in DOMAIN index THEN index[r] ELSE t]

\* A reply joins the tree of its parent, which must still be there.
AdmitReply(n) ==
    /\ MayAdmit(n)
    /\ Prompt(n) \notin DOMAIN index
    /\ intake[n].parent \in DOMAIN index
    /\ LET t == index[intake[n].parent] IN
       /\ Replace(t, Enqueued(WithNode(trees[t], n), n))
       /\ LaunchIfFree(t, n, trees[t].active # 0)
       /\ Register(t, n)
       /\ Save({t})
    /\ Idle(n)
    /\ UNCHANGED <<published, deliveries, commandVars, restarts>>

AdmitRoot(n) ==
    /\ MayAdmit(n)
    /\ Prompt(n) \notin DOMAIN index
    /\ intake[n].parent = NoReference
    /\ Len(trees) < MaxTrees
    /\ LET t == Len(trees) + 1 IN
       /\ trees' = Append(trees, Enqueued(WithNode(NewTree(n), n), n))
       /\ LaunchIfFree(t, n, FALSE)
       /\ published' = published \cup {t}
       /\ Register(t, n)
       /\ Save({t})
    /\ Idle(n)
    /\ UNCHANGED <<deliveries, commandVars, restarts>>

\* The prompt is known: enqueue_or_claim takes a node that is pending and
\* not yet queued, and rejects a duplicate.  Nothing is launched.
AdmitAgain(n) ==
    /\ MayAdmit(n)
    /\ Prompt(n) \in DOMAIN index
    /\ LET t == index[Prompt(n)] IN
       IF /\ InState(trees[t], n, {"pending"})
          /\ trees[t].active = 0 \/ ~Contains(trees[t].queue, n)
       THEN /\ Replace(t, Enqueued(trees[t], n))
            /\ slots' = IF trees[t].active # 0 THEN slots
                        ELSE Append(slots, Slot(t, n, "unlaunched"))
            /\ Save({t})
       ELSE UNCHANGED <<trees, slots, saved, overtaken>>
    /\ Idle(n)
    /\ UNCHANGED <<published, index, deliveries, commandVars, restarts>>

------------------------------------------------------------------------------
(* Tasks: the processor and the node runner                                 *)

\* The task of c runs on without a cancellation to deliver.
At(c, stages) == slots[c].at \in stages /\ slots[c].cancel = "none"

To(c, stage) == slots' = [slots EXCEPT ![c].at = stage, ![c].cancel = "none"]

TaskOnly == UNCHANGED <<published, index, intakeVars, commandVars, restarts>>

Silent == UNCHANGED <<trees, saved, overtaken>>

\* The tree that get_tree(claim.identity) finds, if any: it has the same
\* root, and need not be the one that made the claim.
TreeOf(c) == {t \in published : trees[t].root = trees[slots[c].tree].root}

\* The trees a claim may write to: those it is live in, its node in a state.
Open(c, states) ==
    {t \in TreeOf(c) : Live(trees[t], c) /\ InState(trees[t], slots[c].node, states)}

\* What a claim writes, new for some trees, is saved at once.
Write(new) ==
    /\ trees' = [t \in DOMAIN trees |-> IF t \in DOMAIN new THEN new[t] ELSE trees[t]]
    /\ Save(DOMAIN new)

Fail(c, propagate) == Write([t \in Open(c, States) |-> Failed(trees[t], c, propagate)])

Start(c) ==
    /\ At(c, {"created"})
    /\ To(c, "running")
    /\ Silent
    /\ TaskOnly

\* An error event of the CLI; only that of its exit is terminal.
ErrorEvent(c, exit) ==
    /\ At(c, {"running", "settled"})
    /\ Fail(c, exit)
    /\ To(c, IF exit THEN "settled" ELSE slots[c].at)
    /\ TaskOnly

CompleteEvent(c) ==
    /\ At(c, {"running", "settled"})
    /\ Write([t \in Open(c, {"in_progress", "error"}) |-> Completed(trees[t], c)])
    /\ To(c, "settled")
    /\ TaskOnly

\* The CLI ended; without a terminal event that is a failure.
StreamEnds(c) ==
    /\ At(c, {"running", "settled"})
    /\ IF slots[c].at = "running" THEN Fail(c, TRUE) ELSE Silent
    /\ To(c, "cleanup")
    /\ TaskOnly

\* The runner begins but no session can be had; its dependants may still run.
SessionLimit(c) ==
    /\ At(c, {"created"})
    /\ Fail(c, FALSE)
    /\ To(c, "cleanup")
    /\ TaskOnly

\* An exception: the handler shows it, then fails the claim.
RunnerRaises(c) ==
    /\ At(c, {"running", "settled"})
    /\ To(c, "failing")
    /\ Silent
    /\ TaskOnly

FailingEnds(c, escapes) ==
    /\ At(c, {"failing"})
    /\ Fail(c, TRUE)
    /\ To(c, IF escapes THEN "escaping" ELSE "cleanup")
    /\ TaskOnly

StoppingEnds(c) ==
    /\ At(c, {"stopping"})
    /\ Fail(c, FALSE)
    /\ To(c, "cleanup")
    /\ TaskOnly

\* _finish_claim on the tree tr of c: it releases the claim, takes the next
\* node, and launches it if the tree is still published.
Finish(c, tr) ==
    LET t == slots[c].tree
        i == NextQueued(tr)
        freed == [tr EXCEPT !.active = 0,
                            !.queue = IF i = 0 THEN <<>> ELSE SubSeq(@, i + 1, Len(@))]
        done == [slots EXCEPT ![c].at = "finished", ![c].cancel = "none"]
    IN IF tr.active # c
       THEN Replace(t, tr) /\ slots' = done
       ELSE IF i = 0
       THEN Replace(t, freed) /\ slots' = done
       ELSE /\ Replace(t, Claimed(freed, tr.queue[i]))
            /\ slots' = Append(done, Slot(t, tr.queue[i],
                                          IF t \in published THEN "created" ELSE "unlaunched"))

\* The runner is through with its session.  An exception that escaped it
\* fails the claim first.
CleanupEnds(c) ==
    /\ At(c, {"cleanup", "escaping"})
    /\ LET t == slots[c].tree
           open == IF slots[c].at = "escaping" THEN Open(c, States) ELSE {}
       IN /\ Finish(c, IF t \in open THEN Failed(trees[t], c, TRUE) ELSE trees[t])
          /\ Save(open)
    /\ TaskOnly

\* The CancelledError arrives.  A task that has not begun never runs; the
\* runner renders a stop but not a clear, then fails its claim and cleans up;
\* a handler or the cleanup is broken off.
Deliver(c) ==
    /\ slots[c].cancel # "none"
    /\ \/ slots[c].at = "created" /\ To(c, "unentered") /\ Silent
       \/ /\ slots[c].at \in {"running", "settled"}
          /\ IF slots[c].cancel = "clear"
             THEN Fail(c, FALSE) /\ To(c, "cleanup")
             ELSE To(c, "stopping") /\ Silent
       \/ slots[c].at \in {"stopping", "failing"} /\ To(c, "cleanup") /\ Silent
       \/ /\ slots[c].at \in {"cleanup", "escaping"}
          /\ Finish(c, trees[slots[c].tree]) /\ UNCHANGED <<saved, overtaken>>
    /\ TaskOnly

\* A plausible bug: the recovery ends the slot and keeps the claim.
Recover_KeepsClaim(c) ==
    /\ slots[c].at = "unentered"
    /\ To(c, "finished")
    /\ Silent
    /\ TaskOnly

\* The recovery task of a claim whose task never entered its body.
Recover(c) ==
    /\ slots[c].at = "unentered"
    /\ Finish(c, trees[slots[c].tree])
    /\ UNCHANGED <<saved, overtaken>>
    /\ TaskOnly

------------------------------------------------------------------------------
(* Commands, one at a time                                                  *)

\* A task that is still there to be cancelled.
Cancellable(c) == slots[c].at \notin {"unentered", "finished", "unlaunched"}

\* The active claims of the trees ts that are for one of those.
Hit(ts, those) ==
    {c \in DOMAIN slots : slots[c].tree \in ts /\ trees[slots[c].tree].active = c
                          /\ slots[c].node \in those /\ Cancellable(c)}

\* processor.cancel for each claim hit, and the wait for their tasks.
CancelTasks(hit, reason) ==
    /\ slots' = [c \in DOMAIN slots |->
                    IF c \in hit THEN [slots[c] EXCEPT !.cancel = reason] ELSE slots[c]]
    /\ draining' = hit

Command ==
    /\ Unlocked
    /\ commands + restarts < MaxInterventions
    /\ commands' = commands + 1
    /\ UNCHANGED restarts

\* The command has nothing left to wait for: the manager takes a snapshot of
\* those of the trees ts that are still published.
Take(ts) ==
    /\ taken' = Snapshots(ts \cap published')
    /\ overtaken' = overtaken \ ts

\* The trees ts are to be saved; their snapshots are taken at once when there
\* is no task to wait for.
TakeWhenDrained(ts) ==
    /\ owed' = ts
    /\ IF draining' = {} THEN Take(ts) ELSE UNCHANGED <<taken, overtaken>>
    /\ UNCHANGED saved

NothingSaved == UNCHANGED <<owed, taken, saved, overtaken>>

\* /stop as a reply, to a prompt or to its status
StopReply(r) ==
    /\ Command
    /\ r \in DOMAIN index
    /\ LET t == index[r]
           those == {r.node}
       IN IF Raises(trees[t], those)
          THEN /\ raised' = TRUE
               /\ Replace(t, Interrupted(trees[t], {}))
               /\ UNCHANGED <<published, slots, draining>>
               /\ NothingSaved
          ELSE /\ Replace(t, Cancelled(trees[t], those))
               /\ CancelTasks(Hit({t}, those), "stop")
               /\ UNCHANGED <<published, raised>>
               /\ TakeWhenDrained({t})
    /\ UNCHANGED <<index, intakeVars, boundary>>

\* The trees a command over all trees gets through, in their order, before
\* one of them raises.
Reached == {t \in published : \A u \in published : Raises(trees[u], Nodes) => t < u}
Blocked == {t \in published \ Reached : \A u \in published \ Reached : t <= u}

\* A plausible bug: the queues of the cancelled trees are left alone.
AllCancelled_ActiveOnly(ts) ==
    trees' = [t \in DOMAIN trees |->
                 IF t \in ts THEN Cancelled(trees[t], ActiveNode(trees[t])) ELSE trees[t]]

AllCancelled(ts) ==
    trees' = [t \in DOMAIN trees |->
                 IF t \in ts THEN Cancelled(trees[t], Nodes)
                 ELSE IF t \in Blocked THEN Interrupted(trees[t], {})
                 ELSE trees[t]]

\* cancel_all on every tree
CancelEverything(reason) ==
    /\ AllCancelled(Reached)
    /\ slots' = [c \in DOMAIN slots |->
                    IF c \in Hit(Reached, Nodes) THEN [slots[c] EXCEPT !.cancel = reason]
                    ELSE slots[c]]
    /\ draining' = IF Blocked = {} THEN Hit(Reached, Nodes) ELSE {}
    /\ raised' = (raised \/ Blocked # {})

\* /stop: it also invalidates every turn not yet admitted.
StopAll ==
    /\ Command
    /\ boundary' = boundary + 1
    /\ CancelEverything("stop")
    /\ UNCHANGED <<published, index, intakeVars>>
    /\ IF Blocked = {} THEN TakeWhenDrained(published) ELSE NothingSaved

\* /clear: the trees of the chat are cancelled and detached, one by one; then the
\* store is to forget all of them, also when that failed.
ClearChat ==
    /\ Command
    /\ boundary' = boundary + 1
    /\ CancelEverything("clear")
    /\ published' = published \ Reached
    /\ index' = [r \in {q \in DOMAIN index : index[q] \notin Reached} |-> index[r]]
    /\ IF Blocked = {} THEN TakeWhenDrained(DOMAIN trees)
       ELSE owed' = DOMAIN trees /\ UNCHANGED <<taken, saved, overtaken>>
    /\ UNCHANGED intakeVars

\* /clear as a reply removes the literal replies below it.  Its nodes are
\* cancelled in any order, until one raises.
ClearReply(r) ==
    /\ Command
    /\ r \in DOMAIN index
    /\ LET t == index[r]
           gone == ReplySubtree(trees[t], r)
           removed == {n \in DOMAIN trees[t].nodes : Prompt(n) \in gone}
           those == removed \cup {r.node}
       IN IF Raises(trees[t], those)
          THEN /\ raised' = TRUE
               /\ \E part \in SUBSET (those \ ActiveNode(trees[t])) :
                     Replace(t, Interrupted(trees[t], part))
               /\ UNCHANGED <<published, index, slots, draining>>
               /\ NothingSaved
          ELSE /\ Replace(t, Pruned(Cancelled(trees[t], those), r))
               /\ CancelTasks(Hit({t}, those), "clear")
               /\ IF trees[t].root \in removed
                  THEN /\ published' = published \ {t}
                       /\ index' = [q \in {p \in DOMAIN index : index[p] # t} |-> index[q]]
                  ELSE /\ index' = [q \in DOMAIN index \ gone |-> index[q]]
                       /\ UNCHANGED published
               /\ TakeWhenDrained({t})
               /\ UNCHANGED raised
    /\ UNCHANGED <<intakeVars, boundary>>

\* The command's tasks are done, or the five seconds are over; a
\* cancellation has been delivered by then.
Drained ==
    /\ draining # {}
    /\ \A c \in draining : slots[c].cancel = "none"
    /\ draining' = {}
    /\ UNCHANGED <<treeVars, intakeVars, boundary, owed, commands, raised, saved, restarts>>
    /\ Take(owed)

\* A plausible bug: what a command removes stays in the store.
SaveTaken_Kept ==
    /\ draining = {} /\ owed # {}
    /\ UNCHANGED <<treeVars, intakeVars, boundary, draining, commands, raised, overtaken, restarts>>
    /\ saved' = Stored(taken, {})
    /\ owed' = {} /\ taken' = <<>>

\* The transition's task has returned to the workflow, which saves what the
\* command took and removes the trees that are gone.  In between a claim may
\* have saved one of them.
SaveTaken ==
    /\ draining = {} /\ owed # {}
    /\ UNCHANGED <<treeVars, intakeVars, boundary, draining, commands, raised, overtaken, restarts>>
    /\ saved' = Stored(taken, owed \ DOMAIN taken)
    /\ owed' = {} /\ taken' = <<>>

------------------------------------------------------------------------------
(* The end of a server, and the start of the next                           *)

\* MessageTreeGraph.from_snapshot takes a tree of its nodes, where what may run
\* has a status message and each reply is to a message that is there.
WellFormed(root, nodes) ==
    /\ root \in DOMAIN nodes /\ nodes[root].parent = NoReference
    /\ \A n \in DOMAIN nodes :
          /\ nodes[n].state \in Runnable => nodes[n].status # 0
          /\ n # root => nodes[n].parent \in RefersTo(nodes)
    /\ DOMAIN nodes = Descendants(nodes, root)

\* A tree can be restored if it is well-formed and shares no message with another.
Restorable(t) ==
    /\ WellFormed(trees[t].root, saved[t])
    /\ \A u \in DOMAIN saved \ {t} : RefersTo(saved[u]) \cap RefersTo(saved[t]) = {}

\* A plausible bug: what was waiting or running is restored as it was.
Interrupt_AsItWas(node) == node

\* What was waiting or running ended with the server.
Interrupt(node) == IF node.state \in Runnable THEN [node EXCEPT !.state = "error"] ELSE node

\* The server stops, in whatever state, and another one restores what was
\* saved.  (Of two trees that share a message the code keeps the first;
\* GraphsAgree says that there are no two.)
Restart ==
    /\ commands + restarts < MaxInterventions /\ restarts' = restarts + 1
    /\ LET kept == {t \in DOMAIN saved : Restorable(t)} IN
       /\ trees' = [t \in DOMAIN trees |-> [NewTree(trees[t].root) EXCEPT !.nodes =
              IF t \in kept
              THEN [n \in DOMAIN saved[t] |-> [Interrupt(saved[t][n]) EXCEPT !.born = 0]]
              ELSE <<>>]]
       /\ saved' = [t \in kept |-> trees'[t].nodes]
       /\ published' = kept
       /\ index' = [r \in UNION {RefersTo(saved[t]) : t \in kept} |->
                        CHOOSE t \in kept : r \in RefersTo(saved[t])]
    /\ slots' = <<>>
    /\ intake' = [n \in Nodes |-> [NoTurn EXCEPT !.known = intake[n].known, !.reply = intake[n].reply]]
    /\ boundary' = 0 /\ draining' = {} /\ owed' = {} /\ taken' = <<>>
    /\ raised' = FALSE /\ overtaken' = {}
    /\ UNCHANGED <<deliveries, commands>>

------------------------------------------------------------------------------

Init ==
    /\ trees = <<>>
    /\ published = {}
    /\ index = <<>>
    /\ slots = <<>>
    /\ intake = [n \in Nodes |-> NoTurn]
    /\ boundary = 0
    /\ draining = {}
    /\ owed = {}
    /\ taken = <<>>
    /\ saved = <<>>
    /\ overtaken = {}
    /\ deliveries = 0
    /\ commands = 0
    /\ restarts = 0
    /\ raised = FALSE

\* Steps of a task that the event loop, the platform or the CLI brings about.
TaskStep(c) ==
    \/ Start(c) \/ StreamEnds(c) \/ StoppingEnds(c) \/ CleanupEnds(c) \/ Deliver(c) \/ Recover(c)
    \/ \E escapes \in BOOLEAN : FailingEnds(c, escapes)

Event(c) ==
    \/ \E exit \in BOOLEAN : ErrorEvent(c, exit)
    \/ CompleteEvent(c) \/ SessionLimit(c) \/ RunnerRaises(c)

Admit(n) == AdmitReply(n) \/ AdmitRoot(n) \/ AdmitAgain(n)

Next ==
    \/ \E n \in Nodes : \/ \E r \in DOMAIN index \cup {NoReference, intake[n].reply} : Receive(n, r)
                        \/ Discard(n) \/ Admit(n)
    \/ \E c \in DOMAIN slots : TaskStep(c) \/ Event(c)
    \/ \E r \in DOMAIN index : StopReply(r) \/ ClearReply(r)
    \/ StopAll \/ ClearChat \/ Drained \/ SaveTaken \/ Restart

\* Ready tasks run, and the CLI ends its stream.  Prompts, events and commands
\* may stop coming at any time.
TreesFairness == WF_vars(\E c \in DOMAIN slots : TaskStep(c))

Spec == Init /\ [][Next]_vars /\ TreesFairness

------------------------------------------------------------------------------
(* Properties                                                               *)

Trees == DOMAIN trees

\* The types of the variables, as the dictionaries and enums of the code have them.
TypeOK ==
    /\ published \subseteq Trees
    /\ DOMAIN index \subseteq References /\ \A r \in DOMAIN index : index[r] \in Trees
    /\ \A t \in Trees :
          /\ trees[t].root \in Nodes /\ trees[t].queue \in Seq(Nodes)
          /\ trees[t].active \in {0} \cup DOMAIN slots /\ trees[t].requested \in BOOLEAN
          /\ DOMAIN trees[t].nodes \subseteq Nodes
          /\ \A n \in DOMAIN trees[t].nodes :
                trees[t].nodes[n] \in [state : States, status : 0..MaxDeliveries, born : 0..boundary,
                                       parent : References \cup {NoReference}]
    /\ \A c \in DOMAIN slots :
          slots[c] \in [tree : Trees, node : Nodes, at : Stages, cancel : Reasons]
    /\ draining \subseteq DOMAIN slots
    /\ owed \subseteq Trees /\ overtaken \subseteq Trees
    /\ DOMAIN saved \subseteq Trees /\ \A t \in DOMAIN saved : DOMAIN saved[t] \subseteq Nodes
    /\ DOMAIN taken \subseteq Trees /\ \A t \in DOMAIN taken : DOMAIN taken[t] \subseteq Nodes
    /\ raised \in BOOLEAN

\* A tree's active claim is the one whose task has not finished, also when
\* the tree was detached: no node waits for a claim nobody works on, and no
\* two nodes of a tree run at once.
ClaimsHaveTasks ==
    \A c \in DOMAIN slots :
        /\ slots[c].at # "unlaunched"
        /\ slots[c].at # "finished" <=> trees[slots[c].tree].active = c

\* Queue, claim and graph agree: what is queued is what is pending, once
\* each; what is in progress has the claim; nothing is queued in an idle tree.
QueueAgrees ==
    \A t \in Trees :
        LET tr == trees[t] IN
        /\ IsInjective(tr.queue)
        /\ Range(tr.queue) = {n \in Nodes : InState(tr, n, {"pending"})}
        /\ {n \in Nodes : InState(tr, n, {"in_progress"})} \subseteq ActiveNode(tr)
        /\ tr.queue # <<>> => tr.active # 0

\* The repository's index holds the references of published trees, and those
\* only: no reply joins a removed message, and no prompt is in two trees.
IndexAgrees ==
    /\ \A r \in DOMAIN index :
          /\ index[r] \in published
          /\ r.node \in DOMAIN trees[index[r]].nodes
          /\ r.status \in {0, trees[index[r]].nodes[r.node].status}
    /\ \A t \in published : \A n \in DOMAIN trees[t].nodes :
          {Prompt(n), Status(n, trees[t].nodes[n].status)} \subseteq {r \in DOMAIN index : index[r] = t}

\* The snapshot older is that of newer before some turns ended: nodes that
\* waited or ran have ended since, or one that failed was completed after all.
Behind(older, newer) ==
    /\ DOMAIN older = DOMAIN newer
    /\ \A n \in DOMAIN newer :
          /\ newer[n] = [older[n] EXCEPT !.state = newer[n].state]
          /\ \/ newer[n].state = older[n].state
             \/ older[n].state = "pending" /\ newer[n].state \in {"completed", "error"}
             \/ older[n].state = "error" /\ newer[n].state = "completed"

\* A snapshot of t is up to date, or behind it by what a claim saved between
\* a command's snapshot and its save.
Tells(snapshot, t) ==
    \/ snapshot = Snapshot(trees[t])
    \/ t \in overtaken /\ Behind(snapshot, Snapshot(trees[t]))

\* The store can be restored at any time, and between commands it has just the
\* published trees, with their messages and their replies.  They are as the
\* trees are, except where a claim saved a turn's end while a command had the
\* tree's snapshot in hand: then the end is missing.  So a restart brings back
\* nothing that was cleared and forgets no other answer.
StoreAgrees ==
    /\ \A t \in DOMAIN saved : Restorable(t)
    /\ Unlocked /\ ~raised =>
          DOMAIN saved = published /\ \A t \in published : Tells(saved[t], t)

\* The four places that know a node agree: its tree's graph and queue, the
\* repository's index and the session store.
GraphsAgree == QueueAgrees /\ IndexAgrees /\ StoreAgrees

\* Global /stop and /clear reach every turn received before them, queued ones
\* and those whose admission was under way: afterwards none waits or runs.
StopReachesAll ==
    \A t \in published : \A n \in DOMAIN trees[t].nodes :
        trees[t].nodes[n].state \in Runnable => trees[t].nodes[n].born = boundary

\* So it is unless a command failed on the way.
NothingFromBefore == raised \/ StopReachesAll

\* A queued turn comes to its turn, or is cancelled or removed.  (Deliveries
\* run out, so in the end nothing is queued.)
QueueMoves ==
    <>[](\A t \in published, n \in Nodes : ~InState(trees[t], n, {"pending"}))
==============================================================================
