------------------------ MODULE MessageTrees_proofs ------------------------
(***************************************************************************)
(* Proofs about the turns of a chat: MessageTrees, for any set of prompts  *)
(* and any bounds, and at the end NodeTurn, for any tools, events and      *)
(* limits of the platforms.                                                *)
(* IInv says of each tree how its queue, its graph and its claim fit       *)
(* (ClaimInv), of each claim where its task may be while its tree is in    *)
(* which state (SlotInv), that the graphs in the repository are trees,     *)
(* those outside have nothing left to run and the index is exact           *)
(* (GraphInv), what the store holds between the commands and while one is  *)
(* under way (SavedInv), and how old a snapshot may be that a command has  *)
(* taken and not yet saved (TakenInv).                                     *)
(***************************************************************************)
EXTENDS MessageTrees, NodeTurn, Queues_proofs, WellFoundedInduction, TLAPS

USE TreesAssumption

\* The nodes of a graph.
NodeSet == [state : States, status : 0 .. MaxDeliveries, parent : References \cup {NoReference},
            born : Nat]

\* The graphs: partial functions from prompts to nodes.
Graphs == UNION {[ns -> NodeSet] : ns \in SUBSET Nodes}

\* A MessageTree, the slot of a claim, and a turn.
TreeSet == [root : Nodes, queue : Seq(Nodes), active : Nat, requested : BOOLEAN, nodes : Graphs]
SlotSet == [tree : Nat, node : Nodes, at : Stages, cancel : Reasons]
TurnSet == [at : {"idle", "sending"}, known : BOOLEAN, reply : References \cup {NoReference},
            token : Nat, status : 0 .. MaxDeliveries, parent : References \cup {NoReference}]

\* The types, and of the counters what bounds them: a token or a birth is never
\* of a generation to come.
TypeInv ==
    /\ trees \in Seq(TreeSet) /\ slots \in Seq(SlotSet) /\ intake \in [Nodes -> TurnSet]
    /\ boundary \in Nat /\ deliveries \in Nat /\ raised \in BOOLEAN
    /\ published \subseteq Trees /\ owed \subseteq Trees /\ overtaken \subseteq Trees
    /\ draining \subseteq DOMAIN slots /\ DOMAIN index \subseteq References
    /\ saved \in [DOMAIN saved -> Graphs] /\ DOMAIN saved \subseteq Trees
    /\ \A n \in Nodes : intake[n].at = "sending" =>
          intake[n].status # 0 /\ intake[n].token <= boundary
    /\ \A t \in Trees : \A n \in DOMAIN trees[t].nodes : trees[t].nodes[n].born <= boundary

\* The nodes of a tree that wait, and those that run.
Pending(tr) == {n \in DOMAIN tr.nodes : tr.nodes[n].state = "pending"}
Running(tr) == {n \in DOMAIN tr.nodes : tr.nodes[n].state = "in_progress"}

\* A tree whose active node, if it has one, is the one in a: its queue is what
\* is pending, nothing waits in an idle tree, and nothing runs in one that is
\* idle or cancelled.
QueueInv(tr, a) ==
    /\ IsInjective(tr.queue)
    /\ Range(tr.queue) = Pending(tr)
    /\ Running(tr) \subseteq a
    /\ tr.active = 0 => Pending(tr) = {}
    /\ tr.active = 0 \/ tr.requested => Running(tr) = {}
    /\ tr.active # 0 /\ ~tr.requested => a \subseteq DOMAIN tr.nodes \ Pending(tr)

\* Where the task is once the end of its node is written.
Written == {"settled", "stopping", "cleanup", "escaping", "unentered"}

\* A claim whose task has not finished is its tree's active one; a task that is
\* cancelled had its claim cancelled too.
SlotInv(c) ==
    LET tr == trees[slots[c].tree] IN
    /\ slots[c].tree \in Trees
    /\ slots[c].at # "unlaunched"
    /\ slots[c].at # "finished" <=> tr.active = c
    /\ slots[c].cancel # "none" => slots[c].at # "finished" /\ tr.requested
    /\ slots[c].at \in Written => Running(tr) = {}

\* A tree's active claim is one of its own.
ClaimInv(t) ==
    /\ QueueInv(trees[t], ActiveNode(trees[t]))
    /\ trees[t].active # 0 => trees[t].active \in DOMAIN slots /\ slots[trees[t].active].tree = t

ClaimsInv == (\A t \in Trees : ClaimInv(t)) /\ (\A c \in DOMAIN slots : SlotInv(c))

\* IndexAgrees, with the references of a tree: those of the trees of pub, in
\* forest, are what ind is about.
Indexed(forest, pub, ind) ==
    /\ \A r \in DOMAIN ind : ind[r] \in pub /\ r \in RefersTo(forest[ind[r]].nodes)
    /\ \A t \in pub : \A r \in RefersTo(forest[t].nodes) : r \in DOMAIN ind /\ ind[r] = t

\* The repository: well-formed trees that share nothing, and outside it trees in
\* which nothing is left to do.
GraphInv ==
    /\ \A t \in published : WellFormed(trees[t].root, trees[t].nodes)
    /\ \A t \in Trees \ published : Pending(trees[t]) = {} /\ Running(trees[t]) = {}
    /\ Indexed(trees, published, index)
    /\ NothingFromBefore

\* The references the index has for a tree.
Refs(t) == {r \in DOMAIN index : index[r] = t}

\* A snapshot shows the tree tr, whose number is t, exactly; or, if t is one of
\* those in late, as it was before some turns ended.
Portrays(snapshot, tr, t, late) ==
    snapshot = Snapshot(tr) \/ (t \in late /\ Behind(snapshot, Snapshot(tr)))

\* The store: what it holds of a tree is well-formed and clashes with no other
\* tree, restored or running; what no command is to save shows its tree, unless
\* a command raised.
SavedInv ==
    /\ \A t \in DOMAIN saved : WellFormed(trees[t].root, saved[t])
    /\ \A t, u \in DOMAIN saved : t # u => RefersTo(saved[t]) \cap RefersTo(saved[u]) = {}
    /\ \A t \in published, u \in DOMAIN saved :
           t # u => RefersTo(trees[t].nodes) \cap RefersTo(saved[u]) = {}
    /\ \A t \in DOMAIN saved \ owed : t \in published /\ RefersTo(saved[t]) \subseteq Refs(t)
    /\ ~raised => \A t \in owed \ published, u \in published : trees[t].root # trees[u].root
    /\ ~raised => \A t \in published \ owed :
           t \in DOMAIN saved /\ Portrays(saved[t], trees[t], t, overtaken)

\* What a command took shows its tree, and it took what it is to save.
TakenInv ==
    /\ \A t \in DOMAIN taken :
          /\ t \in owed \cap published /\ taken[t] \in Graphs
          /\ WellFormed(trees[t].root, taken[t]) /\ Portrays(taken[t], trees[t], t, overtaken)
    /\ draining = {} /\ ~raised => owed \cap published \subseteq DOMAIN taken

StoreInv == SavedInv /\ TakenInv

IInv == TypeInv /\ ClaimsInv /\ GraphInv /\ StoreInv

------------------------------------------------------------------------------
(* One tree                                                                 *)

\* Dequeued takes exactly those gone from a queue.
LEMMA DequeuedQueue ==
    ASSUME NEW tr, tr.queue \in Seq(Nodes), IsInjective(tr.queue), NEW gone
    PROVE  /\ Dequeued(tr, gone) \in Seq(Nodes) /\ IsInjective(Dequeued(tr, gone))
           /\ Range(Dequeued(tr, gone)) = Range(tr.queue) \ gone
BY RemainingQueue DEF Dequeued

\* Nothing of a graph but the state of its nodes differs.
Skeleton(nodes, new) ==
    /\ DOMAIN new = DOMAIN nodes
    /\ \A n \in DOMAIN nodes : /\ new[n].status = nodes[n].status
                               /\ new[n].parent = nodes[n].parent
                               /\ new[n].born = nodes[n].born

\* What tasks and most commands do to a tree: nothing new may run in it, and what
\* is completed stays so.
Keeps(tr, new) ==
    /\ new.root = tr.root
    /\ Skeleton(tr.nodes, new.nodes)
    /\ \A n \in DOMAIN tr.nodes :
          /\ new.nodes[n].state \in Runnable => tr.nodes[n].state \in Runnable
          /\ tr.nodes[n].state = "completed" => new.nodes[n].state = "completed"

\* A step that leaves the claim, of a node in a, where it is.
SettlesTree(tr, new, a) ==
    /\ new \in TreeSet /\ Keeps(tr, new) /\ QueueInv(new, a)
    /\ new.active = tr.active /\ (tr.requested => new.requested)
    /\ Pending(new) \subseteq Pending(tr) /\ Running(new) \subseteq Running(tr)

\* A graph is a partial function from prompts to nodes.
LEMMA GraphsDef ==
    ASSUME NEW nodes
    PROVE  nodes \in Graphs <=> DOMAIN nodes \subseteq Nodes /\ nodes \in [DOMAIN nodes -> NodeSet]
BY DEF Graphs

\* The fields of a tree, by their types.
LEMMA TreeFields ==
    ASSUME NEW tr \in TreeSet
    PROVE  /\ tr.root \in Nodes /\ tr.queue \in Seq(Nodes) /\ tr.active \in Nat
           /\ tr.requested \in BOOLEAN /\ tr.nodes \in Graphs
           /\ DOMAIN tr.nodes \subseteq Nodes
           /\ \A n \in DOMAIN tr.nodes : tr.nodes[n] \in NodeSet
BY GraphsDef DEF TreeSet

\* Marking nodes changes their state only.
LEMMA MarkedGraph ==
    ASSUME NEW tr \in TreeSet, NEW those, NEW state \in States
    PROVE  /\ Marked(tr, those, state) \in Graphs
           /\ Skeleton(tr.nodes, Marked(tr, those, state))
           /\ \A n \in DOMAIN tr.nodes :
                 Marked(tr, those, state)[n].state = IF n \in those THEN state ELSE tr.nodes[n].state
<1> DEFINE m == Marked(tr, those, state)
<1>1. DOMAIN m = DOMAIN tr.nodes BY DEF Marked
<1>2. ASSUME NEW n \in DOMAIN tr.nodes
      PROVE  /\ m[n] \in NodeSet /\ m[n].status = tr.nodes[n].status
             /\ m[n].parent = tr.nodes[n].parent /\ m[n].born = tr.nodes[n].born
             /\ m[n].state = IF n \in those THEN state ELSE tr.nodes[n].state
  <2>1. tr.nodes[n] \in NodeSet BY TreeFields
  <2>2. m[n] = IF n \in those THEN [tr.nodes[n] EXCEPT !.state = state] ELSE tr.nodes[n]
    BY DEF Marked
  <2> QED BY <2>1, <2>2 DEF NodeSet
<1>3. DOMAIN m \subseteq Nodes BY <1>1, TreeFields
<1>4. m \in [DOMAIN m -> NodeSet] BY <1>1, <1>2 DEF Marked
<1>5. m \in Graphs BY <1>3, <1>4, GraphsDef
<1> QED BY <1>1, <1>2, <1>5 DEF Skeleton

\* complete_claim
LEMMA CompletedTree ==
    ASSUME NEW tr \in TreeSet, NEW c, QueueInv(tr, {slots[c].node}), tr.active # 0, ~tr.requested,
           InState(tr, slots[c].node, {"in_progress", "error"})
    PROVE  SettlesTree(tr, Completed(tr, c), {slots[c].node}) /\ Running(Completed(tr, c)) = {}
<1> DEFINE n == slots[c].node
           new == Completed(tr, c)
           m == Marked(tr, {n}, "completed")
<1>1. /\ m \in Graphs /\ Skeleton(tr.nodes, m)
      /\ \A k \in DOMAIN tr.nodes : m[k].state = IF k \in {n} THEN "completed" ELSE tr.nodes[k].state
  BY MarkedGraph DEF States
<1> HIDE DEF m
<1>2. /\ new \in TreeSet /\ new.root = tr.root /\ new.queue = tr.queue /\ new.active = tr.active
      /\ new.requested = tr.requested /\ new.nodes = m
  BY <1>1 DEF Completed, TreeSet, m
<1> HIDE DEF new
<1>3. n \in DOMAIN tr.nodes /\ n \notin Pending(tr) BY DEF InState, Pending
<1>4. Pending(new) = Pending(tr) /\ Running(new) = {}
  <2>1. DOMAIN m = DOMAIN tr.nodes BY <1>1 DEF Skeleton
  <2>2. Running(tr) \subseteq {n} BY DEF QueueInv
  <2> QED BY <1>1, <1>2, <1>3, <2>1, <2>2 DEF Pending, Running
<1>5. Keeps(tr, new) BY <1>1, <1>2 DEF Keeps, Runnable
<1>6. DOMAIN new.nodes = DOMAIN tr.nodes BY <1>1, <1>2 DEF Skeleton
<1>7. QueueInv(new, {n}) BY <1>2, <1>3, <1>4, <1>6 DEF QueueInv
<1> QED BY <1>2, <1>4, <1>5, <1>7 DEF SettlesTree, new

\* fail_claim
LEMMA FailedTree ==
    ASSUME NEW tr \in TreeSet, NEW c, QueueInv(tr, {slots[c].node}), tr.active # 0, ~tr.requested,
           slots[c].node \in DOMAIN tr.nodes, NEW propagate \in BOOLEAN
    PROVE  /\ SettlesTree(tr, Failed(tr, c, propagate), {slots[c].node})
           /\ Running(Failed(tr, c, propagate)) = {}
<1> DEFINE n == slots[c].node
           below == IF propagate
                    THEN {k \in Descendants(tr.nodes, n) \ {n} : InState(tr, k, {"pending"})} ELSE {}
           new == Failed(tr, c, propagate)
           m == Marked(tr, below \cup {n}, "error")
           d == Dequeued(tr, below)
<1>0. n \notin Pending(tr) /\ Running(tr) \subseteq {n} BY DEF QueueInv
<1>1. CASE InState(tr, n, {"completed"})
  <2>1. new = tr BY <1>1 DEF Failed
  <2>2. Running(tr) = {} BY <1>0, <1>1 DEF InState, Running
  <2> QED BY <2>1, <2>2 DEF SettlesTree, Keeps, Skeleton
<1>2. CASE ~InState(tr, n, {"completed"})
  <2>1. /\ m \in Graphs /\ Skeleton(tr.nodes, m)
        /\ \A k \in DOMAIN tr.nodes :
              m[k].state = IF k \in below \cup {n} THEN "error" ELSE tr.nodes[k].state
    BY MarkedGraph DEF States
  <2>2. d \in Seq(Nodes) /\ IsInjective(d) /\ Range(d) = Range(tr.queue) \ below
    BY DequeuedQueue, TreeFields DEF QueueInv
  <2>3. below \subseteq Pending(tr) BY DEF InState, Pending
  <2>4. new = [tr EXCEPT !.nodes = m, !.queue = d] BY <1>2 DEF Failed
  <2> HIDE DEF below, m, d, new
  <2>5. /\ new \in TreeSet /\ new.root = tr.root /\ new.queue = d /\ new.active = tr.active
        /\ new.requested = tr.requested /\ new.nodes = m
    BY <2>1, <2>2, <2>4 DEF TreeSet
  <2>6. Pending(new) = Pending(tr) \ below /\ Running(new) = {} /\ DOMAIN new.nodes = DOMAIN tr.nodes
    <3>1. DOMAIN m = DOMAIN tr.nodes BY <2>1 DEF Skeleton
    <3> QED BY <1>0, <2>1, <2>5, <3>1 DEF Pending, Running
  <2>7. Keeps(tr, new)
    <3>1. \A k \in DOMAIN tr.nodes : k \in below \cup {n} => tr.nodes[k].state # "completed"
      BY <1>2, <2>3 DEF InState, Pending
    <3> QED BY <2>1, <2>5, <3>1 DEF Keeps, Runnable
  <2>8. QueueInv(new, {n}) BY <1>0, <2>2, <2>5, <2>6 DEF QueueInv
  <2> QED BY <2>5, <2>6, <2>7, <2>8 DEF SettlesTree, new
<1> QED BY <1>1, <1>2

\* A cancellation ends what it is for and nothing else; it takes the active
\* claim's right to write only if it is for its node.
LEMMA CancelledTree ==
    ASSUME NEW tr \in TreeSet, QueueInv(tr, ActiveNode(tr)), NEW those
    PROVE  /\ SettlesTree(tr, Cancelled(tr, those), ActiveNode(tr))
           /\ Pending(Cancelled(tr, those)) = Pending(tr) \ those
           /\ Running(Cancelled(tr, those)) = Running(tr) \ those
           /\ Cancelled(tr, those).requested = (tr.requested \/ ActiveNode(tr) \cap those # {})
<1> DEFINE a == ActiveNode(tr)
           ended == {n \in those : InState(tr, n, Runnable)}
           m == Marked(tr, ended, "error")
           d == Dequeued(tr, those)
           new == Cancelled(tr, those)
<1>1. /\ m \in Graphs /\ Skeleton(tr.nodes, m)
      /\ \A k \in DOMAIN tr.nodes : m[k].state = IF k \in ended THEN "error" ELSE tr.nodes[k].state
  BY MarkedGraph DEF States
<1>2. d \in Seq(Nodes) /\ IsInjective(d) /\ Range(d) = Range(tr.queue) \ those
  BY DequeuedQueue, TreeFields DEF QueueInv
<1>3. new = [tr EXCEPT !.requested = (tr.requested \/ a \cap those # {}), !.nodes = m, !.queue = d]
  BY DEF Cancelled, TreeSet
<1>4. \A n \in DOMAIN tr.nodes : n \in ended <=> n \in those /\ tr.nodes[n].state \in Runnable
  BY DEF InState
<1> HIDE DEF ended, m, d, new, a
<1>5. /\ new \in TreeSet /\ new.root = tr.root /\ new.queue = d /\ new.active = tr.active
      /\ new.requested = (tr.requested \/ a \cap those # {}) /\ new.nodes = m
  BY <1>1, <1>2, <1>3 DEF TreeSet
<1>6. DOMAIN new.nodes = DOMAIN tr.nodes BY <1>1, <1>5 DEF Skeleton
<1>7. Pending(new) = Pending(tr) \ those /\ Running(new) = Running(tr) \ those
  BY <1>1, <1>4, <1>5, <1>6 DEF Pending, Running, Runnable
<1>8. Keeps(tr, new)
  <2>1. \A k \in DOMAIN tr.nodes :
           /\ m[k].state \in Runnable => tr.nodes[k].state \in Runnable
           /\ tr.nodes[k].state = "completed" => m[k].state = "completed"
    BY <1>1, <1>4 DEF Runnable
  <2> QED BY <1>1, <1>5, <2>1 DEF Keeps
<1>9. QueueInv(new, a)
  <2>1. Range(tr.queue) = Pending(tr) /\ Running(tr) \subseteq a /\ (tr.active = 0 => Pending(tr) = {})
        /\ (tr.active = 0 \/ tr.requested => Running(tr) = {})
        /\ (tr.active # 0 /\ ~tr.requested => a \subseteq DOMAIN tr.nodes \ Pending(tr))
    BY DEF QueueInv, a
  <2>2. a \cap those # {} => Running(new) = {}
    <3>1. \A x, y \in a : x = y BY DEF a, ActiveNode
    <3> QED BY <1>7, <2>1, <3>1
  <2>3. Running(new) \subseteq a /\ (new.active = 0 => Pending(new) = {})
        /\ (new.active # 0 /\ ~new.requested => a \subseteq DOMAIN new.nodes \ Pending(new))
    BY <1>5, <1>6, <1>7, <2>1
  <2>4. new.active = 0 \/ new.requested => Running(new) = {} BY <1>5, <1>7, <2>1, <2>2
  <2> QED BY <1>2, <1>5, <1>7, <2>1, <2>3, <2>4 DEF QueueInv
<1> QED BY <1>5, <1>7, <1>8, <1>9 DEF SettlesTree, new, a

\* What is left of a cancellation that raised, when nothing was running.
LEMMA InterruptedTree ==
    ASSUME NEW tr \in TreeSet, QueueInv(tr, ActiveNode(tr)), Running(tr) = {}, NEW part
    PROVE  SettlesTree(tr, Interrupted(tr, part), ActiveNode(tr)) /\ Interrupted(tr, part).requested
<1> DEFINE can == Cancelled(tr, part)
           new == Interrupted(tr, part)
           a == ActiveNode(tr)
<1>1. SettlesTree(tr, can, a) BY CancelledTree
<1>2. new = [can EXCEPT !.requested = TRUE] BY DEF Interrupted
<1> HIDE DEF can, new, a
<1>3. /\ new \in TreeSet /\ new.root = can.root /\ new.queue = can.queue /\ new.active = can.active
      /\ new.requested = TRUE /\ new.nodes = can.nodes
  BY <1>1, <1>2 DEF SettlesTree, TreeSet
<1>4. Pending(new) = Pending(can) /\ Running(new) = Running(can) BY <1>3 DEF Pending, Running
<1>5. Running(new) = {} BY <1>1, <1>4 DEF SettlesTree
<1>6. QueueInv(new, a) BY <1>1, <1>3, <1>4, <1>5 DEF QueueInv, SettlesTree
<1>7. Keeps(tr, new) BY <1>1, <1>3 DEF Keeps, SettlesTree
<1> QED BY <1>1, <1>3, <1>4, <1>6, <1>7 DEF SettlesTree, new, a

\* The first in a queue is pending, so it is the next.
LEMMA NextIsFirst ==
    ASSUME NEW tr \in TreeSet, NEW a, QueueInv(tr, a)
    PROVE  /\ tr.queue = <<>> => NextQueued(tr) = 0 /\ Pending(tr) = {}
           /\ tr.queue # <<>> => NextQueued(tr) = 1 /\ tr.queue[1] \in Pending(tr)
<1> DEFINE ready == {i \in 1 .. Len(tr.queue) : InState(tr, tr.queue[i], {"pending"})}
<1>1. NextQueued(tr) = IF ready # {} THEN Min(ready) ELSE 0 BY DEF NextQueued, SelectInSeq
<1>2. Range(tr.queue) = Pending(tr) BY DEF QueueInv
<1>3. ASSUME tr.queue = <<>> PROVE NextQueued(tr) = 0 /\ Pending(tr) = {}
  <2>1. Len(tr.queue) = 0 /\ DOMAIN tr.queue = {} BY <1>3, EmptySeq
  <2>2. ready = {} BY <2>1
  <2> HIDE DEF ready
  <2> QED BY <1>1, <1>2, <2>1, <2>2 DEF Range
<1>4. ASSUME tr.queue # <<>> PROVE NextQueued(tr) = 1 /\ tr.queue[1] \in Pending(tr)
  <2>1. Len(tr.queue) \in Nat \ {0} /\ DOMAIN tr.queue = 1 .. Len(tr.queue)
    BY <1>4, TreeFields, LenProperties, EmptySeq
  <2>2. tr.queue[1] \in Pending(tr) BY <1>2, <2>1 DEF Range
  <2>3. 1 \in ready BY <2>1, <2>2 DEF InState, Pending
  <2>4. \A i \in ready : i \in Int /\ 1 <= i BY <2>1
  <2> HIDE DEF ready
  <2>5. Min(ready) \in ready /\ \A i \in ready : Min(ready) <= i BY <2>3, <2>4 DEF Min
  <2>6. Min(ready) = 1 BY <2>3, <2>4, <2>5
  <2> QED BY <1>1, <2>2, <2>3, <2>6
<1> QED BY <1>3, <1>4

\* A tree in which nothing runs claims a node that was pending.
LEMMA ClaimedTree ==
    ASSUME NEW tr \in TreeSet, Len(slots) \in Nat, NEW n \in Pending(tr), IsInjective(tr.queue),
           Range(tr.queue) = Pending(tr) \ {n}, Running(tr) = {}
    PROVE  LET new == Claimed(tr, n) IN
           /\ new \in TreeSet /\ Keeps(tr, new) /\ QueueInv(new, {n})
           /\ new.active = Len(slots) + 1
           /\ \A k \in DOMAIN tr.nodes :
                 new.nodes[k].state = IF k = n THEN "in_progress" ELSE tr.nodes[k].state
<1> DEFINE new == Claimed(tr, n)
           m == Marked(tr, {n}, "in_progress")
<1>1. /\ m \in Graphs /\ Skeleton(tr.nodes, m)
      /\ \A k \in DOMAIN tr.nodes : m[k].state = IF k \in {n} THEN "in_progress" ELSE tr.nodes[k].state
  BY MarkedGraph DEF States
<1>2. new = [tr EXCEPT !.active = Len(slots) + 1, !.requested = FALSE, !.nodes = m] BY DEF Claimed
<1> HIDE DEF m, new
<1>3. /\ new \in TreeSet /\ new.root = tr.root /\ new.queue = tr.queue
      /\ new.active = Len(slots) + 1 /\ new.requested = FALSE /\ new.nodes = m
  <2> DEFINE next == Len(slots) + 1
  <2>1. next \in Nat OBVIOUS
  <2> HIDE DEF next
  <2>2. new = [tr EXCEPT !.active = next, !.requested = FALSE, !.nodes = m] BY <1>2 DEF next
  <2>3. new \in TreeSet /\ new.active = next BY <1>1, <2>1, <2>2 DEF TreeSet
  <2>4. /\ new.root = tr.root /\ new.queue = tr.queue /\ new.requested = FALSE /\ new.nodes = m
    BY <2>2 DEF TreeSet
  <2> QED BY <2>3, <2>4 DEF next
<1>4. n \in DOMAIN tr.nodes /\ tr.nodes[n].state = "pending" BY DEF Pending
<1>5. DOMAIN m = DOMAIN tr.nodes BY <1>1 DEF Skeleton
<1>6. Pending(new) = Pending(tr) \ {n} /\ Running(new) = {n}
  BY <1>1, <1>3, <1>4, <1>5 DEF Pending, Running
<1>7. Keeps(tr, new)
  <2>1. \A k \in DOMAIN tr.nodes :
           /\ m[k].state \in Runnable => tr.nodes[k].state \in Runnable
           /\ tr.nodes[k].state = "completed" => m[k].state = "completed"
    BY <1>1, <1>4 DEF Runnable
  <2> QED BY <1>1, <1>3, <2>1 DEF Keeps
<1>8. QueueInv(new, {n}) BY <1>3, <1>4, <1>5, <1>6 DEF QueueInv
<1> QED BY <1>1, <1>3, <1>7, <1>8 DEF new

\* Releasing the claim of a tree in which nothing runs takes its next node, if
\* there is one, out of the queue.
Freed(tr, i) ==
    [tr EXCEPT !.active = 0, !.queue = IF i = 0 THEN <<>> ELSE SubSeq(@, i + 1, Len(@))]

\* A tree freed with an empty queue is idle and keeps its nodes; one freed for its
\* next node has the others left to wait.
LEMMA FreedTree ==
    ASSUME NEW tr \in TreeSet, NEW a, QueueInv(tr, a), Running(tr) = {}
    PROVE  /\ tr.queue = <<>> =>
                 /\ Freed(tr, 0) \in TreeSet /\ Keeps(tr, Freed(tr, 0)) /\ QueueInv(Freed(tr, 0), {})
                 /\ Freed(tr, 0).active = 0 /\ Freed(tr, 0).nodes = tr.nodes
           /\ tr.queue # <<>> =>
                 /\ Freed(tr, 1) \in TreeSet /\ Keeps(tr, Freed(tr, 1)) /\ Running(Freed(tr, 1)) = {}
                 /\ IsInjective(Freed(tr, 1).queue) /\ tr.queue[1] \in Pending(Freed(tr, 1))
                 /\ Range(Freed(tr, 1).queue) = Pending(Freed(tr, 1)) \ {tr.queue[1]}
                 /\ Freed(tr, 1).nodes = tr.nodes
<1>1. Range(tr.queue) = Pending(tr) /\ IsInjective(tr.queue) /\ tr.queue \in Seq(Nodes)
  BY TreeFields DEF QueueInv
<1>2. ASSUME tr.queue = <<>>
      PROVE  /\ Freed(tr, 0) \in TreeSet /\ Keeps(tr, Freed(tr, 0)) /\ QueueInv(Freed(tr, 0), {})
             /\ Freed(tr, 0).active = 0 /\ Freed(tr, 0).nodes = tr.nodes
  <2> DEFINE new == Freed(tr, 0)
  <2>1. /\ new \in TreeSet /\ new.root = tr.root /\ new.queue = tr.queue /\ new.active = 0
        /\ new.nodes = tr.nodes
    BY <1>2 DEF Freed, TreeSet
  <2> HIDE DEF new
  <2>2. Pending(new) = Pending(tr) /\ Running(new) = Running(tr) BY <2>1 DEF Pending, Running
  <2>3. Pending(tr) = {} BY <1>2, NextIsFirst
  <2>4. QueueInv(new, {}) BY <1>1, <2>1, <2>2, <2>3 DEF QueueInv
  <2>5. Keeps(tr, new) BY <2>1 DEF Keeps, Skeleton
  <2> QED BY <2>1, <2>4, <2>5 DEF new
<1>3. ASSUME tr.queue # <<>>
      PROVE  /\ Freed(tr, 1) \in TreeSet /\ Keeps(tr, Freed(tr, 1)) /\ Running(Freed(tr, 1)) = {}
             /\ IsInjective(Freed(tr, 1).queue) /\ tr.queue[1] \in Pending(Freed(tr, 1))
             /\ Range(Freed(tr, 1).queue) = Pending(Freed(tr, 1)) \ {tr.queue[1]}
             /\ Freed(tr, 1).nodes = tr.nodes
  <2> DEFINE new == Freed(tr, 1)
             s == SubSeq(tr.queue, 2, Len(tr.queue))
  <2>1. s \in Seq(Nodes) /\ IsInjective(s) /\ Range(s) = Range(tr.queue) \ {tr.queue[1]}
    BY <1>1, <1>3, RestOfQueue
  <2>2. new = [tr EXCEPT !.active = 0, !.queue = s] BY DEF Freed
  <2> HIDE DEF new, s
  <2>3. /\ new \in TreeSet /\ new.root = tr.root /\ new.queue = s /\ new.nodes = tr.nodes
    BY <2>1, <2>2 DEF TreeSet
  <2>4. Pending(new) = Pending(tr) /\ Running(new) = Running(tr) BY <2>3 DEF Pending, Running
  <2>5. Keeps(tr, new) BY <2>3 DEF Keeps, Skeleton
  <2>6. tr.queue[1] \in Pending(tr) BY <1>3, NextIsFirst
  <2> QED BY <1>1, <2>1, <2>3, <2>4, <2>5, <2>6 DEF new
<1> QED BY <1>2, <1>3

\* _finish_claim: what the tree of c is afterwards, and what slot it adds.
Launched(t, n) == Slot(t, n, IF t \in published THEN "created" ELSE "unlaunched")

\* What _finish_claim leaves of the tree, and that a slot it adds is for a pending node.
LEMMA FinishedTree ==
    ASSUME NEW c \in DOMAIN slots, NEW tr \in TreeSet, QueueInv(tr, ActiveNode(tr)),
           Running(tr) = {}, tr.active = c, Len(slots) \in Nat, slots[c].tree \in DOMAIN trees,
           trees \in Seq(TreeSet), Finish(c, tr)
    PROVE  LET t == slots[c].tree
               done == [slots EXCEPT ![c].at = "finished", ![c].cancel = "none"]
           IN /\ DOMAIN trees' = DOMAIN trees
              /\ \A u \in DOMAIN trees \ {t} : trees'[u] = trees[u]
              /\ trees'[t] \in TreeSet /\ Keeps(tr, trees'[t])
              /\ \A k \in DOMAIN tr.nodes :
                    \/ trees'[t].nodes[k].state = tr.nodes[k].state
                    \/ {trees'[t].nodes[k].state, tr.nodes[k].state} \subseteq Runnable
              /\ \/ trees'[t].active = 0 /\ QueueInv(trees'[t], {}) /\ slots' = done
                 \/ /\ trees'[t].active = Len(slots) + 1
                    /\ \E n \in Pending(tr) : /\ QueueInv(trees'[t], {n})
                                              /\ slots' = Append(done, Launched(t, n))
<1> DEFINE t == slots[c].tree
           i == NextQueued(tr)
           done == [slots EXCEPT ![c].at = "finished", ![c].cancel = "none"]
<1>1. CASE tr.queue = <<>>
  <2>1. i = 0 BY <1>1, NextIsFirst
  <2>2. Replace(t, Freed(tr, 0)) /\ slots' = done BY <2>1 DEF Finish, Freed
  <2>3. Freed(tr, 0) \in TreeSet /\ Keeps(tr, Freed(tr, 0)) /\ QueueInv(Freed(tr, 0), {})
        /\ Freed(tr, 0).active = 0 /\ Freed(tr, 0).nodes = tr.nodes
    BY <1>1, FreedTree
  <2> QED BY <2>2, <2>3 DEF Replace
<1>2. CASE tr.queue # <<>>
  <2> DEFINE n == tr.queue[1]
             new == Claimed(Freed(tr, 1), n)
  <2>1. i = 1 /\ n \in Pending(tr) BY <1>2, NextIsFirst
  <2>2. Replace(t, new) /\ slots' = Append(done, Launched(t, n))
    BY <2>1 DEF Finish, Freed, Launched
  <2>3. /\ Freed(tr, 1) \in TreeSet /\ Keeps(tr, Freed(tr, 1)) /\ Running(Freed(tr, 1)) = {}
        /\ IsInjective(Freed(tr, 1).queue) /\ n \in Pending(Freed(tr, 1))
        /\ Range(Freed(tr, 1).queue) = Pending(Freed(tr, 1)) \ {n} /\ Freed(tr, 1).nodes = tr.nodes
    BY <1>2, FreedTree
  <2>4. /\ new \in TreeSet /\ Keeps(Freed(tr, 1), new) /\ QueueInv(new, {n})
        /\ new.active = Len(slots) + 1
        /\ \A k \in DOMAIN tr.nodes :
              new.nodes[k].state = IF k = n THEN "in_progress" ELSE tr.nodes[k].state
    <3> DEFINE fr == Freed(tr, 1)
    <3>1. /\ fr \in TreeSet /\ Running(fr) = {} /\ IsInjective(fr.queue) /\ n \in Pending(fr)
          /\ Range(fr.queue) = Pending(fr) \ {n} /\ fr.nodes = tr.nodes
      BY <2>3
    <3> HIDE DEF fr, n
    <3>2. /\ Claimed(fr, n) \in TreeSet /\ Keeps(fr, Claimed(fr, n)) /\ QueueInv(Claimed(fr, n), {n})
          /\ Claimed(fr, n).active = Len(slots) + 1
          /\ \A k \in DOMAIN fr.nodes :
                Claimed(fr, n).nodes[k].state = IF k = n THEN "in_progress" ELSE fr.nodes[k].state
      BY <3>1, ClaimedTree
    <3> QED BY <3>1, <3>2 DEF fr
  <2>5. Keeps(tr, new)
    BY <2>3, <2>4 DEF Keeps, Skeleton
  <2> HIDE DEF n, new
  <2>6. trees'[t] = new /\ DOMAIN trees' = DOMAIN trees /\ \A u \in DOMAIN trees \ {t} : trees'[u] = trees[u]
    BY <2>2 DEF Replace
  <2>7. \A k \in DOMAIN tr.nodes : \/ new.nodes[k].state = tr.nodes[k].state
                                     \/ {new.nodes[k].state, tr.nodes[k].state} \subseteq Runnable
    BY <2>1, <2>4 DEF Pending, Runnable
  <2> QED BY <2>1, <2>2, <2>4, <2>5, <2>6, <2>7
<1> QED BY <1>1, <1>2

\* A node joins a tree: it is claimed if the tree is free, and queued if not.
LEMMA EnqueuedTree ==
    ASSUME NEW tr \in TreeSet, NEW a, QueueInv(tr, a), Len(slots) \in Nat,
           NEW n \in Nodes, n \notin DOMAIN tr.nodes, Node(intake[n]) \in NodeSet
    PROVE  LET new == Enqueued(WithNode(tr, n), n) IN
           /\ new \in TreeSet /\ new.root = tr.root
           /\ DOMAIN new.nodes = DOMAIN tr.nodes \cup {n}
           /\ \A k \in DOMAIN tr.nodes : new.nodes[k] = tr.nodes[k]
           /\ new.nodes[n].status = intake[n].status /\ new.nodes[n].parent = intake[n].parent
           /\ new.nodes[n].born = intake[n].token
           /\ tr.active = 0 => new.active = Len(slots) + 1 /\ QueueInv(new, {n})
           /\ tr.active # 0 => /\ new.active = tr.active /\ new.requested = tr.requested
                               /\ QueueInv(new, a) /\ Running(new) = Running(tr)
<1> DEFINE new == Enqueued(WithNode(tr, n), n)
           w == WithNode(tr, n)
           nodes == [m \in DOMAIN tr.nodes \cup {n} |-> IF m = n THEN Node(intake[n]) ELSE tr.nodes[m]]
           node == Node(intake[n])
<1>0. node \in NodeSet /\ node.state = "pending" /\ node.status = intake[n].status
      /\ node.parent = intake[n].parent /\ node.born = intake[n].token
  BY DEF Node
<1>1. w = [tr EXCEPT !.nodes = nodes] BY DEF WithNode, TreeSet
<1> HIDE DEF new, w, node
<1>2. /\ DOMAIN nodes = DOMAIN tr.nodes \cup {n} /\ nodes[n] = node
      /\ \A k \in DOMAIN tr.nodes : nodes[k] = tr.nodes[k]
  BY DEF node
<1>3. nodes \in Graphs
  <2>1. DOMAIN nodes \subseteq Nodes BY <1>2, TreeFields
  <2>2. \A k \in DOMAIN nodes : nodes[k] \in NodeSet BY <1>0, <1>2, TreeFields
  <2>3. nodes \in [DOMAIN nodes -> NodeSet] BY <2>2
  <2> QED BY <2>1, <2>3, GraphsDef
<1> HIDE DEF nodes
<1>4. /\ w \in TreeSet /\ w.root = tr.root /\ w.queue = tr.queue /\ w.active = tr.active
      /\ w.requested = tr.requested /\ w.nodes = nodes
  BY <1>1, <1>3 DEF TreeSet
<1>5. Pending(w) = Pending(tr) \cup {n} /\ Running(w) = Running(tr) /\ n \notin Pending(tr)
  BY <1>0, <1>2, <1>4 DEF Pending, Running
<1>6. Range(tr.queue) = Pending(tr) /\ IsInjective(tr.queue) /\ tr.queue \in Seq(Nodes)
  BY TreeFields DEF QueueInv
<1>7. CASE tr.active = 0
  <2>1. new = Claimed(w, n) BY <1>4, <1>7 DEF Enqueued, new, w
  <2>2. Pending(tr) = {} /\ Running(tr) = {} BY <1>7 DEF QueueInv
  <2>3. /\ new \in TreeSet /\ Keeps(w, new) /\ QueueInv(new, {n}) /\ new.active = Len(slots) + 1
        /\ \A k \in DOMAIN w.nodes :
              new.nodes[k].state = IF k = n THEN "in_progress" ELSE w.nodes[k].state
    <3>1. n \in Pending(w) /\ IsInjective(w.queue) /\ Running(w) = {} BY <1>4, <1>5, <1>6, <2>2
    <3>2. Range(w.queue) = Pending(w) \ {n} BY <1>4, <1>5, <1>6, <2>2
    <3> QED BY <1>4, <2>1, <3>1, <3>2, ClaimedTree
  <2>4. DOMAIN new.nodes = DOMAIN nodes BY <1>4, <2>3 DEF Keeps, Skeleton
  <2>5. ASSUME NEW k \in DOMAIN tr.nodes PROVE new.nodes[k] = tr.nodes[k]
    <3>1. k # n /\ k \in DOMAIN nodes /\ nodes[k] = tr.nodes[k] BY <1>2
    <3>2. /\ new.nodes[k].status = tr.nodes[k].status /\ new.nodes[k].parent = tr.nodes[k].parent
          /\ new.nodes[k].born = tr.nodes[k].born /\ new.nodes[k].state = tr.nodes[k].state
      BY <1>4, <2>3, <3>1 DEF Keeps, Skeleton
    <3>3. new.nodes[k] \in NodeSet /\ tr.nodes[k] \in NodeSet
      BY <1>2, <2>3, <2>4, TreeFields
    <3> QED BY <3>2, <3>3 DEF NodeSet
  <2>6. /\ new.nodes[n].status = intake[n].status /\ new.nodes[n].parent = intake[n].parent
        /\ new.nodes[n].born = intake[n].token
    BY <1>0, <1>2, <1>4, <2>3 DEF Keeps, Skeleton
  <2>7. new.root = tr.root BY <1>4, <2>3 DEF Keeps
  <2> QED BY <1>2, <1>7, <2>3, <2>4, <2>5, <2>6, <2>7 DEF new
<1>8. CASE tr.active # 0
  <2> DEFINE q == Append(tr.queue, n)
  <2>1. new = [w EXCEPT !.queue = q] BY <1>4, <1>8 DEF Enqueued, new, w
  <2>2. q \in Seq(Nodes) /\ IsInjective(q) /\ Range(q) = Range(tr.queue) \cup {n}
    BY <1>5, <1>6, LongerQueue
  <2> HIDE DEF q
  <2>3. /\ new \in TreeSet /\ new.root = tr.root /\ new.queue = q /\ new.active = tr.active
        /\ new.requested = tr.requested /\ new.nodes = nodes
    BY <1>4, <2>1, <2>2 DEF TreeSet
  <2>4. Pending(new) = Pending(w) /\ Running(new) = Running(w) BY <1>4, <2>3 DEF Pending, Running
  <2>5. QueueInv(new, a)
    <3>1. /\ Running(tr) \subseteq a /\ (tr.active = 0 \/ tr.requested => Running(tr) = {})
          /\ (tr.active # 0 /\ ~tr.requested => a \subseteq DOMAIN tr.nodes \ Pending(tr))
      BY DEF QueueInv
    <3>2. tr.active # 0 /\ ~tr.requested => a \subseteq DOMAIN new.nodes \ Pending(new)
      BY <1>2, <1>5, <2>3, <2>4, <3>1
    <3> QED BY <1>5, <1>6, <1>8, <2>2, <2>3, <2>4, <3>1, <3>2 DEF QueueInv
  <2> QED BY <1>0, <1>2, <1>5, <1>8, <2>3, <2>4, <2>5 DEF new
<1> QED BY <1>7, <1>8

\* A tree that is about to get its root.
LEMMA EmptyTree ==
    ASSUME NEW n \in Nodes
    PROVE  /\ NewTree(n) \in TreeSet /\ QueueInv(NewTree(n), {})
           /\ NewTree(n).active = 0 /\ NewTree(n).root = n /\ DOMAIN NewTree(n).nodes = {}
<1> DEFINE tr == NewTree(n)
<1>1. /\ tr.root = n /\ tr.queue = <<>> /\ tr.active = 0 /\ tr.requested = FALSE /\ tr.nodes = <<>>
  BY DEF NewTree
<1>2. <<>> \in Seq(Nodes) /\ DOMAIN <<>> = {} BY EmptySeq
<1>3. <<>> \in Graphs
  <2>1. <<>> \in [{} -> NodeSet] BY <1>2
  <2> QED BY <1>2, <2>1, GraphsDef
<1>4. tr \in TreeSet BY <1>2, <1>3 DEF NewTree, TreeSet
<1>5. Pending(tr) = {} /\ Running(tr) = {} BY <1>1, <1>2 DEF Pending, Running
<1>6. Range(tr.queue) = {} /\ IsInjective(tr.queue) BY <1>1, <1>2 DEF Range, IsInjective
<1> HIDE DEF tr
<1>7. QueueInv(tr, {}) BY <1>1, <1>5, <1>6 DEF QueueInv
<1> QED BY <1>1, <1>2, <1>4, <1>7 DEF tr

------------------------------------------------------------------------------
(* Graphs and their references                                              *)

\* The same prompts with the same messages and parents.
SameShape(nodes, new) ==
    /\ DOMAIN new = DOMAIN nodes
    /\ \A n \in DOMAIN nodes : new[n].status = nodes[n].status /\ new[n].parent = nodes[n].parent

\* A graph of the same skeleton has the same shape.
LEMMA SkeletonShape == ASSUME NEW nodes, NEW new, Skeleton(nodes, new) PROVE SameShape(nodes, new)
BY DEF Skeleton, SameShape

\* Whose message a prompt and a status are.
LEMMA MessageFields ==
    ASSUME NEW n, NEW k
    PROVE  /\ Prompt(n).node = n /\ Prompt(n).status = 0 /\ Status(n, k).node = n
           /\ Status(n, k).status = k /\ Status(n, 0) = Prompt(n)
BY DEF Prompt, Status

\* A message of a prompt names it.
LEMMA OwnMessages ==
    ASSUME NEW nodes, NEW n, NEW r \in NodeMessages(nodes, n)
    PROVE  r.node = n /\ r.status \in {0, nodes[n].status}
BY MessageFields DEF NodeMessages

\* The references of a graph are its prompts' messages.
LEMMA RefersToMessages ==
    ASSUME NEW nodes
    PROVE  RefersTo(nodes) = UNION {NodeMessages(nodes, n) : n \in DOMAIN nodes}
<1>1. ASSUME NEW r \in RefersTo(nodes) PROVE \E n \in DOMAIN nodes : r \in NodeMessages(nodes, n)
  BY DEF RefersTo, NodeMessages
<1>2. ASSUME NEW n \in DOMAIN nodes, NEW r \in NodeMessages(nodes, n) PROVE r \in RefersTo(nodes)
  <2>1. CASE r = Prompt(n) BY <2>1 DEF RefersTo
  <2>2. CASE r = Status(n, nodes[n].status) /\ nodes[n].status # 0 BY <2>2 DEF RefersTo
  <2>3. CASE r = Status(n, nodes[n].status) /\ nodes[n].status = 0
    BY <2>3, MessageFields DEF RefersTo
  <2> QED BY <2>1, <2>2, <2>3 DEF NodeMessages
<1> QED BY <1>1, <1>2

\* What two graphs of the same shape have in common.
LEMMA ShapeSame ==
    ASSUME NEW nodes, NEW new, SameShape(nodes, new)
    PROVE  /\ RefersTo(new) = RefersTo(nodes)
           /\ \A n \in DOMAIN nodes : NodeMessages(new, n) = NodeMessages(nodes, n)
           /\ \A ns \in SUBSET DOMAIN nodes : /\ ChildrenStayIn(new, ns) <=> ChildrenStayIn(nodes, ns)
                                              /\ RepliesStayIn(new, ns) <=> RepliesStayIn(nodes, ns)
<1>1. DOMAIN new = DOMAIN nodes BY DEF SameShape
<1>2. \A n \in DOMAIN nodes : NodeMessages(new, n) = NodeMessages(nodes, n)
  BY DEF SameShape, NodeMessages
<1>3. RefersTo(new) = RefersTo(nodes) BY <1>1, <1>2, RefersToMessages
<1>4. ASSUME NEW ns \in SUBSET DOMAIN nodes
      PROVE  /\ ChildrenStayIn(new, ns) <=> ChildrenStayIn(nodes, ns)
             /\ RepliesStayIn(new, ns) <=> RepliesStayIn(nodes, ns)
  BY <1>1, <1>2 DEF SameShape, ChildrenStayIn, RepliesStayIn
<1> QED BY <1>2, <1>3, <1>4

\* WellFormed, with its closure spelled out.
LEMMA WellFormedDef ==
    ASSUME NEW root, NEW nodes
    PROVE  WellFormed(root, nodes) <=>
              /\ root \in DOMAIN nodes /\ nodes[root].parent = NoReference
              /\ \A n \in DOMAIN nodes : nodes[n].state \in Runnable => nodes[n].status # 0
              /\ \A n \in DOMAIN nodes \ {root} :
                    \E m \in DOMAIN nodes : nodes[n].parent \in NodeMessages(nodes, m)
              /\ \A ns \in SUBSET DOMAIN nodes :
                    root \in ns /\ ChildrenStayIn(nodes, ns) => DOMAIN nodes \subseteq ns
<1>1. DOMAIN nodes = Descendants(nodes, root) <=>
         \A ns \in SUBSET DOMAIN nodes :
            root \in ns /\ ChildrenStayIn(nodes, ns) => DOMAIN nodes \subseteq ns
  BY DEF Descendants
<1>2. \A r : r \in RefersTo(nodes) <=> \E m \in DOMAIN nodes : r \in NodeMessages(nodes, m)
  BY RefersToMessages
<1> QED BY <1>1, <1>2 DEF WellFormed

\* A tree stays well-formed while its shape does and nothing becomes runnable.
LEMMA WellFormedKept ==
    ASSUME NEW root, NEW nodes, NEW new, WellFormed(root, nodes), SameShape(nodes, new),
           \A n \in DOMAIN nodes : new[n].state \in Runnable => nodes[n].state \in Runnable
    PROVE  WellFormed(root, new)
<1>1. /\ DOMAIN new = DOMAIN nodes
      /\ \A n \in DOMAIN nodes : new[n].status = nodes[n].status /\ new[n].parent = nodes[n].parent
  BY DEF SameShape
<1>2. root \in DOMAIN new /\ new[root].parent = NoReference BY <1>1, WellFormedDef
<1>3. \A n \in DOMAIN new : new[n].state \in Runnable => new[n].status # 0 BY <1>1, WellFormedDef
<1>4. ASSUME NEW n \in DOMAIN new \ {root}
      PROVE  \E m \in DOMAIN new : new[n].parent \in NodeMessages(new, m)
  BY <1>1, WellFormedDef, ShapeSame
<1>5. ASSUME NEW ns \in SUBSET DOMAIN new, root \in ns, ChildrenStayIn(new, ns)
      PROVE  DOMAIN new \subseteq ns
  BY <1>1, <1>5, WellFormedDef, ShapeSame
<1> QED BY <1>2, <1>3, <1>4, <1>5, WellFormedDef

\* A reply to a message of the tree joins it.
LEMMA WellFormedAdded ==
    ASSUME NEW root, NEW nodes, NEW new, WellFormed(root, nodes), NEW n, n \notin DOMAIN nodes,
           DOMAIN new = DOMAIN nodes \cup {n}, \A k \in DOMAIN nodes : new[k] = nodes[k],
           new[n].status # 0, NEW p \in DOMAIN nodes, new[n].parent \in NodeMessages(nodes, p)
    PROVE  WellFormed(root, new)
<1>1. \A k \in DOMAIN nodes : NodeMessages(new, k) = NodeMessages(nodes, k) BY DEF NodeMessages
<1>2. root \in DOMAIN new /\ new[root].parent = NoReference BY WellFormedDef
<1>3. \A k \in DOMAIN new : new[k].state \in Runnable => new[k].status # 0 BY WellFormedDef
<1>4. ASSUME NEW k \in DOMAIN new \ {root}
      PROVE  \E m \in DOMAIN new : new[k].parent \in NodeMessages(new, m)
  <2>1. CASE k = n BY <1>1, <2>1
  <2>2. CASE k # n
    <3>1. PICK m \in DOMAIN nodes : nodes[k].parent \in NodeMessages(nodes, m)
      BY <2>2, WellFormedDef
    <3> QED BY <1>1, <2>2, <3>1
  <2> QED BY <2>1, <2>2
<1>5. ASSUME NEW ns \in SUBSET DOMAIN new, root \in ns, ChildrenStayIn(new, ns)
      PROVE  DOMAIN new \subseteq ns
  <2>1. root \in DOMAIN nodes BY WellFormedDef
  <2>2. ChildrenStayIn(nodes, ns \cap DOMAIN nodes) BY <1>5 DEF ChildrenStayIn
  <2>3. DOMAIN nodes \subseteq ns BY <1>5, <2>1, <2>2, WellFormedDef
  <2>4. new[n].parent.node \in ns BY <2>3, OwnMessages
  <2>5. n \in ns BY <1>5, <2>4 DEF ChildrenStayIn
  <2> QED BY <2>3, <2>5
<1> QED BY <1>2, <1>3, <1>4, <1>5, WellFormedDef

\* A tree of one.
LEMMA WellFormedRoot ==
    ASSUME NEW n, NEW nodes, DOMAIN nodes = {n}, nodes[n].parent = NoReference, nodes[n].status # 0
    PROVE  WellFormed(n, nodes)
BY WellFormedDef

------------------------------------------------------------------------------
(* A cleared subtree                                                        *)

\* The prompts that go with what is cleared at r.
Gone(tr, r) == {n \in DOMAIN tr.nodes : Prompt(n) \in ReplySubtree(tr, r)}

\* A cleared subtree is what its prompts are known by, and replies stay in it.
LEMMA ReplySubtreeDef ==
    ASSUME NEW tr, NEW r
    PROVE  /\ ReplySubtree(tr, r) = {r} \cup UNION {NodeMessages(tr.nodes, m) : m \in Gone(tr, r)}
           /\ \A n \in DOMAIN tr.nodes : r \in {Prompt(n), tr.nodes[n].parent} => n \in Gone(tr, r)
           /\ RepliesStayIn(tr.nodes, Gone(tr, r))
<1> DEFINE nodes == tr.nodes
           first == {m \in DOMAIN nodes : r \in {Prompt(m), nodes[m].parent}}
           closed == {ns \in SUBSET DOMAIN nodes : first \subseteq ns /\ RepliesStayIn(nodes, ns)}
           below == {m \in DOMAIN nodes : \A ns \in closed : m \in ns}
<1>1. ReplySubtree(tr, r) = {r} \cup UNION {NodeMessages(nodes, m) : m \in below}
  BY DEF ReplySubtree
<1>2. first \subseteq below OBVIOUS
<1>3. RepliesStayIn(nodes, below)
  <2>1. ASSUME NEW m \in DOMAIN nodes, NEW n \in below, nodes[m].parent \in NodeMessages(nodes, n)
        PROVE  m \in below
    <3>1. ASSUME NEW ns \in closed PROVE m \in ns BY <2>1 DEF RepliesStayIn
    <3> QED BY <3>1
  <2> QED BY <2>1 DEF RepliesStayIn
<1> HIDE DEF below
<1>4. Gone(tr, r) = below
  <2>1. below \subseteq Gone(tr, r) BY <1>1 DEF Gone, NodeMessages, below
  <2>2. ASSUME NEW n \in Gone(tr, r) PROVE n \in below
    <3>1. n \in DOMAIN nodes /\ Prompt(n) \in ReplySubtree(tr, r) BY DEF Gone
    <3>2. CASE Prompt(n) = r BY <1>2, <3>1, <3>2
    <3>3. CASE \E m \in below : Prompt(n) \in NodeMessages(nodes, m)
      <4>1. PICK m \in below : Prompt(n) \in NodeMessages(nodes, m) BY <3>3
      <4>2. n = m BY <4>1, OwnMessages, MessageFields
      <4> QED BY <4>2
    <3> QED BY <1>1, <3>1, <3>2, <3>3
  <2> QED BY <2>1, <2>2
<1> QED BY <1>1, <1>2, <1>3, <1>4

\* What is below a message does not depend on the states of nodes.
LEMMA SubtreeKept ==
    ASSUME NEW tr, NEW new, SameShape(tr.nodes, new.nodes), NEW r
    PROVE  ReplySubtree(new, r) = ReplySubtree(tr, r)
<1> DEFINE First(nodes) == {m \in DOMAIN nodes : r \in {Prompt(m), nodes[m].parent}}
           ClosedSets(nodes) == {ns \in SUBSET DOMAIN nodes : First(nodes) \subseteq ns /\ RepliesStayIn(nodes, ns)}
           Below(nodes) == {m \in DOMAIN nodes : \A ns \in ClosedSets(nodes) : m \in ns}
<1>1. DOMAIN new.nodes = DOMAIN tr.nodes /\ First(new.nodes) = First(tr.nodes) BY DEF SameShape
<1> HIDE DEF First
<1>2. ClosedSets(new.nodes) = ClosedSets(tr.nodes) BY <1>1, ShapeSame
<1> HIDE DEF ClosedSets
<1>3. Below(new.nodes) = Below(tr.nodes) BY <1>1, <1>2
<1>4. \A m \in Below(tr.nodes) : NodeMessages(new.nodes, m) = NodeMessages(tr.nodes, m) BY ShapeSame
<1>5. ReplySubtree(tr, r) = {r} \cup UNION {NodeMessages(tr.nodes, m) : m \in Below(tr.nodes)}
  BY DEF ReplySubtree, ClosedSets, First
<1>6. ReplySubtree(new, r) = {r} \cup UNION {NodeMessages(new.nodes, m) : m \in Below(new.nodes)}
  BY DEF ReplySubtree, ClosedSets, First
<1> HIDE DEF Below
<1> QED BY <1>3, <1>4, <1>5, <1>6

\* Clearing the root's prompt clears the tree.
LEMMA RootTakesAll ==
    ASSUME NEW tr, WellFormed(tr.root, tr.nodes), DOMAIN tr.nodes \subseteq Nodes, NEW r,
           tr.root \in Gone(tr, r)
    PROVE  Gone(tr, r) = DOMAIN tr.nodes
<1>1. ASSUME NEW m \in DOMAIN tr.nodes, tr.nodes[m].parent.node \in Gone(tr, r)
      PROVE  m \in Gone(tr, r)
  <2>1. CASE m = tr.root BY <2>1
  <2>2. CASE m # tr.root
    <3>1. PICK p \in DOMAIN tr.nodes : tr.nodes[m].parent \in NodeMessages(tr.nodes, p)
      BY <2>2, WellFormedDef
    <3>2. p \in Gone(tr, r) BY <1>1, <3>1, OwnMessages
    <3> QED BY <3>1, <3>2, ReplySubtreeDef DEF RepliesStayIn
  <2> QED BY <2>1, <2>2
<1>2. ChildrenStayIn(tr.nodes, Gone(tr, r)) BY <1>1 DEF ChildrenStayIn
<1>3. Gone(tr, r) \subseteq DOMAIN tr.nodes BY DEF Gone
<1> QED BY <1>2, <1>3, WellFormedDef

\* remove_message_subtree, after the nodes that go were cancelled.
LEMMA PrunedTree ==
    ASSUME NEW tr \in TreeSet, QueueInv(tr, ActiveNode(tr)), WellFormed(tr.root, tr.nodes),
           NEW r \in RefersTo(tr.nodes), r \in References
    PROVE  LET those == Gone(tr, r) \cup {r.node}
               can == Cancelled(tr, those)
               new == Pruned(can, r)
           IN /\ new \in TreeSet /\ new.root = tr.root /\ new.active = tr.active
              /\ (tr.requested => new.requested)
              /\ (ActiveNode(tr) \cap those # {} => new.requested)
              /\ QueueInv(new, ActiveNode(tr))
              /\ DOMAIN new.nodes = DOMAIN tr.nodes \ Gone(tr, r)
              /\ \A n \in DOMAIN new.nodes :
                    /\ new.nodes[n].parent = tr.nodes[n].parent /\ new.nodes[n].born = tr.nodes[n].born
                    /\ new.nodes[n].state \in Runnable => tr.nodes[n].state \in Runnable
              /\ Running(new) \subseteq Running(tr)
              /\ RefersTo(new.nodes) = RefersTo(tr.nodes) \ ReplySubtree(tr, r)
              /\ tr.root \notin Gone(tr, r) => WellFormed(tr.root, new.nodes)
              /\ tr.root \in Gone(tr, r) => DOMAIN new.nodes = {}
<1> DEFINE a == ActiveNode(tr)
           gone == Gone(tr, r)
           those == gone \cup {r.node}
           can == Cancelled(tr, those)
           new == Pruned(can, r)
           left == [n \in DOMAIN can.nodes \ gone |-> can.nodes[n]]
           cleared == [left EXCEPT ![r.node].status = 0, ![r.node].state = "error"]
           nodes == IF r.status # 0 THEN cleared ELSE left
<1>1. /\ SettlesTree(tr, can, a) /\ Pending(can) = Pending(tr) \ those /\ Running(can) = Running(tr) \ those
      /\ can.requested = (tr.requested \/ a \cap those # {})
  BY CancelledTree
<1> HIDE DEF can, a
<1>2. can \in TreeSet /\ SameShape(tr.nodes, can.nodes) /\ DOMAIN can.nodes = DOMAIN tr.nodes
  BY <1>1, SkeletonShape DEF SettlesTree, Keeps, SameShape
<1>3. Gone(can, r) = gone BY <1>2, SubtreeKept DEF Gone
<1>4. new = [can EXCEPT !.nodes = nodes] BY <1>3 DEF Pruned, Gone
<1> HIDE DEF gone, new
<1>5. DOMAIN left = DOMAIN tr.nodes \ gone /\ DOMAIN nodes = DOMAIN tr.nodes \ gone BY <1>2
<1>6. \A n \in DOMAIN left : left[n] = can.nodes[n] /\ left[n] \in NodeSet BY <1>2, TreeFields
<1> HIDE DEF left
<1>7. ASSUME NEW n \in DOMAIN nodes
      PROVE  /\ nodes[n] \in NodeSet
             /\ n = r.node /\ r.status # 0 => nodes[n].status = 0 /\ nodes[n].state = "error"
             /\ ~(n = r.node /\ r.status # 0) =>
                   nodes[n].status = can.nodes[n].status /\ nodes[n].state = can.nodes[n].state
             /\ nodes[n].parent = can.nodes[n].parent /\ nodes[n].born = can.nodes[n].born
  <2>1. left[n] = can.nodes[n] /\ left[n] \in NodeSet BY <1>5, <1>6, <1>7
  <2>2. CASE r.status # 0 /\ n = r.node
    <3>1. nodes[n] = [left[n] EXCEPT !.status = 0, !.state = "error"] BY <1>5, <1>7, <2>2
    <3>2. 0 \in 0 .. MaxDeliveries OBVIOUS
    <3> QED BY <2>1, <2>2, <3>1, <3>2 DEF NodeSet, States
  <2>3. CASE ~(r.status # 0 /\ n = r.node)
    <3>1. nodes[n] = left[n] BY <1>5, <1>7, <2>3
    <3> QED BY <2>1, <2>3, <3>1
  <2> QED BY <2>2, <2>3
<1>8. nodes \in Graphs
  <2>1. DOMAIN nodes \subseteq Nodes BY <1>5, TreeFields
  <2>2. nodes \in [DOMAIN nodes -> NodeSet] BY <1>6, <1>7 DEF left
  <2> QED BY <2>1, <2>2, GraphsDef
<1> HIDE DEF nodes
<1>9. /\ new \in TreeSet /\ new.root = can.root /\ new.queue = can.queue /\ new.active = can.active
      /\ new.requested = can.requested /\ new.nodes = nodes
  BY <1>2, <1>4, <1>8 DEF TreeSet
<1>10. /\ \A n \in DOMAIN nodes : n \notin gone /\ n \in DOMAIN tr.nodes
       /\ r.node \notin Pending(can) /\ r.node \notin Running(can)
  BY <1>1, <1>5
<1>11. Pending(new) = Pending(can) /\ Running(new) = Running(can)
  <2>1. \A n \in Pending(can) \cup Running(can) : n \in DOMAIN nodes /\ n # r.node
    BY <1>1, <1>5 DEF Pending, Running
  <2>2. \A n \in DOMAIN nodes : nodes[n].state \in {"pending", "in_progress"} =>
           n # r.node \/ r.status = 0
    BY <1>7
  <2> QED BY <1>2, <1>5, <1>7, <1>9, <2>1, <2>2 DEF Pending, Running
<1>12. QueueInv(new, a)
  <2>1. QueueInv(can, a) /\ can.active = tr.active BY <1>1 DEF SettlesTree
  <2>2. new.active # 0 /\ ~new.requested => a \subseteq DOMAIN new.nodes \ Pending(new)
    <3>1. can.active # 0 /\ ~can.requested => a \subseteq DOMAIN can.nodes \ Pending(can) /\ a \cap those = {}
      BY <1>1, <2>1 DEF QueueInv
    <3> QED BY <1>2, <1>5, <1>9, <1>11, <3>1
  <2> QED BY <1>9, <1>11, <2>1, <2>2 DEF QueueInv
<1>13. ASSUME NEW n \in DOMAIN nodes
       PROVE  /\ nodes[n].parent = tr.nodes[n].parent /\ nodes[n].born = tr.nodes[n].born
              /\ nodes[n].state \in Runnable => tr.nodes[n].state \in Runnable
  BY <1>1, <1>5, <1>7 DEF SettlesTree, Keeps, Skeleton, Runnable
<1>14. ASSUME NEW n \in DOMAIN nodes
       PROVE  nodes[n].status = IF n = r.node /\ r.status # 0 THEN 0 ELSE tr.nodes[n].status
  BY <1>2, <1>5, <1>7 DEF SameShape
<1>15. /\ ReplySubtree(tr, r) = {r} \cup UNION {NodeMessages(tr.nodes, m) : m \in gone}
       /\ \A n \in DOMAIN tr.nodes : r \in {Prompt(n), tr.nodes[n].parent} => n \in gone
       /\ RepliesStayIn(tr.nodes, gone)
       /\ gone \subseteq DOMAIN tr.nodes
  BY ReplySubtreeDef DEF gone, Gone
<1>16. PICK rn \in DOMAIN tr.nodes : r \in NodeMessages(tr.nodes, rn) BY RefersToMessages
<1>17. rn = r.node /\ (r.status # 0 => r = Status(rn, tr.nodes[rn].status))
       /\ (r.status = 0 => r = Prompt(rn))
  BY <1>16, OwnMessages, MessageFields DEF NodeMessages
<1>18. ASSUME NEW n \in DOMAIN nodes, NEW x \in NodeMessages(nodes, n)
       PROVE  x \in NodeMessages(tr.nodes, n) /\ x \notin ReplySubtree(tr, r)
  <2>1. x = Prompt(n) \/ x = Status(n, nodes[n].status) BY DEF NodeMessages
  <2>2. n \in DOMAIN tr.nodes /\ n \notin gone /\ Prompt(n) # r BY <1>10, <1>15
  <2>3. x = Prompt(n) \/ (x = Status(n, tr.nodes[n].status) /\ ~(n = r.node /\ r.status # 0))
    BY <1>14, <2>1, MessageFields
  <2>4. x \in NodeMessages(tr.nodes, n) BY <2>3 DEF NodeMessages
  <2>5. x # r
    <3>1. CASE x = Prompt(n) BY <2>2, <3>1
    <3>2. CASE x = Status(n, tr.nodes[n].status) /\ ~(n = r.node /\ r.status # 0)
      <4> SUFFICES ASSUME x = r PROVE FALSE OBVIOUS
      <4>1. n = r.node BY <3>2, MessageFields
      <4>2. r = Prompt(n) BY <1>17, <3>2, <4>1
      <4> QED BY <2>2, <4>2
    <3> QED BY <2>3, <3>1, <3>2
  <2>6. \A m \in gone : x \notin NodeMessages(tr.nodes, m) BY <2>2, <2>4, OwnMessages
  <2> QED BY <1>15, <2>4, <2>5, <2>6
<1>19. ASSUME NEW n \in DOMAIN tr.nodes, NEW x \in NodeMessages(tr.nodes, n), x \notin ReplySubtree(tr, r)
       PROVE  n \in DOMAIN nodes /\ x \in NodeMessages(nodes, n)
  <2>1. n \in DOMAIN nodes BY <1>5, <1>15, <1>19
  <2>2. CASE x = Prompt(n) BY <2>1, <2>2 DEF NodeMessages
  <2>3. CASE x = Status(n, tr.nodes[n].status)
    <3>1. ~(n = r.node /\ r.status # 0) BY <1>15, <1>17, <1>19, <2>3
    <3> QED BY <1>14, <2>1, <2>3, <3>1 DEF NodeMessages
  <2> QED BY <2>2, <2>3 DEF NodeMessages
<1>20. RefersTo(nodes) = RefersTo(tr.nodes) \ ReplySubtree(tr, r)
  <2>1. \A x : x \in RefersTo(nodes) <=> \E n \in DOMAIN nodes : x \in NodeMessages(nodes, n)
    BY RefersToMessages
  <2>2. \A x : x \in RefersTo(tr.nodes) <=> \E n \in DOMAIN tr.nodes : x \in NodeMessages(tr.nodes, n)
    BY RefersToMessages
  <2> QED BY <1>10, <1>18, <1>19, <2>1, <2>2
<1>21. ASSUME tr.root \notin gone PROVE WellFormed(tr.root, nodes)
  <2>1. tr.root \in DOMAIN tr.nodes /\ tr.nodes[tr.root].parent = NoReference BY WellFormedDef
  <2>2. tr.root \in DOMAIN nodes /\ nodes[tr.root].parent = NoReference
    BY <1>5, <1>13, <1>21, <2>1
  <2>3. \A n \in DOMAIN nodes : nodes[n].state \in Runnable => nodes[n].status # 0
    BY <1>7, <1>10, <1>13, <1>14, WellFormedDef DEF Runnable
  <2>4. ASSUME NEW n \in DOMAIN nodes \ {tr.root}
        PROVE  \E m \in DOMAIN nodes : nodes[n].parent \in NodeMessages(nodes, m)
    <3>1. n \in DOMAIN tr.nodes /\ n \notin gone /\ nodes[n].parent = tr.nodes[n].parent
      BY <1>10, <1>13, <2>4
    <3>2. PICK m \in DOMAIN tr.nodes : tr.nodes[n].parent \in NodeMessages(tr.nodes, m)
      BY <2>4, <3>1, WellFormedDef
    <3>3. m \notin gone /\ tr.nodes[n].parent # r BY <1>15, <3>1, <3>2 DEF RepliesStayIn
    <3>4. \A k \in gone : tr.nodes[n].parent \notin NodeMessages(tr.nodes, k)
      BY <3>2, <3>3, OwnMessages
    <3>5. tr.nodes[n].parent \notin ReplySubtree(tr, r) BY <1>15, <3>3, <3>4
    <3> QED BY <1>19, <3>1, <3>2, <3>5
  <2>5. ASSUME NEW ns \in SUBSET DOMAIN nodes, tr.root \in ns, ChildrenStayIn(nodes, ns)
        PROVE  DOMAIN nodes \subseteq ns
    <3> DEFINE all == ns \cup gone
    <3>1. ASSUME NEW m \in DOMAIN tr.nodes, tr.nodes[m].parent.node \in all PROVE m \in all
      <4>1. CASE m \in gone \/ m = tr.root BY <2>5, <4>1
      <4>2. CASE m \notin gone /\ m # tr.root
        <5>1. m \in DOMAIN nodes /\ nodes[m].parent = tr.nodes[m].parent BY <1>5, <1>13, <4>2
        <5>2. PICK p \in DOMAIN tr.nodes : tr.nodes[m].parent \in NodeMessages(tr.nodes, p)
          BY <4>2, WellFormedDef
        <5>3. p \notin gone BY <1>15, <4>2, <5>2 DEF RepliesStayIn
        <5>4. p \in ns BY <3>1, <5>2, <5>3, OwnMessages
        <5>5. nodes[m].parent.node \in ns BY <5>1, <5>2, <5>4, OwnMessages
        <5> QED BY <2>5, <5>1, <5>5 DEF ChildrenStayIn
      <4> QED BY <4>1, <4>2
    <3>2. ChildrenStayIn(tr.nodes, all) /\ all \subseteq DOMAIN tr.nodes /\ tr.root \in all
      BY <1>5, <1>15, <2>5, <3>1 DEF ChildrenStayIn
    <3>3. DOMAIN tr.nodes \subseteq all BY <3>2, WellFormedDef
    <3> QED BY <1>10, <3>3
  <2> QED BY <2>2, <2>3, <2>4, <2>5, WellFormedDef
<1>22. ASSUME tr.root \in gone PROVE DOMAIN nodes = {}
  BY <1>5, <1>22, RootTakesAll, TreeFields DEF gone
<1>23. Running(new) \subseteq Running(tr) /\ (tr.requested => new.requested)
       /\ (a \cap those # {} => new.requested) /\ new.active = tr.active /\ new.root = tr.root
  BY <1>1, <1>9, <1>11 DEF SettlesTree, Keeps
<1> QED BY <1>5, <1>9, <1>12, <1>13, <1>20, <1>21, <1>22, <1>23 DEF new, gone, can, a

------------------------------------------------------------------------------
(* The index and the store                                                  *)

\* A reference is one of a graph if it is a prompt of it or such a prompt's
\* current status.
LEMMA RefersToDef ==
    ASSUME NEW nodes, NEW r \in References
    PROVE  r \in RefersTo(nodes) <=> r.node \in DOMAIN nodes /\ r.status \in {0, nodes[r.node].status}
<1>1. r = [node |-> r.node, status |-> r.status] BY DEF References
<1>2. r = Status(r.node, r.status) BY <1>1 DEF Status
<1>3. ASSUME r \in RefersTo(nodes)
      PROVE  r.node \in DOMAIN nodes /\ r.status \in {0, nodes[r.node].status}
  <2>1. PICK n \in DOMAIN nodes : r \in NodeMessages(nodes, n) BY <1>3, RefersToMessages
  <2>2. r.node = n /\ r.status \in {0, nodes[n].status} BY <2>1, OwnMessages
  <2> QED BY <2>2
<1>4. ASSUME r.node \in DOMAIN nodes, r.status \in {0, nodes[r.node].status}
      PROVE  r \in RefersTo(nodes)
  <2>1. Status(r.node, 0) = Prompt(r.node) BY MessageFields
  <2>2. r \in NodeMessages(nodes, r.node)
    <3>1. CASE r.status = 0 BY <1>2, <2>1, <3>1 DEF NodeMessages
    <3>2. CASE r.status = nodes[r.node].status BY <1>2, <3>2 DEF NodeMessages
    <3> QED BY <1>4, <3>1, <3>2
  <2> QED BY <1>4, <2>2, RefersToMessages
<1> QED BY <1>3, <1>4

\* The prompts of a graph are references to it, and so are their statuses.
LEMMA RefersToAll ==
    ASSUME NEW nodes, NEW n \in DOMAIN nodes
    PROVE  {Prompt(n), Status(n, nodes[n].status)} \subseteq RefersTo(nodes)
BY RefersToMessages DEF NodeMessages

\* The references of a graph of prompts are references.
LEMMA RefersToTyped ==
    ASSUME NEW nodes \in Graphs
    PROVE  RefersTo(nodes) \subseteq References
<1>1. DOMAIN nodes \subseteq Nodes /\ \A n \in DOMAIN nodes : nodes[n].status \in 0 .. MaxDeliveries
  BY GraphsDef DEF NodeSet
<1>2. 0 \in 0 .. MaxDeliveries OBVIOUS
<1> QED BY <1>1, <1>2 DEF RefersTo, References, Prompt, Status

\* The trees in the repository share no reference.
LEMMA Apart ==
    ASSUME NEW forest, NEW pub, NEW ind, Indexed(forest, pub, ind), NEW t \in pub, NEW u \in pub, t # u
    PROVE  RefersTo(forest[t].nodes) \cap RefersTo(forest[u].nodes) = {}
BY DEF Indexed

\* So they have different roots.
LEMMA RootsApart ==
    ASSUME NEW forest, NEW pub, NEW ind, Indexed(forest, pub, ind), NEW t \in pub, NEW u \in pub, t # u,
           WellFormed(forest[t].root, forest[t].nodes), WellFormed(forest[u].root, forest[u].nodes)
    PROVE  forest[t].root # forest[u].root
<1>1. forest[t].root \in DOMAIN forest[t].nodes /\ forest[u].root \in DOMAIN forest[u].nodes
  BY WellFormedDef
<1>2. /\ Prompt(forest[t].root) \in RefersTo(forest[t].nodes)
      /\ Prompt(forest[u].root) \in RefersTo(forest[u].nodes)
  BY <1>1, RefersToAll
<1> QED BY <1>2, Apart

\* A snapshot shows the tree it is of.
LEMMA SnapshotOf ==
    ASSUME NEW tr \in TreeSet
    PROVE  /\ Snapshot(tr) \in Graphs /\ SameShape(tr.nodes, Snapshot(tr))
           /\ RefersTo(Snapshot(tr)) = RefersTo(tr.nodes)
           /\ \A n \in DOMAIN tr.nodes :
                 /\ Snapshot(tr)[n].born = tr.nodes[n].born
                 /\ Snapshot(tr)[n].state = IF tr.nodes[n].state \in Runnable THEN "pending"
                                            ELSE tr.nodes[n].state
           /\ WellFormed(tr.root, tr.nodes) => WellFormed(tr.root, Snapshot(tr))
<1> DEFINE s == Snapshot(tr)
<1>1. DOMAIN tr.nodes \subseteq Nodes /\ \A n \in DOMAIN tr.nodes : tr.nodes[n] \in NodeSet BY TreeFields
<1>2. /\ DOMAIN s = DOMAIN tr.nodes
      /\ \A n \in DOMAIN tr.nodes :
            s[n] = IF tr.nodes[n].state \in Runnable THEN [tr.nodes[n] EXCEPT !.state = "pending"]
                   ELSE tr.nodes[n]
  BY DEF Snapshot, InState
<1>3. s \in [DOMAIN tr.nodes -> {s[n] : n \in DOMAIN tr.nodes}] BY DEF Snapshot
<1> HIDE DEF s
<1>4. ASSUME NEW n \in DOMAIN tr.nodes
      PROVE  /\ s[n] \in NodeSet /\ s[n].status = tr.nodes[n].status
             /\ s[n].parent = tr.nodes[n].parent /\ s[n].born = tr.nodes[n].born
             /\ s[n].state = IF tr.nodes[n].state \in Runnable THEN "pending" ELSE tr.nodes[n].state
  BY <1>1, <1>2 DEF NodeSet, States
<1>5. s \in Graphs
  <2>1. s \in [DOMAIN s -> NodeSet] BY <1>2, <1>3, <1>4
  <2> QED BY <1>1, <1>2, <2>1, GraphsDef
<1>6. SameShape(tr.nodes, s) BY <1>2, <1>4 DEF SameShape
<1>7. RefersTo(s) = RefersTo(tr.nodes) BY <1>6, ShapeSame
<1>8. WellFormed(tr.root, tr.nodes) => WellFormed(tr.root, s)
  BY <1>4, <1>6, WellFormedKept
<1> QED BY <1>4, <1>5, <1>6, <1>7, <1>8 DEF s

\* Whether a node is pending or in progress is not in a snapshot.
LEMMA SnapshotSame ==
    ASSUME NEW tr \in TreeSet, NEW new \in TreeSet, Skeleton(tr.nodes, new.nodes),
           \A n \in DOMAIN tr.nodes : \/ new.nodes[n].state = tr.nodes[n].state
                                      \/ {new.nodes[n].state, tr.nodes[n].state} \subseteq Runnable
    PROVE  Snapshot(new) = Snapshot(tr)
<1>1. /\ \A n \in DOMAIN tr.nodes : tr.nodes[n] \in NodeSet
      /\ \A n \in DOMAIN new.nodes : new.nodes[n] \in NodeSet
  BY TreeFields
<1>2. DOMAIN new.nodes = DOMAIN tr.nodes BY DEF Skeleton
<1>3. ASSUME NEW n \in DOMAIN tr.nodes
      PROVE  (IF new.nodes[n].state \in Runnable THEN [new.nodes[n] EXCEPT !.state = "pending"]
              ELSE new.nodes[n])
             = (IF tr.nodes[n].state \in Runnable THEN [tr.nodes[n] EXCEPT !.state = "pending"]
                ELSE tr.nodes[n])
  <2>1. /\ new.nodes[n].status = tr.nodes[n].status /\ new.nodes[n].parent = tr.nodes[n].parent
        /\ new.nodes[n].born = tr.nodes[n].born
    BY DEF Skeleton
  <2>2. new.nodes[n] \in NodeSet /\ tr.nodes[n] \in NodeSet BY <1>1, <1>2
  <2>3. new.nodes[n].state \in Runnable <=> tr.nodes[n].state \in Runnable OBVIOUS
  <2>4. [new.nodes[n] EXCEPT !.state = "pending"] = [tr.nodes[n] EXCEPT !.state = "pending"]
    BY <2>1, <2>2 DEF NodeSet
  <2>5. CASE new.nodes[n].state \notin Runnable
    <3>1. new.nodes[n].state = tr.nodes[n].state BY <2>5
    <3>2. new.nodes[n] = tr.nodes[n] BY <2>1, <2>2, <3>1 DEF NodeSet
    <3> QED BY <2>3, <2>5, <3>2
  <2> QED BY <2>3, <2>4, <2>5
<1> QED BY <1>2, <1>3, Zenon DEF Snapshot, InState

\* A snapshot that is behind another shows the same messages and replies.
LEMMA BehindShape ==
    ASSUME NEW older \in Graphs, NEW newer \in Graphs, Behind(older, newer)
    PROVE  SameShape(newer, older)
<1>1. DOMAIN older = DOMAIN newer BY DEF Behind
<1>2. ASSUME NEW n \in DOMAIN newer
      PROVE  older[n].status = newer[n].status /\ older[n].parent = newer[n].parent
  <2>1. newer[n] = [older[n] EXCEPT !.state = newer[n].state] BY DEF Behind
  <2>2. older[n] \in NodeSet BY <1>1, GraphsDef
  <2> QED BY <2>1, <2>2 DEF NodeSet
<1> QED BY <1>1, <1>2 DEF SameShape

\* It stays behind when the other is overtaken too.
LEMMA BehindOn ==
    ASSUME NEW a \in Graphs, NEW b \in Graphs, NEW c \in Graphs, Behind(a, b), Behind(b, c)
    PROVE  Behind(a, c)
<1>1. DOMAIN a = DOMAIN c /\ DOMAIN b = DOMAIN c BY DEF Behind
<1>2. ASSUME NEW n \in DOMAIN c
      PROVE  /\ c[n] = [a[n] EXCEPT !.state = c[n].state]
             /\ \/ c[n].state = a[n].state
                \/ a[n].state = "pending" /\ c[n].state \in {"completed", "error"}
                \/ a[n].state = "error" /\ c[n].state = "completed"
  <2>1. a[n] \in NodeSet /\ b[n] \in NodeSet /\ c[n] \in NodeSet BY <1>1, GraphsDef
  <2>2. /\ b[n] = [a[n] EXCEPT !.state = b[n].state]
        /\ \/ b[n].state = a[n].state
           \/ a[n].state = "pending" /\ b[n].state \in {"completed", "error"}
           \/ a[n].state = "error" /\ b[n].state = "completed"
    BY <1>1 DEF Behind
  <2>3. /\ c[n] = [b[n] EXCEPT !.state = c[n].state]
        /\ \/ c[n].state = b[n].state
           \/ b[n].state = "pending" /\ c[n].state \in {"completed", "error"}
           \/ b[n].state = "error" /\ c[n].state = "completed"
    BY <1>1 DEF Behind
  <2>4. c[n] = [a[n] EXCEPT !.state = c[n].state] BY <2>1, <2>2, <2>3 DEF NodeSet
  <2> QED BY <2>2, <2>3, <2>4
<1> QED BY <1>1, <1>2 DEF Behind

\* What keeps a tree leaves an earlier snapshot of it behind by no more.
LEMMA KeepsBehind ==
    ASSUME NEW tr \in TreeSet, NEW new \in TreeSet, Keeps(tr, new)
    PROVE  Behind(Snapshot(tr), Snapshot(new))
<1> DEFINE a == Snapshot(tr)
           b == Snapshot(new)
<1>1. /\ a \in Graphs /\ b \in Graphs /\ SameShape(tr.nodes, a) /\ SameShape(new.nodes, b)
      /\ \A n \in DOMAIN tr.nodes :
            /\ a[n].born = tr.nodes[n].born
            /\ a[n].state = IF tr.nodes[n].state \in Runnable THEN "pending" ELSE tr.nodes[n].state
      /\ \A n \in DOMAIN new.nodes :
            /\ b[n].born = new.nodes[n].born
            /\ b[n].state = IF new.nodes[n].state \in Runnable THEN "pending" ELSE new.nodes[n].state
  BY SnapshotOf
<1> HIDE DEF a, b
<1>2. DOMAIN a = DOMAIN tr.nodes /\ DOMAIN b = DOMAIN tr.nodes /\ DOMAIN new.nodes = DOMAIN tr.nodes
  BY <1>1 DEF SameShape, Keeps, Skeleton
<1>3. ASSUME NEW n \in DOMAIN tr.nodes
      PROVE  /\ b[n] = [a[n] EXCEPT !.state = b[n].state]
             /\ \/ b[n].state = a[n].state
                \/ a[n].state = "pending" /\ b[n].state \in {"completed", "error"}
                \/ a[n].state = "error" /\ b[n].state = "completed"
  <2>1. a[n] \in NodeSet /\ b[n] \in NodeSet BY <1>1, <1>2, GraphsDef
  <2>2. /\ b[n].status = a[n].status /\ b[n].parent = a[n].parent /\ b[n].born = a[n].born
    BY <1>1, <1>2 DEF SameShape, Keeps, Skeleton
  <2>3. /\ new.nodes[n].state \in Runnable => tr.nodes[n].state \in Runnable
        /\ tr.nodes[n].state = "completed" => new.nodes[n].state = "completed"
    BY DEF Keeps
  <2>4. tr.nodes[n] \in NodeSet /\ new.nodes[n] \in NodeSet BY <1>2, TreeFields
  <2>5. tr.nodes[n].state \in States /\ new.nodes[n].state \in States BY <2>4 DEF NodeSet
  <2>6. \/ b[n].state = a[n].state
        \/ a[n].state = "pending" /\ b[n].state \in {"completed", "error"}
        \/ a[n].state = "error" /\ b[n].state = "completed"
    BY <1>1, <1>2, <2>3, <2>5 DEF States, Runnable
  <2>7. b[n] = [a[n] EXCEPT !.state = b[n].state] BY <2>1, <2>2 DEF NodeSet
  <2> QED BY <2>6, <2>7
<1>4. Behind(a, b) BY <1>2, <1>3 DEF Behind
<1> QED BY <1>4 DEF a, b

\* So a snapshot that shows a tree shows what becomes of it.
LEMMA PortraysOn ==
    ASSUME NEW tr \in TreeSet, NEW new \in TreeSet, Keeps(tr, new), NEW snapshot \in Graphs, NEW t,
           NEW late, Portrays(snapshot, tr, t, late), NEW later, t \in later
    PROVE  Portrays(snapshot, new, t, later)
<1>1. Snapshot(tr) \in Graphs /\ Snapshot(new) \in Graphs BY SnapshotOf
<1>2. Behind(Snapshot(tr), Snapshot(new)) BY KeepsBehind
<1>3. Behind(snapshot, Snapshot(new)) BY <1>1, <1>2, BehindOn DEF Portrays
<1> QED BY <1>3 DEF Portrays

\* It shows the references of the tree.
LEMMA PortraysSame ==
    ASSUME NEW tr \in TreeSet, NEW snapshot \in Graphs, NEW t, NEW late, Portrays(snapshot, tr, t, late)
    PROVE  RefersTo(snapshot) = RefersTo(tr.nodes)
<1>1. Snapshot(tr) \in Graphs /\ RefersTo(Snapshot(tr)) = RefersTo(tr.nodes) BY SnapshotOf
<1>2. CASE snapshot = Snapshot(tr) BY <1>1, <1>2
<1>3. CASE Behind(snapshot, Snapshot(tr)) BY <1>1, <1>3, BehindShape, ShapeSame
<1> QED BY <1>2, <1>3 DEF Portrays

\* save_tree_snapshot and remove_tree_snapshot, tree by tree.
LEMMA StoredIs ==
    ASSUME NEW given, NEW gone
    PROVE  LET new == Stored(given, gone) IN
           /\ new = [t \in DOMAIN new |-> new[t]]
           /\ DOMAIN given \subseteq DOMAIN new /\ DOMAIN new \subseteq DOMAIN given \cup DOMAIN saved
           /\ \A t \in DOMAIN given : new[t] = given[t]
           /\ \A t \in DOMAIN saved \ DOMAIN given :
                 /\ t \in DOMAIN new <=>
                       \A u \in DOMAIN given \cup gone : trees[t].root # trees'[u].root
                 /\ t \in DOMAIN new => new[t] = saved[t]
BY DEF Stored

\* What a save leaves in the store has the type of the store.
LEMMA StoredTyping ==
    ASSUME TypeInv, NEW given, NEW gone, DOMAIN given \subseteq DOMAIN trees',
           \A t \in DOMAIN given : given[t] \in Graphs,
           DOMAIN trees \subseteq DOMAIN trees', saved' = Stored(given, gone)
    PROVE  saved' \in [DOMAIN saved' -> Graphs] /\ DOMAIN saved' \subseteq Trees'
<1>1. saved \in [DOMAIN saved -> Graphs] /\ DOMAIN saved \subseteq DOMAIN trees BY DEF TypeInv, Trees
<1>2. \A t \in DOMAIN saved' : saved'[t] \in Graphs BY <1>1, StoredIs
<1>3. saved' = [t \in DOMAIN saved' |-> saved'[t]] BY StoredIs
<1>4. DOMAIN saved' \subseteq DOMAIN trees' BY <1>1, StoredIs
<1> QED BY <1>2, <1>3, <1>4 DEF Trees

\* The store after a step that saves the snapshots given and forgets the trees gone.
LEMMA StoreSaves ==
    ASSUME TypeInv, SavedInv, NEW given, NEW gone, saved' = Stored(given, gone),
           DOMAIN given \subseteq published',
           Indexed(trees', published', index'),
           \A t \in DOMAIN given : /\ WellFormed(trees'[t].root, given[t])
                                   /\ RefersTo(given[t]) = RefersTo(trees'[t].nodes)
                                   /\ Portrays(given[t], trees'[t], t, overtaken'),
           \A t \in Trees : trees'[t].root = trees[t].root,
           \A t \in published', u \in DOMAIN saved :
              t # u => RefersTo(trees'[t].nodes) \cap RefersTo(saved[u]) = {},
           \A t \in DOMAIN saved \ (DOMAIN given \cup gone \cup owed') :
              t \in published' /\ RefersTo(saved[t]) \subseteq Refs(t)',
           ~raised' => \A t \in owed' \ published', u \in published' : trees'[t].root # trees'[u].root,
           ~raised' => \A t \in published' \ (DOMAIN given \cup owed') :
              /\ t \in DOMAIN saved /\ Portrays(saved[t], trees'[t], t, overtaken')
              /\ \A u \in DOMAIN given \cup gone : trees'[u].root # trees'[t].root
    PROVE  SavedInv'
<1> DEFINE kept == DOMAIN given
<1>1. /\ kept \subseteq DOMAIN saved' /\ DOMAIN saved' \subseteq kept \cup DOMAIN saved
      /\ \A t \in kept : saved'[t] = given[t]
      /\ \A t \in DOMAIN saved \ kept :
            /\ t \in DOMAIN saved' <=> \A u \in kept \cup gone : trees[t].root # trees'[u].root
            /\ t \in DOMAIN saved' => saved'[t] = saved[t]
  BY StoredIs
<1>2. DOMAIN saved \subseteq Trees BY DEF TypeInv
<1>3. \A t \in kept : /\ RefersTo(saved'[t]) = RefersTo(trees'[t].nodes)
                      /\ WellFormed(trees'[t].root, saved'[t])
  BY <1>1
<1>4. /\ kept \subseteq published'
      /\ \A t \in DOMAIN saved \ (kept \cup gone \cup owed') :
            t \in published' /\ RefersTo(saved[t]) \subseteq Refs(t)'
      /\ ~raised' => \A t \in published' \ (kept \cup owed') :
            /\ t \in DOMAIN saved /\ Portrays(saved[t], trees'[t], t, overtaken')
            /\ \A u \in kept \cup gone : trees'[u].root # trees'[t].root
      /\ \A t \in kept : Portrays(saved'[t], trees'[t], t, overtaken')
  BY <1>1
<1> HIDE DEF kept
<1>5. \A t \in DOMAIN saved' : t \notin kept => t \in DOMAIN saved /\ saved'[t] = saved[t] /\ t \notin gone
  BY <1>1, <1>2
<1>6. \A t \in DOMAIN saved' : WellFormed(trees'[t].root, saved'[t])
  BY <1>2, <1>3, <1>5 DEF SavedInv
<1>7. \A t \in published', u \in DOMAIN saved' :
         t # u => RefersTo(trees'[t].nodes) \cap RefersTo(saved'[u]) = {}
  <2> TAKE t \in published', u \in DOMAIN saved'
  <2>1. CASE u \in kept BY <1>3, <1>4, <2>1, Apart
  <2>2. CASE u \notin kept BY <1>5, <2>2
  <2> QED BY <2>1, <2>2
<1>8. \A t, u \in DOMAIN saved' : t # u => RefersTo(saved'[t]) \cap RefersTo(saved'[u]) = {}
  <2> TAKE t, u \in DOMAIN saved'
  <2>1. CASE t \in kept BY <1>3, <1>4, <1>7, <2>1
  <2>2. CASE u \in kept BY <1>3, <1>4, <1>7, <2>2
  <2>3. CASE t \notin kept /\ u \notin kept BY <1>5, <2>3 DEF SavedInv
  <2> QED BY <2>1, <2>2, <2>3
<1>9. \A t \in DOMAIN saved' \ owed' : t \in published' /\ RefersTo(saved'[t]) \subseteq Refs(t)'
  <2> TAKE t \in DOMAIN saved' \ owed'
  <2>1. CASE t \in kept BY <1>3, <1>4, <2>1 DEF Indexed, Refs
  <2>2. CASE t \notin kept BY <1>4, <1>5, <2>2
  <2> QED BY <2>1, <2>2
<1>10. ~raised' => \A t \in published' \ owed' :
          t \in DOMAIN saved' /\ Portrays(saved'[t], trees'[t], t, overtaken')
  <2> SUFFICES ASSUME ~raised', NEW t \in published' \ owed'
               PROVE  t \in DOMAIN saved' /\ Portrays(saved'[t], trees'[t], t, overtaken')
    OBVIOUS
  <2>1. CASE t \in kept BY <1>1, <1>4, <2>1
  <2>2. CASE t \notin kept
    <3>1. /\ t \in DOMAIN saved \ kept /\ Portrays(saved[t], trees'[t], t, overtaken')
          /\ \A u \in kept \cup gone : trees'[u].root # trees'[t].root
      BY <1>4, <2>2
    <3>2. trees[t].root = trees'[t].root BY <1>2, <3>1
    <3> QED BY <1>1, <3>1, <3>2
  <2> QED BY <2>1, <2>2
<1> QED BY <1>6, <1>7, <1>8, <1>9, <1>10 DEF SavedInv, Refs

\* What saving trees leaves in the store has its type.
LEMMA SaveTyping ==
    ASSUME TypeInv, NEW ts, ts \subseteq DOMAIN trees', trees' \in Seq(TreeSet),
           DOMAIN trees \subseteq DOMAIN trees', Save(ts)
    PROVE  saved' \in [DOMAIN saved' -> Graphs] /\ DOMAIN saved' \subseteq Trees'
<1> DEFINE given == Snapshots(ts)
           gone == {}
<1>1. \A t \in DOMAIN trees' : trees'[t] \in TreeSet BY ElementOfSeq, LenProperties
<1>2. DOMAIN given = ts /\ \A t \in ts : given[t] = Snapshot(trees'[t]) BY DEF Snapshots
<1>3. saved' = Stored(given, gone) BY DEF Save
<1> HIDE DEF given, gone
<1>4. \A t \in DOMAIN given : given[t] \in Graphs BY <1>1, <1>2, SnapshotOf
<1> QED BY <1>2, <1>3, <1>4, StoredTyping

\* The store after trees are saved as the step leaves them.
LEMMA SaveKeeps ==
    ASSUME TypeInv, SavedInv, NEW ts, Save(ts), trees' \in Seq(TreeSet),
           ts \subseteq published', published' \subseteq DOMAIN trees',
           \A t \in published' : WellFormed(trees'[t].root, trees'[t].nodes),
           Indexed(trees', published', index'),
           \A t \in Trees : trees'[t].root = trees[t].root,
           \A t \in published', u \in DOMAIN saved :
              t # u => RefersTo(trees'[t].nodes) \cap RefersTo(saved[u]) = {},
           \A t \in DOMAIN saved \ (ts \cup owed') :
              t \in published' /\ RefersTo(saved[t]) \subseteq Refs(t)',
           ~raised' => \A t \in owed' \ published', u \in published' : trees'[t].root # trees'[u].root,
           ~raised' => \A t \in published' \ (ts \cup owed') :
              /\ t \in DOMAIN saved /\ Portrays(saved[t], trees'[t], t, overtaken')
              /\ \A u \in ts : trees'[u].root # trees'[t].root
    PROVE  SavedInv'
<1> DEFINE given == Snapshots(ts)
           gone == {}
<1>1. \A t \in DOMAIN trees' : trees'[t] \in TreeSet BY ElementOfSeq, LenProperties
<1>2. DOMAIN given = ts /\ \A t \in ts : given[t] = Snapshot(trees'[t]) BY DEF Snapshots
<1>3. saved' = Stored(given, gone) BY DEF Save
<1>4. DOMAIN given \cup gone = ts BY <1>2
<1> HIDE DEF given, gone
<1>5. \A t \in DOMAIN given : /\ WellFormed(trees'[t].root, given[t])
                              /\ RefersTo(given[t]) = RefersTo(trees'[t].nodes)
                              /\ Portrays(given[t], trees'[t], t, overtaken')
  <2> TAKE t \in DOMAIN given
  <2>1. /\ t \in published' /\ trees'[t] \in TreeSet /\ given[t] = Snapshot(trees'[t])
        /\ WellFormed(trees'[t].root, trees'[t].nodes)
    BY <1>1, <1>2
  <2> QED BY <2>1, SnapshotOf DEF Portrays
<1>6. /\ DOMAIN given \subseteq published'
      /\ \A t \in DOMAIN saved \ (DOMAIN given \cup gone \cup owed') :
            t \in published' /\ RefersTo(saved[t]) \subseteq Refs(t)'
      /\ ~raised' => \A t \in published' \ (DOMAIN given \cup owed') :
            /\ t \in DOMAIN saved /\ Portrays(saved[t], trees'[t], t, overtaken')
            /\ \A u \in DOMAIN given \cup gone : trees'[u].root # trees'[t].root
  BY <1>2, <1>4
<1> QED BY <1>3, <1>5, <1>6, StoreSaves, SMTT(60)

\* A step that leaves the store as it is saves nothing.
LEMMA SaveNothing ==
    ASSUME TypeInv, saved' = saved, overtaken' = overtaken
    PROVE  Save({})
<1> DEFINE given == Snapshots({})
<1>1. DOMAIN given = {} BY DEF Snapshots
<1> HIDE DEF given
<1>2. Stored(given, {}) = [t \in DOMAIN saved |-> saved[t]] BY <1>1 DEF Stored
<1>3. saved = [t \in DOMAIN saved |-> saved[t]] BY DEF TypeInv
<1> QED BY <1>2, <1>3 DEF Save, given

------------------------------------------------------------------------------
(* Claims and graphs, step by step                                          *)

\* A step of a tree that leaves its claim and starts nothing.
Calms(tr, new, a) ==
    /\ new \in TreeSet /\ new.root = tr.root /\ QueueInv(new, a)
    /\ new.active = tr.active /\ (tr.requested => new.requested)
    /\ Running(new) \subseteq Running(tr)

\* What settles a tree calms it.
LEMMA SettlesCalms ==
    ASSUME NEW tr, NEW new, NEW a, SettlesTree(tr, new, a)
    PROVE  Calms(tr, new, a)
BY DEF SettlesTree, Keeps, Calms

\* No claim is made or released: tasks move on, and trees calm down.
LEMMA ClaimsKept ==
    ASSUME TypeInv, ClaimsInv, DOMAIN trees' = DOMAIN trees,
           \A t \in Trees : trees'[t] = trees[t] \/ Calms(trees[t], trees'[t], ActiveNode(trees[t])),
           DOMAIN slots' = DOMAIN slots,
           \A c \in DOMAIN slots :
              /\ slots'[c].tree = slots[c].tree /\ slots'[c].node = slots[c].node
              /\ slots'[c].at # "unlaunched"
              /\ slots'[c].at = "finished" <=> slots[c].at = "finished"
              /\ slots'[c].cancel # "none" =>
                    /\ slots'[c].at # "finished"
                    /\ slots[c].cancel # "none" \/ trees'[slots[c].tree].requested
              /\ slots'[c].at \in Written =>
                    slots[c].at \in Written \/ Running(trees'[slots[c].tree]) = {}
    PROVE  ClaimsInv'
<1>1. \A t \in Trees : /\ trees'[t].active = trees[t].active
                       /\ trees[t].requested => trees'[t].requested
                       /\ Running(trees'[t]) \subseteq Running(trees[t])
  BY DEF Calms
<1>2. ASSUME NEW t \in Trees PROVE ClaimInv(t)'
  <2>1. ClaimInv(t) BY DEF ClaimsInv
  <2>2. ActiveNode(trees[t])' = ActiveNode(trees[t])
    <3>1. trees[t].active # 0 => slots'[trees[t].active].node = slots[trees[t].active].node
      BY <2>1 DEF ClaimInv
    <3> QED BY <1>1, <3>1 DEF ActiveNode
  <2>3. QueueInv(trees'[t], ActiveNode(trees[t])) BY <2>1 DEF ClaimInv, Calms
  <2>4. trees'[t].active # 0 => trees'[t].active \in DOMAIN slots' /\ slots'[trees'[t].active].tree = t
    BY <1>1, <2>1 DEF ClaimInv
  <2> QED BY <2>2, <2>3, <2>4 DEF ClaimInv
<1>3. ASSUME NEW c \in DOMAIN slots PROVE SlotInv(c)'
  <2>1. SlotInv(c) BY DEF ClaimsInv
  <2>2. slots[c].tree \in Trees BY <2>1 DEF SlotInv
  <2>3. slots'[c].at # "finished" <=> trees'[slots[c].tree].active = c
    BY <1>1, <2>1, <2>2 DEF SlotInv
  <2>4. slots'[c].cancel # "none" => slots'[c].at # "finished" /\ trees'[slots[c].tree].requested
    BY <1>1, <2>1, <2>2 DEF SlotInv
  <2>5. slots'[c].at \in Written => Running(trees'[slots[c].tree]) = {}
    BY <1>1, <2>1, <2>2 DEF SlotInv
  <2> QED BY <2>2, <2>3, <2>4, <2>5 DEF SlotInv, Trees
<1> QED BY <1>2, <1>3 DEF ClaimsInv, Trees

\* Claims of tree t are over, and it has a new one or none: others keep theirs.
LEMMA ClaimsLaunched ==
    ASSUME TypeInv, ClaimsInv, NEW t, DOMAIN trees' = DOMAIN trees \cup {t}, 0 \notin DOMAIN trees',
           \A u \in Trees \ {t} : trees'[u] = trees[u],
           NEW done \in Seq(SlotSet), DOMAIN done = DOMAIN slots,
           \A c \in DOMAIN slots :
              /\ done[c].tree = slots[c].tree /\ done[c].node = slots[c].node
              /\ slots[c].tree # t => done[c] = slots[c]
              /\ slots[c].tree = t => done[c].at = "finished" /\ done[c].cancel = "none",
           \/ slots' = done /\ trees'[t].active = 0 /\ QueueInv(trees'[t], {})
           \/ \E n \in Nodes : /\ slots' = Append(done, Slot(t, n, "created"))
                               /\ trees'[t].active = Len(slots) + 1 /\ QueueInv(trees'[t], {n})
    PROVE  ClaimsInv'
<1>1. Len(slots) \in Nat /\ DOMAIN slots = 1 .. Len(slots) BY LenProperties DEF TypeInv
<1>2. Len(done) = Len(slots)
  <2>1. Len(done) \in Nat /\ DOMAIN done = 1 .. Len(done) BY LenProperties
  <2> QED BY <1>1, <2>1
<1>3. ASSUME NEW u \in Trees, u # t, DOMAIN slots \subseteq DOMAIN slots',
             \A c \in DOMAIN slots : slots'[c] = done[c]
      PROVE  ClaimInv(u)'
  <2>1. ClaimInv(u) BY DEF ClaimsInv
  <2>2. trees'[u] = trees[u] BY <1>3
  <2>3. trees[u].active # 0 =>
           slots'[trees[u].active].node = slots[trees[u].active].node
           /\ slots'[trees[u].active].tree = u /\ trees[u].active \in DOMAIN slots'
    BY <1>3, <2>1 DEF ClaimInv
  <2>4. ActiveNode(trees[u])' = ActiveNode(trees[u]) BY <2>2, <2>3 DEF ActiveNode
  <2> QED BY <2>1, <2>2, <2>3, <2>4 DEF ClaimInv
<1>4. ASSUME NEW c \in DOMAIN slots, slots'[c] = done[c],
             trees'[t].active \in {0, Len(slots) + 1}
      PROVE  SlotInv(c)'
  <2>1. SlotInv(c) BY DEF ClaimsInv
  <2>2. c # 0 /\ c # Len(slots) + 1 BY <1>1
  <2>3. slots'[c].tree = slots[c].tree /\ slots[c].tree \in Trees BY <1>4, <2>1 DEF SlotInv
  <2>4. CASE slots[c].tree = t
    <3>1. slots'[c].at = "finished" /\ slots'[c].cancel = "none" BY <1>4, <2>4
    <3>2. trees'[slots'[c].tree].active # c BY <1>4, <2>2, <2>3, <2>4
    <3> QED BY <2>3, <3>1, <3>2 DEF SlotInv, Written, Trees
  <2>5. CASE slots[c].tree # t
    <3>1. slots'[c] = slots[c] /\ trees'[slots[c].tree] = trees[slots[c].tree] BY <1>4, <2>3, <2>5
    <3> QED BY <2>1, <2>3, <3>1 DEF SlotInv, Trees
  <2> QED BY <2>4, <2>5
<1>5. CASE slots' = done /\ trees'[t].active = 0 /\ QueueInv(trees'[t], {})
  <2>1. ClaimInv(t)' BY <1>5 DEF ClaimInv, ActiveNode
  <2> QED BY <1>3, <1>4, <1>5, <2>1 DEF ClaimsInv, Trees
<1>6. CASE \E n \in Nodes : /\ slots' = Append(done, Slot(t, n, "created"))
                            /\ trees'[t].active = Len(slots) + 1 /\ QueueInv(trees'[t], {n})
  <2>1. PICK n \in Nodes : /\ slots' = Append(done, Slot(t, n, "created"))
                           /\ trees'[t].active = Len(slots) + 1 /\ QueueInv(trees'[t], {n})
    BY <1>6
  <2> PICK d \in Nat : d = Len(slots) + 1 BY <1>1
  <2>2. /\ \A c \in DOMAIN slots : slots'[c] = done[c]
        /\ slots'[d] = Slot(t, n, "created") /\ DOMAIN slots' = DOMAIN slots \cup {d}
    <3>1. Slot(t, n, "created") \in SlotSet \cup {Slot(t, n, "created")}
          /\ done \in Seq(SlotSet \cup {Slot(t, n, "created")})
      BY ElementOfSeq, SeqDef, LenProperties, FunctionIsSeq
    <3>2. /\ Len(slots') = Len(done) + 1 /\ slots'[Len(done) + 1] = Slot(t, n, "created")
          /\ \A i \in 1 .. Len(done) : slots'[i] = done[i]
          /\ slots' \in Seq(SlotSet \cup {Slot(t, n, "created")})
      BY <2>1, <3>1, AppendProperties
    <3>3. DOMAIN slots' = 1 .. Len(slots) + 1 BY <1>2, <3>2, LenProperties
    <3>4. 1 .. Len(slots) + 1 = 1 .. Len(slots) \cup {Len(slots) + 1} BY <1>1
    <3> QED BY <1>1, <1>2, <3>2, <3>3, <3>4
  <2>3. slots'[d].tree = t /\ slots'[d].node = n /\ slots'[d].at = "created" /\ slots'[d].cancel = "none"
    BY <2>2 DEF Slot
  <2>4. d # 0 BY <1>1
  <2>5. ClaimInv(t)'
    <3>1. ActiveNode(trees[t])' = {n} BY <2>1, <2>3, <2>4 DEF ActiveNode
    <3> QED BY <2>1, <2>2, <2>3, <3>1 DEF ClaimInv
  <2>6. SlotInv(d)'
    <3>1. trees'[t].active = d /\ t \in DOMAIN trees' BY <2>1
    <3> QED BY <2>3, <3>1 DEF SlotInv, Written, Trees
  <2> QED BY <1>3, <1>4, <2>1, <2>2, <2>5, <2>6 DEF ClaimsInv, Trees
<1> QED BY <1>5, <1>6

\* No tree gets a new node, or lets one run that did not: trees may leave the
\* repository when nothing is left to run in them.
LEMMA GraphKept ==
    ASSUME TypeInv, GraphInv, trees' \in Seq(TreeSet), DOMAIN trees' = DOMAIN trees,
           \A t \in Trees : Keeps(trees[t], trees'[t]),
           published' \subseteq published,
           \A t \in published \ published' : Pending(trees'[t]) = {} /\ Running(trees'[t]) = {},
           DOMAIN index' = {r \in DOMAIN index : index[r] \in published'},
           \A r \in DOMAIN index' : index'[r] = index[r],
           \/ raised'
           \/ boundary' = boundary /\ raised' = raised
           \/ \A t \in published' : Pending(trees'[t]) = {} /\ Running(trees'[t]) = {}
    PROVE  GraphInv'
<1>1. /\ \A t \in Trees : trees[t] \in TreeSet /\ trees'[t] \in TreeSet
      /\ published \subseteq Trees
  BY ElementOfSeq, LenProperties DEF TypeInv, Trees
<1>2. \A t \in Trees : SameShape(trees[t].nodes, trees'[t].nodes) /\ trees'[t].root = trees[t].root
  BY SkeletonShape DEF Keeps
<1>3. \A t \in published' : WellFormed(trees'[t].root, trees'[t].nodes)
  <2> TAKE t \in published'
  <2>1. t \in Trees /\ WellFormed(trees[t].root, trees[t].nodes) BY <1>1 DEF GraphInv
  <2>2. \A n \in DOMAIN trees[t].nodes :
           trees'[t].nodes[n].state \in Runnable => trees[t].nodes[n].state \in Runnable
    BY <2>1 DEF Keeps
  <2> QED BY <1>2, <2>1, <2>2, WellFormedKept
<1>4. \A t \in Trees \ published' : Pending(trees'[t]) = {} /\ Running(trees'[t]) = {}
  <2> TAKE t \in Trees \ published'
  <2>1. CASE t \in published BY <2>1
  <2>2. CASE t \notin published
    <3>1. Pending(trees[t]) = {} /\ Running(trees[t]) = {} BY <2>2 DEF GraphInv
    <3>2. \A n \in DOMAIN trees[t].nodes : trees[t].nodes[n].state \notin Runnable
      BY <3>1 DEF Pending, Running, Runnable
    <3>3. \A n \in DOMAIN trees'[t].nodes : trees'[t].nodes[n].state \notin Runnable
      BY <3>2 DEF Keeps, Skeleton
    <3> QED BY <3>3 DEF Pending, Running, Runnable
  <2> QED BY <2>1, <2>2
<1>5. Indexed(trees', published', index')
  <2>1. \A t \in Trees : RefersTo(trees'[t].nodes) = RefersTo(trees[t].nodes) BY <1>2, ShapeSame
  <2> QED BY <1>1, <2>1 DEF GraphInv, Indexed
<1>6. NothingFromBefore'
  <2>1. CASE raised' BY <2>1 DEF NothingFromBefore
  <2>2. CASE boundary' = boundary /\ raised' = raised
    <3>1. CASE raised BY <2>2, <3>1 DEF NothingFromBefore
    <3>2. CASE StopReachesAll
      <4> SUFFICES ASSUME NEW t \in published', NEW n \in DOMAIN trees'[t].nodes,
                          trees'[t].nodes[n].state \in Runnable
                   PROVE  trees'[t].nodes[n].born = boundary'
        BY DEF NothingFromBefore, StopReachesAll
      <4>1. t \in published /\ t \in Trees BY <1>1
      <4>2. Keeps(trees[t], trees'[t]) BY <4>1
      <4>3. n \in DOMAIN trees[t].nodes /\ trees[t].nodes[n].state \in Runnable
            /\ trees'[t].nodes[n].born = trees[t].nodes[n].born
        BY <4>2 DEF Keeps, Skeleton
      <4> QED BY <2>2, <3>2, <4>1, <4>3 DEF StopReachesAll
    <3> QED BY <3>1, <3>2 DEF GraphInv, NothingFromBefore
  <2>3. CASE \A t \in published' : Pending(trees'[t]) = {} /\ Running(trees'[t]) = {}
    BY <2>3 DEF NothingFromBefore, StopReachesAll, Pending, Running, Runnable
  <2> QED BY <2>1, <2>2, <2>3
<1> QED BY <1>3, <1>4, <1>5, <1>6 DEF GraphInv, Trees

------------------------------------------------------------------------------
(* Tasks                                                                    *)

\* The trees, each with what is known of it.
LEMMA TreesAre ==
    ASSUME IInv
    PROVE  /\ \A t \in Trees : trees[t] \in TreeSet /\ QueueInv(trees[t], ActiveNode(trees[t]))
           /\ published \subseteq Trees /\ DOMAIN saved \subseteq Trees /\ owed \subseteq Trees
           /\ \A c \in DOMAIN slots : slots[c] \in SlotSet /\ slots[c].tree \in Trees
           /\ Len(slots) \in Nat /\ DOMAIN slots = 1 .. Len(slots) /\ 0 \notin DOMAIN slots
           /\ Len(trees) \in Nat /\ DOMAIN trees = 1 .. Len(trees) /\ 0 \notin Trees
<1>1. /\ Len(slots) \in Nat /\ DOMAIN slots = 1 .. Len(slots)
      /\ Len(trees) \in Nat /\ DOMAIN trees = 1 .. Len(trees)
  BY LenProperties DEF IInv, TypeInv
<1>2. 0 \notin DOMAIN slots /\ 0 \notin Trees BY <1>1 DEF Trees
<1>3. \A t \in Trees : trees[t] \in TreeSet BY <1>1, ElementOfSeq DEF IInv, TypeInv, Trees
<1>4. \A c \in DOMAIN slots : slots[c] \in SlotSet BY <1>1, ElementOfSeq DEF IInv, TypeInv
<1>5. \A c \in DOMAIN slots : slots[c].tree \in Trees BY DEF IInv, ClaimsInv, SlotInv
<1>6. \A t \in Trees : QueueInv(trees[t], ActiveNode(trees[t])) BY DEF IInv, ClaimsInv, ClaimInv
<1> QED BY <1>1, <1>2, <1>3, <1>4, <1>5, <1>6 DEF IInv, TypeInv

\* Where a claim may write: in its own tree, if that is in the repository.
LEMMA OpenTrees ==
    ASSUME IInv, NEW c \in DOMAIN slots, NEW states
    PROVE  Open(c, states) \subseteq published \cap {slots[c].tree}
<1> SUFFICES ASSUME NEW t \in Open(c, states) PROVE t \in published /\ t = slots[c].tree
  OBVIOUS
<1>1. t \in published /\ t \in Trees /\ c # 0 BY TreesAre DEF Open, TreeOf
<1>2. trees[t].active = c BY DEF Open, Live
<1>3. ClaimInv(t) BY <1>1 DEF IInv, ClaimsInv
<1>4. t = slots[c].tree BY <1>1, <1>2, <1>3 DEF ClaimInv
<1> QED BY <1>1, <1>4

\* Its claim is active there, and its node is in one of the states.
LEMMA OpenClaims ==
    ASSUME IInv, NEW c \in DOMAIN slots, NEW states, NEW t \in Open(c, states)
    PROVE  /\ trees[t].active # 0 /\ ~trees[t].requested
           /\ InState(trees[t], slots[c].node, states)
           /\ ActiveNode(trees[t]) = {slots[c].node} /\ QueueInv(trees[t], {slots[c].node})
<1>1. t \in Trees /\ c # 0 BY TreesAre DEF Open, TreeOf
<1>2. trees[t].active = c /\ ~trees[t].requested /\ InState(trees[t], slots[c].node, states)
  BY DEF Open, Live
<1>3. ClaimInv(t) BY <1>1 DEF IInv, ClaimsInv
<1>4. ActiveNode(trees[t]) = {slots[c].node} BY <1>1, <1>2 DEF ActiveNode
<1> QED BY <1>1, <1>2, <1>3, <1>4 DEF ClaimInv

\* A claim that may not write to its tree has nothing running in it.
LEMMA NotOpen ==
    ASSUME IInv, NEW c \in DOMAIN slots, slots[c].at # "finished", NEW states,
           "in_progress" \in states, slots[c].tree \notin Open(c, states)
    PROVE  Running(trees[slots[c].tree]) = {}
<1> DEFINE t == slots[c].tree
<1>1. SlotInv(c) /\ t \in Trees /\ c # 0 BY TreesAre DEF IInv, ClaimsInv
<1>2. trees[t].active = c BY <1>1 DEF SlotInv
<1>3. QueueInv(trees[t], ActiveNode(trees[t])) BY <1>1, TreesAre
<1>4. CASE trees[t].requested BY <1>3, <1>4 DEF QueueInv
<1>5. CASE t \notin published BY <1>1, <1>5 DEF IInv, GraphInv
<1>6. CASE ~InState(trees[t], slots[c].node, states)
  <2>1. ActiveNode(trees[t]) = {slots[c].node} BY <1>1, <1>2 DEF ActiveNode
  <2>2. slots[c].node \notin Running(trees[t]) BY <1>6 DEF InState, Running
  <2> QED BY <1>3, <2>1, <2>2 DEF QueueInv
<1> QED BY <1>2, <1>4, <1>5, <1>6 DEF Open, TreeOf, Live

\* The task of c writes to its tree, and what is saved is what was written.
Moved(c, saves) ==
    LET t == slots[c].tree IN
    /\ trees' \in Seq(TreeSet) /\ DOMAIN trees' = DOMAIN trees
    /\ \A u \in Trees \ {t} : trees'[u] = trees[u]
    /\ trees'[t] = trees[t] \/ SettlesTree(trees[t], trees'[t], ActiveNode(trees[t]))
    /\ saves \subseteq published /\ (trees'[t] = trees[t] \/ t \in saves)
    /\ Save(saves)

\* A claim writes its tree, if it still may.
LEMMA WriteMoves ==
    ASSUME IInv, NEW c \in DOMAIN slots, slots[c].at # "finished", NEW states,
           "in_progress" \in states, NEW new, DOMAIN new = Open(c, states), Write(new),
           \A t \in Open(c, states) : /\ SettlesTree(trees[t], new[t], ActiveNode(trees[t]))
                                      /\ Running(new[t]) = {}
    PROVE  Moved(c, Open(c, states)) /\ Running(trees'[slots[c].tree]) = {}
<1> DEFINE t == slots[c].tree
           still == Open(c, states)
<1>1. /\ trees' = [u \in DOMAIN trees |-> IF u \in still THEN new[u] ELSE trees[u]]
      /\ Save(still)
  BY DEF Write
<1>2. still \subseteq {t} /\ still \subseteq published
  <2>1. still \subseteq published \cap {t} BY OpenTrees
  <2> QED BY <2>1
<1>3. t \in Trees BY TreesAre
<1>4. \A u \in DOMAIN trees : trees'[u] \in TreeSet BY <1>1, TreesAre DEF SettlesTree, Trees
<1>5. trees' \in Seq(TreeSet) /\ DOMAIN trees' = DOMAIN trees
  <2>1. trees' \in [1 .. Len(trees) -> TreeSet] BY <1>1, <1>4, TreesAre
  <2> QED BY <1>1, <2>1, TreesAre, FunctionIsSeq
<1>6. Running(trees'[t]) = {}
  <2>1. CASE t \in still BY <1>1, <1>3, <2>1 DEF Trees
  <2>2. CASE t \notin still BY <1>1, <1>3, <2>2, NotOpen DEF Trees
  <2> QED BY <2>1, <2>2
<1> HIDE DEF still
<1>7. \A u \in Trees \ {t} : trees'[u] = trees[u] BY <1>1, <1>2 DEF Trees
<1>8. (trees'[t] = trees[t] \/ SettlesTree(trees[t], trees'[t], ActiveNode(trees[t])))
      /\ (trees'[t] = trees[t] \/ t \in still)
  BY <1>1, <1>3 DEF still, Trees
<1> QED BY <1>1, <1>2, <1>5, <1>6, <1>7, <1>8 DEF Moved, still

\* fail_claim, as the workflow calls it.
LEMMA FailMoves ==
    ASSUME IInv, NEW c \in DOMAIN slots, slots[c].at # "finished", NEW propagate \in BOOLEAN,
           Fail(c, propagate)
    PROVE  Moved(c, Open(c, States)) /\ Running(trees'[slots[c].tree]) = {}
<1> DEFINE new == [t \in Open(c, States) |-> Failed(trees[t], c, propagate)]
<1>1. Write(new) /\ DOMAIN new = Open(c, States) BY DEF Fail
<1>2. \A t \in Open(c, States) : /\ SettlesTree(trees[t], new[t], ActiveNode(trees[t]))
                                 /\ Running(new[t]) = {}
  <2> TAKE t \in Open(c, States)
  <2>1. t \in published BY OpenTrees
  <2>2. trees[t] \in TreeSet BY <2>1, TreesAre
  <2>3. /\ trees[t].active # 0 /\ ~trees[t].requested /\ InState(trees[t], slots[c].node, States)
        /\ ActiveNode(trees[t]) = {slots[c].node} /\ QueueInv(trees[t], {slots[c].node})
    BY OpenClaims
  <2>4. slots[c].node \in DOMAIN trees[t].nodes BY <2>3 DEF InState
  <2> QED BY <2>2, <2>3, <2>4, FailedTree
<1>3. "in_progress" \in States BY DEF States
<1> HIDE DEF new
<1> QED BY <1>1, <1>2, <1>3, WriteMoves

\* complete_claim moves its tree as well.
LEMMA CompleteMoves ==
    ASSUME IInv, NEW c \in DOMAIN slots, slots[c].at # "finished",
           Write([t \in Open(c, {"in_progress", "error"}) |-> Completed(trees[t], c)])
    PROVE  Moved(c, Open(c, {"in_progress", "error"})) /\ Running(trees'[slots[c].tree]) = {}
<1> DEFINE states == {"in_progress", "error"}
           new == [t \in Open(c, states) |-> Completed(trees[t], c)]
<1>1. Write(new) /\ DOMAIN new = Open(c, states) OBVIOUS
<1>2. \A t \in Open(c, states) : /\ SettlesTree(trees[t], new[t], ActiveNode(trees[t]))
                                 /\ Running(new[t]) = {}
  <2> TAKE t \in Open(c, states)
  <2>1. t \in published BY OpenTrees
  <2>2. trees[t] \in TreeSet BY <2>1, TreesAre
  <2>3. /\ trees[t].active # 0 /\ ~trees[t].requested /\ InState(trees[t], slots[c].node, states)
        /\ ActiveNode(trees[t]) = {slots[c].node} /\ QueueInv(trees[t], {slots[c].node})
    BY OpenClaims
  <2> QED BY <2>2, <2>3, CompletedTree
<1>3. "in_progress" \in states OBVIOUS
<1> HIDE DEF new
<1> QED BY <1>1, <1>2, <1>3, WriteMoves

\* What a step of a task leaves as it was, and what follows from the trees it
\* writes being saved.
LEMMA TaskOutside ==
    ASSUME IInv, TaskOnly, slots' \in Seq(SlotSet), DOMAIN slots \subseteq DOMAIN slots',
           trees' \in Seq(TreeSet), DOMAIN trees' = DOMAIN trees,
           \A t \in Trees : Keeps(trees[t], trees'[t]),
           NEW saves \in SUBSET published,
           Save(saves),
           \A t \in published \ saves : Snapshot(trees'[t]) = Snapshot(trees[t])
    PROVE  TypeInv' /\ GraphInv' /\ StoreInv'
<1>1. /\ published' = published /\ index' = index /\ boundary' = boundary /\ draining' = draining
      /\ owed' = owed /\ taken' = taken /\ raised' = raised
      /\ intake' = intake /\ deliveries' = deliveries
      /\ overtaken' = (overtaken \ saves) \cup (saves \cap DOMAIN taken)
  BY DEF TaskOnly, intakeVars, commandVars, Save
<1>2. \A t \in Trees : /\ trees[t] \in TreeSet /\ trees'[t] \in TreeSet
                       /\ trees'[t].root = trees[t].root
                       /\ DOMAIN trees'[t].nodes = DOMAIN trees[t].nodes
                       /\ \A n \in DOMAIN trees[t].nodes :
                             trees'[t].nodes[n].born = trees[t].nodes[n].born
                       /\ SameShape(trees[t].nodes, trees'[t].nodes)
  <2>1. \A t \in DOMAIN trees' : trees'[t] \in TreeSet BY ElementOfSeq, LenProperties
  <2> QED BY <2>1, TreesAre, SkeletonShape DEF Keeps, Skeleton, Trees
<1>3. published \subseteq Trees /\ DOMAIN saved \subseteq Trees /\ owed \subseteq Trees BY TreesAre
<1>4. GraphInv'
  <2>1. DOMAIN index = {r \in DOMAIN index : index[r] \in published}
    BY DEF IInv, GraphInv, Indexed
  <2>2. /\ published' \subseteq published /\ published \ published' = {}
        /\ DOMAIN index' = {r \in DOMAIN index : index[r] \in published'}
        /\ \A r \in DOMAIN index' : index'[r] = index[r]
    BY <1>1, <2>1
  <2> QED BY <1>1, <2>2, GraphKept DEF IInv
<1>5. TypeInv'
  <2>1. saved' \in [DOMAIN saved' -> Graphs] /\ DOMAIN saved' \subseteq Trees'
    <3>1. saves \subseteq DOMAIN trees' /\ DOMAIN trees \subseteq DOMAIN trees' BY <1>3 DEF Trees
    <3> QED BY <3>1, SaveTyping DEF IInv
  <2>2. \A t \in Trees' : \A n \in DOMAIN trees'[t].nodes : trees'[t].nodes[n].born <= boundary'
    BY <1>1, <1>2 DEF IInv, TypeInv, Trees
  <2>3. /\ boundary' \in Nat /\ deliveries' \in Nat /\ raised' \in BOOLEAN
        /\ published' \subseteq Trees' /\ owed' \subseteq Trees' /\ draining' \subseteq DOMAIN slots'
        /\ DOMAIN index' \subseteq References /\ intake' \in [Nodes -> TurnSet]
        /\ overtaken' \subseteq Trees'
    BY <1>1, <1>3 DEF IInv, TypeInv, Trees
  <2>4. \A n \in Nodes : intake'[n].at = "sending" =>
           intake'[n].status # 0 /\ intake'[n].token <= boundary'
    BY <1>1 DEF IInv, TypeInv
  <2> QED BY <2>1, <2>2, <2>3, <2>4 DEF TypeInv
<1>6. SavedInv'
  <2>1. TypeInv /\ SavedInv BY DEF IInv, StoreInv
  <2>2. saves \subseteq published' /\ published' \subseteq DOMAIN trees' BY <1>1, <1>3 DEF Trees
  <2>3. /\ \A t \in published' : WellFormed(trees'[t].root, trees'[t].nodes)
        /\ Indexed(trees', published', index')
    BY <1>4 DEF GraphInv
  <2>4. \A t \in Trees : trees'[t].root = trees[t].root BY <1>2
  <2>5. \A t \in published', u \in DOMAIN saved :
           t # u => RefersTo(trees'[t].nodes) \cap RefersTo(saved[u]) = {}
    <3>1. \A t \in published : RefersTo(trees'[t].nodes) = RefersTo(trees[t].nodes)
      BY <1>2, <1>3, ShapeSame
    <3> QED BY <1>1, <2>1, <3>1 DEF SavedInv
  <2>6. \A t \in DOMAIN saved \ (saves \cup owed') :
           t \in published' /\ RefersTo(saved[t]) \subseteq Refs(t)'
    BY <1>1, <2>1 DEF SavedInv, Refs
  <2>7. ~raised' => \A t \in owed' \ published', u \in published' : trees'[t].root # trees'[u].root
    BY <1>1, <1>2, <1>3, <2>1 DEF SavedInv
  <2>8. ~raised' => \A t \in published' \ (saves \cup owed') :
           /\ t \in DOMAIN saved /\ Portrays(saved[t], trees'[t], t, overtaken')
           /\ \A u \in saves : trees'[u].root # trees'[t].root
    <3> SUFFICES ASSUME ~raised, NEW t \in published \ (saves \cup owed)
                 PROVE  /\ t \in DOMAIN saved /\ Portrays(saved[t], trees'[t], t, overtaken')
                        /\ \A u \in saves : trees'[u].root # trees'[t].root
      BY <1>1
    <3>1. t \in DOMAIN saved /\ Portrays(saved[t], trees[t], t, overtaken) BY <2>1 DEF SavedInv
    <3>2. Portrays(saved[t], trees'[t], t, overtaken') BY <1>1, <3>1 DEF Portrays
    <3>3. \A u \in saves : trees'[u].root # trees'[t].root
      BY <1>1, <2>3, RootsApart
    <3> QED BY <3>1, <3>2, <3>3
  <2> QED BY <2>1, <2>2, <2>3, <2>4, <2>5, <2>6, <2>7, <2>8, SaveKeeps, SMTT(60)
<1>7. TakenInv'
  <2>1. TakenInv BY DEF IInv, StoreInv
  <2>2. ASSUME NEW t \in DOMAIN taken
        PROVE  WellFormed(trees'[t].root, taken[t]) /\ Portrays(taken[t], trees'[t], t, overtaken')
    <3>1. /\ t \in published /\ t \in Trees /\ taken[t] \in Graphs
          /\ WellFormed(trees[t].root, taken[t]) /\ Portrays(taken[t], trees[t], t, overtaken)
      BY <1>3, <2>1 DEF TakenInv
    <3>2. CASE t \in saves
      <4>1. t \in overtaken' BY <1>1, <3>2
      <4> QED BY <1>2, <3>1, <4>1, PortraysOn
    <3>3. CASE t \notin saves
      <4>1. Snapshot(trees'[t]) = Snapshot(trees[t]) /\ (t \in overtaken => t \in overtaken')
        BY <1>1, <3>1, <3>3
      <4> QED BY <1>2, <3>1, <4>1 DEF Portrays
    <3> QED BY <3>2, <3>3
  <2> QED BY <1>1, <2>1, <2>2 DEF TakenInv
<1> QED BY <1>4, <1>5, <1>6, <1>7 DEF StoreInv

\* The slots when the task of c goes to stage.
Staged(c, stage) == [slots EXCEPT ![c].at = stage, ![c].cancel = "none"]

\* What To does to the slots.
LEMMA SlotMoves ==
    ASSUME slots \in Seq(SlotSet), NEW c \in DOMAIN slots, NEW stage \in Stages
    PROVE  LET new == Staged(c, stage) IN
           /\ new \in Seq(SlotSet) /\ DOMAIN new = DOMAIN slots
           /\ \A d \in DOMAIN slots \ {c} : new[d] = slots[d]
           /\ new[c].tree = slots[c].tree /\ new[c].node = slots[c].node
           /\ new[c].at = stage /\ new[c].cancel = "none"
<1> DEFINE s == [[slots[c] EXCEPT !.at = stage] EXCEPT !.cancel = "none"]
           new == Staged(c, stage)
<1>1. Len(slots) \in Nat /\ DOMAIN slots = 1 .. Len(slots) /\ \A d \in DOMAIN slots : slots[d] \in SlotSet
  BY ElementOfSeq, LenProperties
<1>2. /\ s \in SlotSet /\ s.tree = slots[c].tree /\ s.node = slots[c].node
      /\ s.at = stage /\ s.cancel = "none"
  BY <1>1 DEF SlotSet, Reasons
<1>3. new = [slots EXCEPT ![c] = s] BY <1>1 DEF Staged
<1> HIDE DEF s, new
<1>4. DOMAIN new = DOMAIN slots /\ new[c] = s /\ \A d \in DOMAIN slots \ {c} : new[d] = slots[d]
  BY <1>3
<1>5. new \in Seq(SlotSet)
  <2>1. \A d \in DOMAIN slots : new[d] \in SlotSet BY <1>1, <1>2, <1>4
  <2>2. new \in [1 .. Len(slots) -> SlotSet] BY <1>1, <1>3, <2>1
  <2> QED BY <1>1, <2>2, FunctionIsSeq
<1> QED BY <1>2, <1>4, <1>5 DEF new

\* A task that does not finish with this step.
LEMMA MoveKeeps ==
    ASSUME IInv, NEW c \in DOMAIN slots, slots[c].at # "finished", TaskOnly,
           NEW saves, Moved(c, saves), NEW stage \in Stages \ {"finished", "unlaunched"},
           To(c, stage), stage \in Written => Running(trees'[slots[c].tree]) = {}
    PROVE  IInv'
<1> DEFINE t == slots[c].tree
<1>1. /\ trees' \in Seq(TreeSet) /\ DOMAIN trees' = DOMAIN trees
      /\ \A u \in Trees \ {t} : trees'[u] = trees[u]
      /\ \/ trees'[t] = trees[t]
         \/ SettlesTree(trees[t], trees'[t], ActiveNode(trees[t])) /\ t \in saves
      /\ saves \in SUBSET published /\ Save(saves)
  BY DEF Moved
<1>2. /\ slots' \in Seq(SlotSet) /\ DOMAIN slots' = DOMAIN slots
      /\ \A d \in DOMAIN slots \ {c} : slots'[d] = slots[d]
      /\ slots'[c].tree = t /\ slots'[c].node = slots[c].node
      /\ slots'[c].at = stage /\ slots'[c].cancel = "none"
  <2> DEFINE new == Staged(c, stage)
  <2>1. slots \in Seq(SlotSet) /\ stage \in Stages BY DEF IInv, TypeInv
  <2>2. /\ new \in Seq(SlotSet) /\ DOMAIN new = DOMAIN slots
        /\ \A d \in DOMAIN slots \ {c} : new[d] = slots[d]
        /\ new[c].tree = slots[c].tree /\ new[c].node = slots[c].node
        /\ new[c].at = stage /\ new[c].cancel = "none"
    BY <2>1, SlotMoves
  <2>3. slots' = new BY DEF To, Staged
  <2> HIDE DEF new
  <2> QED BY <2>2, <2>3
<1>3. \A u \in Trees : Keeps(trees[u], trees'[u])
  <2>1. \A u \in Trees : Keeps(trees[u], trees[u]) BY DEF Keeps, Skeleton
  <2> QED BY <1>1, <2>1 DEF SettlesTree
<1>4. TypeInv' /\ GraphInv' /\ StoreInv'
  <2>1. \A u \in published \ saves : Snapshot(trees'[u]) = Snapshot(trees[u])
    BY <1>1, TreesAre
  <2> QED BY <1>1, <1>2, <1>3, <2>1, TaskOutside
<1>5. ClaimsInv'
  <2>1. \A u \in Trees : trees'[u] = trees[u] \/ Calms(trees[u], trees'[u], ActiveNode(trees[u]))
    BY <1>1, SettlesCalms
  <2>2. \A d \in DOMAIN slots : SlotInv(d) BY DEF IInv, ClaimsInv
  <2>3. \A d \in DOMAIN slots :
           /\ slots'[d].tree = slots[d].tree /\ slots'[d].node = slots[d].node
           /\ slots'[d].at # "unlaunched"
           /\ slots'[d].at = "finished" <=> slots[d].at = "finished"
           /\ slots'[d].cancel # "none" =>
                 /\ slots'[d].at # "finished"
                 /\ slots[d].cancel # "none" \/ trees'[slots[d].tree].requested
           /\ slots'[d].at \in Written =>
                 slots[d].at \in Written \/ Running(trees'[slots[d].tree]) = {}
    <3> TAKE d \in DOMAIN slots
    <3>1. CASE d = c BY <1>2, <3>1
    <3>2. CASE d # c
      <4>1. slots'[d] = slots[d] BY <1>2, <3>2
      <4>2. slots[d].at # "unlaunched" /\ (slots[d].cancel # "none" => slots[d].at # "finished")
        BY <2>2 DEF SlotInv
      <4> QED BY <4>1, <4>2
    <3> QED BY <3>1, <3>2
  <2> QED BY <1>1, <1>2, <2>1, <2>3, ClaimsKept DEF IInv
<1> QED BY <1>4, <1>5 DEF IInv

\* Two steps that keep a tree keep it.
LEMMA KeepsOn ==
    ASSUME NEW tr, NEW mid, NEW new, Keeps(tr, mid), Keeps(mid, new)
    PROVE  Keeps(tr, new)
<1>1. DOMAIN mid.nodes = DOMAIN tr.nodes /\ DOMAIN new.nodes = DOMAIN tr.nodes
  BY DEF Keeps, Skeleton
<1>2. \A n \in DOMAIN tr.nodes :
         /\ new.nodes[n].status = tr.nodes[n].status /\ new.nodes[n].parent = tr.nodes[n].parent
         /\ new.nodes[n].born = tr.nodes[n].born
         /\ new.nodes[n].state \in Runnable => tr.nodes[n].state \in Runnable
         /\ tr.nodes[n].state = "completed" => new.nodes[n].state = "completed"
  BY <1>1 DEF Keeps, Skeleton
<1> QED BY <1>1, <1>2 DEF Keeps, Skeleton

\* A task that finishes: its claim is released, and the next node is claimed.
LEMMA FinishKeeps ==
    ASSUME IInv, NEW c \in DOMAIN slots, slots[c].at \in {"cleanup", "escaping", "unentered"}, TaskOnly,
           NEW tr, NEW saves,
           LET t == slots[c].tree IN
           /\ \/ tr = trees[t]
              \/ /\ SettlesTree(trees[t], tr, ActiveNode(trees[t])) /\ t \in saves
           /\ saves \subseteq published \cap {t},
           Save(saves),
           Finish(c, tr)
    PROVE  IInv'
<1> DEFINE t == slots[c].tree
           done == Staged(c, "finished")
<1>1. /\ t \in Trees /\ trees[t] \in TreeSet /\ QueueInv(trees[t], ActiveNode(trees[t]))
      /\ SlotInv(c) /\ ClaimInv(t) /\ c # 0
  BY TreesAre DEF IInv, ClaimsInv
<1>2. trees[t].active = c /\ Running(trees[t]) = {} BY <1>1 DEF SlotInv, Written
<1>3. /\ tr \in TreeSet /\ Keeps(trees[t], tr) /\ tr.active = c /\ Running(tr) = {}
      /\ QueueInv(tr, ActiveNode(trees[t])) /\ Pending(tr) \subseteq Pending(trees[t])
  <2>1. CASE tr = trees[t] BY <1>1, <1>2, <2>1 DEF Keeps, Skeleton
  <2>2. CASE SettlesTree(trees[t], tr, ActiveNode(trees[t])) BY <1>2, <2>2 DEF SettlesTree
  <2> QED BY <2>1, <2>2
<1>4. ActiveNode(tr) = ActiveNode(trees[t]) BY <1>2, <1>3 DEF ActiveNode
<1>5. Len(slots) \in Nat /\ trees \in Seq(TreeSet) /\ slots \in Seq(SlotSet)
      /\ DOMAIN slots = 1 .. Len(slots)
  BY TreesAre DEF IInv, TypeInv
<1>6. /\ DOMAIN trees' = DOMAIN trees
      /\ \A u \in DOMAIN trees \ {t} : trees'[u] = trees[u]
      /\ trees'[t] \in TreeSet /\ Keeps(tr, trees'[t])
      /\ \A k \in DOMAIN tr.nodes :
            \/ trees'[t].nodes[k].state = tr.nodes[k].state
            \/ {trees'[t].nodes[k].state, tr.nodes[k].state} \subseteq Runnable
      /\ \/ trees'[t].active = 0 /\ QueueInv(trees'[t], {}) /\ slots' = done
         \/ /\ trees'[t].active = Len(slots) + 1
            /\ \E n \in Pending(tr) : /\ QueueInv(trees'[t], {n})
                                      /\ slots' = Append(done, Launched(t, n))
  <2>1. QueueInv(tr, ActiveNode(tr)) /\ t \in DOMAIN trees BY <1>1, <1>3, <1>4 DEF Trees
  <2> QED BY <1>3, <1>5, <2>1, FinishedTree DEF Staged
<1>7. \A n \in Pending(tr) : t \in published /\ n \in Nodes
  <2> TAKE n \in Pending(tr)
  <2>1. Pending(trees[t]) # {} BY <1>3
  <2>2. t \in published BY <1>1, <2>1 DEF IInv, GraphInv
  <2>3. n \in DOMAIN tr.nodes /\ DOMAIN tr.nodes \subseteq Nodes BY <1>3, TreeFields DEF Pending
  <2> QED BY <2>2, <2>3
<1>8. /\ done \in Seq(SlotSet) /\ DOMAIN done = DOMAIN slots
      /\ \A d \in DOMAIN slots \ {c} : done[d] = slots[d]
      /\ done[c].tree = t /\ done[c].node = slots[c].node
      /\ done[c].at = "finished" /\ done[c].cancel = "none"
  <2>1. "finished" \in Stages BY DEF Stages
  <2> QED BY <1>5, <2>1, SlotMoves
<1> HIDE DEF done
<1>9. \/ slots' = done /\ trees'[t].active = 0 /\ QueueInv(trees'[t], {})
      \/ \E n \in Nodes : /\ slots' = Append(done, Slot(t, n, "created"))
                          /\ trees'[t].active = Len(slots) + 1 /\ QueueInv(trees'[t], {n})
  BY <1>6, <1>7 DEF Launched
<1>10. slots' \in Seq(SlotSet) /\ DOMAIN slots \subseteq DOMAIN slots'
  <2>1. CASE slots' = done BY <1>8, <2>1
  <2>2. CASE \E n \in Nodes : slots' = Append(done, Slot(t, n, "created"))
    <3>1. PICK n \in Nodes : slots' = Append(done, Slot(t, n, "created")) BY <2>2
    <3>2. Slot(t, n, "created") \in SlotSet
      <4>1. t \in Nat BY <1>1, TreesAre DEF Trees
      <4> QED BY <4>1 DEF Slot, SlotSet, Stages, Reasons
    <3>3. /\ slots' \in Seq(SlotSet) /\ Len(slots') = Len(done) + 1
      BY <1>8, <3>1, <3>2, AppendProperties
    <3>4. /\ DOMAIN slots' = 1 .. Len(slots') /\ DOMAIN done = 1 .. Len(done) /\ Len(done) \in Nat
      BY <1>8, <3>3, LenProperties
    <3>5. 1 .. Len(done) \subseteq 1 .. Len(done) + 1 BY <3>4
    <3> QED BY <1>8, <3>3, <3>4, <3>5
  <2> QED BY <1>9, <2>1, <2>2
<1>11. trees' \in Seq(TreeSet)
  <2>1. \A u \in DOMAIN trees : trees'[u] \in TreeSet BY <1>6, TreesAre DEF Trees
  <2>2. DOMAIN trees = 1 .. Len(trees) /\ Len(trees) \in Nat BY TreesAre
  <2>3. trees' = [u \in 1 .. Len(trees) |-> trees'[u]]
    <3>1. \E new : Replace(t, new) BY DEF Finish
    <3> QED BY <2>2, <3>1 DEF Replace
  <2>4. trees' \in [1 .. Len(trees) -> TreeSet] BY <2>1, <2>2, <2>3
  <2> QED BY <2>2, <2>4, FunctionIsSeq
<1>12. Keeps(trees[t], trees'[t])
  BY <1>3, <1>6, KeepsOn
<1>13. TypeInv' /\ GraphInv' /\ StoreInv'
  <2>1. \A u \in Trees : Keeps(trees[u], trees'[u])
    <3>1. \A u \in Trees : Keeps(trees[u], trees[u]) BY DEF Keeps, Skeleton
    <3> QED BY <1>6, <1>12, <3>1 DEF Trees
  <2>2. saves \in SUBSET published OBVIOUS
  <2>3. \A u \in published \ saves : Snapshot(trees'[u]) = Snapshot(trees[u])
    <3> TAKE u \in published \ saves
    <3>1. CASE u # t BY <1>6, <3>1, TreesAre DEF Trees
    <3>2. CASE u = t
      <4>1. tr = trees[t] BY <3>2
      <4>2. Skeleton(trees[t].nodes, trees'[t].nodes) BY <1>12 DEF Keeps
      <4>3. trees[t] \in TreeSet /\ trees'[t] \in TreeSet BY <1>1, <1>6, <4>1, TreesAre DEF Trees
      <4>4. Snapshot(trees'[t]) = Snapshot(trees[t]) BY <1>6, <4>1, <4>2, <4>3, SnapshotSame
      <4> QED BY <3>2, <4>4
    <3> QED BY <3>1, <3>2
  <2> QED BY <1>6, <1>10, <1>11, <2>1, <2>2, <2>3, TaskOutside
<1>14. ClaimsInv'
  <2>1. DOMAIN trees' = DOMAIN trees \cup {t} /\ 0 \notin DOMAIN trees'
    BY <1>1, <1>6, TreesAre DEF Trees
  <2>2. \A d \in DOMAIN slots :
           /\ done[d].tree = slots[d].tree /\ done[d].node = slots[d].node
           /\ slots[d].tree # t => done[d] = slots[d]
           /\ slots[d].tree = t => done[d].at = "finished" /\ done[d].cancel = "none"
    <3> TAKE d \in DOMAIN slots
    <3>1. CASE d = c BY <1>8, <3>1
    <3>2. CASE d # c
      <4>1. done[d] = slots[d] BY <1>8, <3>2
      <4>2. SlotInv(d) BY DEF IInv, ClaimsInv
      <4>3. slots[d].tree = t => slots[d].at = "finished" /\ slots[d].cancel = "none"
        BY <1>2, <3>2, <4>2 DEF SlotInv
      <4> QED BY <4>1, <4>3
    <3> QED BY <3>1, <3>2
  <2>3. \A u \in Trees \ {t} : trees'[u] = trees[u] BY <1>6 DEF Trees
  <2>4. TypeInv /\ ClaimsInv BY DEF IInv
  <2> HIDE DEF t
  <2>5. done \in Seq(SlotSet) /\ DOMAIN done = DOMAIN slots BY <1>8
  <2> QED BY <1>9, <2>1, <2>2, <2>3, <2>4, <2>5, ClaimsLaunched, ZenonT(60)
<1> QED BY <1>13, <1>14 DEF IInv

\* A step that writes nothing.
LEMMA SilentMoves ==
    ASSUME IInv, NEW c \in DOMAIN slots, Silent
    PROVE  Moved(c, {}) /\ trees' = trees
<1>1. Save({}) BY SaveNothing DEF Silent, IInv
<1> QED BY <1>1 DEF Silent, Moved, IInv, TypeInv, Trees

\* Nothing runs in a tree whose task has written its end, or is cancelled.
LEMMA Quiet ==
    ASSUME IInv, NEW c \in DOMAIN slots, slots[c].at \in Written \/ slots[c].cancel # "none"
    PROVE  Running(trees[slots[c].tree]) = {}
<1>1. SlotInv(c) BY DEF IInv, ClaimsInv
<1>2. QueueInv(trees[slots[c].tree], ActiveNode(trees[slots[c].tree])) BY TreesAre
<1> QED BY <1>1, <1>2 DEF SlotInv, QueueInv

\* Steps that write nothing and do not finish.
LEMMA SilentKeeps ==
    ASSUME IInv, NEW c \in DOMAIN slots, slots[c].at # "finished", Silent, TaskOnly,
           NEW stage \in Stages \ {"finished", "unlaunched"}, To(c, stage),
           stage \in Written => slots[c].at \in Written \/ slots[c].cancel # "none"
    PROVE  IInv'
<1>1. Moved(c, {}) /\ trees' = trees BY SilentMoves
<1>2. stage \in Written => Running(trees'[slots[c].tree]) = {} BY <1>1, Quiet
<1> QED BY <1>1, <1>2, MoveKeeps

\* Steps that fail the claim and do not finish.
LEMMA FailKeeps ==
    ASSUME IInv, NEW c \in DOMAIN slots, slots[c].at # "finished", TaskOnly,
           NEW propagate \in BOOLEAN, Fail(c, propagate),
           NEW stage \in Stages \ {"finished", "unlaunched"}, To(c, stage)
    PROVE  IInv'
<1>1. Moved(c, Open(c, States)) /\ Running(trees'[slots[c].tree]) = {} BY FailMoves
<1> QED BY <1>1, MoveKeeps

\* A task that finishes and writes nothing before.
LEMMA FinishesKeep ==
    ASSUME IInv, NEW c \in DOMAIN slots, slots[c].at \in {"cleanup", "escaping", "unentered"},
           TaskOnly, Finish(c, trees[slots[c].tree]), UNCHANGED <<saved, overtaken>>
    PROVE  IInv'
<1> DEFINE tr == trees[slots[c].tree]
           saves == {}
<1>1. saves \subseteq published \cap {slots[c].tree} OBVIOUS
<1>2. Finish(c, tr) /\ Save(saves) BY SaveNothing DEF IInv
<1>3. LET t == slots[c].tree IN
      /\ \/ tr = trees[t]
         \/ /\ SettlesTree(trees[t], tr, ActiveNode(trees[t])) /\ t \in saves
      /\ saves \subseteq published \cap {t}
  BY <1>1
<1> HIDE DEF tr, saves
<1> QED BY <1>2, <1>3, FinishKeeps

\* A task that ends, after it failed its claim or not.
LEMMA CleanupEndsKeeps ==
    ASSUME IInv, NEW c \in DOMAIN slots, CleanupEnds(c)
    PROVE  IInv'
<1> DEFINE t == slots[c].tree
           still == IF slots[c].at = "escaping" THEN Open(c, States) ELSE {}
           tr == IF t \in still THEN Failed(trees[t], c, TRUE) ELSE trees[t]
<1>1. /\ slots[c].at \in {"cleanup", "escaping"} /\ Finish(c, tr) /\ Save(still)
      /\ TaskOnly
  BY DEF CleanupEnds, At
<1>2. still \subseteq published \cap {t} BY OpenTrees
<1>3. \/ tr = trees[t]
      \/ SettlesTree(trees[t], tr, ActiveNode(trees[t])) /\ t \in still
  <2>1. CASE t \notin still BY <2>1
  <2>2. CASE t \in still
    <3>1. t \in Open(c, States) BY <2>2
    <3>2. t \in published /\ trees[t] \in TreeSet BY <1>2, <2>2, TreesAre
    <3>3. /\ trees[t].active # 0 /\ ~trees[t].requested /\ InState(trees[t], slots[c].node, States)
          /\ ActiveNode(trees[t]) = {slots[c].node} /\ QueueInv(trees[t], {slots[c].node})
      BY <3>1, OpenClaims
    <3>4. slots[c].node \in DOMAIN trees[t].nodes BY <3>3 DEF InState
    <3>5. TRUE \in BOOLEAN OBVIOUS
    <3>6. SettlesTree(trees[t], Failed(trees[t], c, TRUE), {slots[c].node})
      BY <3>2, <3>3, <3>4, <3>5, FailedTree
    <3> QED BY <2>2, <3>3, <3>6
  <2> QED BY <2>1, <2>2
<1> HIDE DEF still, tr
<1>4. LET u == slots[c].tree IN
      /\ \/ tr = trees[u]
         \/ /\ SettlesTree(trees[u], tr, ActiveNode(trees[u])) /\ u \in still
      /\ still \subseteq published \cap {u}
  BY <1>2, <1>3
<1> QED BY <1>1, <1>4, FinishKeeps

\* The CancelledError arrives.
LEMMA DeliverKeeps ==
    ASSUME IInv, NEW c \in DOMAIN slots, Deliver(c)
    PROVE  IInv'
<1>1. slots[c].cancel # "none" /\ TaskOnly BY DEF Deliver
<1>2. CASE slots[c].at = "created" /\ To(c, "unentered") /\ Silent
  <2>1. "unentered" \in Stages \ {"finished", "unlaunched"} BY DEF Stages
  <2> QED BY <1>1, <1>2, <2>1, SilentKeeps
<1>3. CASE slots[c].at \in {"running", "settled"} /\ Fail(c, FALSE) /\ To(c, "cleanup")
  <2>1. "cleanup" \in Stages \ {"finished", "unlaunched"} /\ FALSE \in BOOLEAN BY DEF Stages
  <2> QED BY <1>1, <1>3, <2>1, FailKeeps
<1>4. CASE slots[c].at \in {"running", "settled"} /\ To(c, "stopping") /\ Silent
  <2>1. "stopping" \in Stages \ {"finished", "unlaunched"} BY DEF Stages
  <2> QED BY <1>1, <1>4, <2>1, SilentKeeps
<1>5. CASE slots[c].at \in {"stopping", "failing"} /\ To(c, "cleanup") /\ Silent
  <2>1. "cleanup" \in Stages \ {"finished", "unlaunched"} BY DEF Stages
  <2> QED BY <1>1, <1>5, <2>1, SilentKeeps
<1>6. CASE /\ slots[c].at \in {"cleanup", "escaping"} /\ Finish(c, trees[slots[c].tree])
           /\ UNCHANGED <<saved, overtaken>>
  BY <1>1, <1>6, FinishesKeep
<1> QED BY <1>2, <1>3, <1>4, <1>5, <1>6 DEF Deliver

\* Every step of a task keeps the invariant.
LEMMA TaskKeeps ==
    ASSUME IInv, NEW c \in DOMAIN slots, TaskStep(c) \/ Event(c)
    PROVE  IInv'
<1> DEFINE Moving == Stages \ {"finished", "unlaunched"}
<1>1. {"running", "settled", "stopping", "failing", "cleanup", "escaping"} \subseteq Moving
  BY DEF Stages
<1> HIDE DEF Moving
<1>2. CASE Start(c) \/ RunnerRaises(c)
  <2>1. /\ slots[c].at # "finished" /\ Silent /\ TaskOnly
        /\ \E stage \in {"running", "failing"} : To(c, stage)
    BY <1>2 DEF Start, RunnerRaises, At
  <2>2. PICK stage \in {"running", "failing"} : To(c, stage) BY <2>1
  <2>3. stage \in Moving /\ stage \notin Written BY <1>1, <2>2 DEF Written
  <2> QED BY <2>1, <2>2, <2>3, SilentKeeps DEF Moving
<1>3. CASE \E exit \in BOOLEAN : ErrorEvent(c, exit)
  <2>1. PICK exit \in BOOLEAN : ErrorEvent(c, exit) BY <1>3
  <2>2. /\ slots[c].at \in {"running", "settled"} /\ Fail(c, exit) /\ TaskOnly
        /\ To(c, IF exit THEN "settled" ELSE slots[c].at)
    BY <2>1 DEF ErrorEvent, At
  <2>3. PICK stage \in {"running", "settled"} : stage = IF exit THEN "settled" ELSE slots[c].at
    BY <2>2
  <2>4. stage \in Moving /\ To(c, stage) /\ slots[c].at # "finished" BY <1>1, <2>2, <2>3
  <2> QED BY <2>2, <2>4, FailKeeps DEF Moving
<1>4. CASE CompleteEvent(c)
  <2>1. /\ slots[c].at # "finished" /\ TaskOnly /\ To(c, "settled")
        /\ Write([t \in Open(c, {"in_progress", "error"}) |-> Completed(trees[t], c)])
    BY <1>4 DEF CompleteEvent, At
  <2>2. PICK saves : Moved(c, saves) /\ Running(trees'[slots[c].tree]) = {}
    BY <2>1, CompleteMoves
  <2>3. "settled" \in Moving BY <1>1
  <2> QED BY <2>1, <2>2, <2>3, MoveKeeps DEF Moving
<1>5. CASE StreamEnds(c)
  <2>1. /\ slots[c].at \in {"running", "settled"} /\ To(c, "cleanup") /\ TaskOnly
        /\ IF slots[c].at = "running" THEN Fail(c, TRUE) ELSE Silent
    BY <1>5 DEF StreamEnds, At
  <2>2. "cleanup" \in Moving /\ TRUE \in BOOLEAN /\ slots[c].at # "finished" BY <1>1, <2>1
  <2>3. CASE Fail(c, TRUE) BY <2>1, <2>2, <2>3, FailKeeps DEF Moving
  <2>4. CASE slots[c].at = "settled" /\ Silent
    <3>1. slots[c].at \in Written BY <2>4 DEF Written
    <3> QED BY <2>1, <2>2, <2>4, <3>1, SilentKeeps DEF Moving
  <2> QED BY <2>1, <2>3, <2>4
<1>6. CASE SessionLimit(c) \/ StoppingEnds(c) \/ \E escapes \in BOOLEAN : FailingEnds(c, escapes)
  <2>1. /\ slots[c].at # "finished" /\ TaskOnly
        /\ \E propagate \in BOOLEAN : Fail(c, propagate)
        /\ \E stage \in {"cleanup", "escaping"} : To(c, stage)
    BY <1>6 DEF SessionLimit, StoppingEnds, FailingEnds, At
  <2>2. PICK propagate \in BOOLEAN : Fail(c, propagate) BY <2>1
  <2>3. PICK stage \in {"cleanup", "escaping"} : To(c, stage) BY <2>1
  <2>4. stage \in Moving BY <1>1, <2>3
  <2> QED BY <2>1, <2>2, <2>3, <2>4, FailKeeps DEF Moving
<1>7. CASE CleanupEnds(c) BY <1>7, CleanupEndsKeeps
<1>8. CASE Deliver(c) BY <1>8, DeliverKeeps
<1>9. CASE Recover(c) BY <1>9, FinishesKeep DEF Recover
<1> QED BY <1>2, <1>3, <1>4, <1>5, <1>6, <1>7, <1>8, <1>9 DEF TaskStep, Event

------------------------------------------------------------------------------
(* Turns that are received and dropped, and tasks that are drained          *)

\* A step that changes no tree and no task.
LEMMA TreesStay ==
    ASSUME ClaimsInv, GraphInv, UNCHANGED <<treeVars, boundary, raised>>
    PROVE  ClaimsInv' /\ GraphInv'
<1>1. /\ trees' = trees /\ published' = published /\ index' = index /\ slots' = slots
      /\ boundary' = boundary /\ raised' = raised
  BY DEF treeVars
<1>2. ClaimsInv' BY <1>1 DEF ClaimsInv, ClaimInv, SlotInv, ActiveNode, Trees
<1>3. GraphInv' BY <1>1 DEF GraphInv, NothingFromBefore, StopReachesAll, Trees
<1> QED BY <1>2, <1>3

\* A step of the intake only.
LEMMA TurnsKeep ==
    ASSUME IInv, UNCHANGED <<treeVars, commandVars, storeVars>>,
           intake' \in [Nodes -> TurnSet], deliveries' \in Nat,
           \A n \in Nodes : intake'[n].at = "sending" =>
              intake'[n].status # 0 /\ intake'[n].token <= boundary
    PROVE  IInv'
<1>1. /\ trees' = trees /\ published' = published /\ index' = index /\ slots' = slots
      /\ boundary' = boundary /\ draining' = draining /\ owed' = owed /\ taken' = taken
      /\ raised' = raised /\ saved' = saved /\ overtaken' = overtaken
  BY DEF treeVars, commandVars, storeVars
<1>2. TypeInv' BY <1>1 DEF IInv, TypeInv, Trees
<1>3. ClaimsInv' /\ GraphInv' BY <1>1, TreesStay DEF IInv, treeVars
<1>4. StoreInv' BY <1>1 DEF IInv, StoreInv, SavedInv, TakenInv, Refs
<1> QED BY <1>2, <1>3, <1>4 DEF IInv

\* A turn that is received.
LEMMA ReceiveKeeps ==
    ASSUME IInv, NEW n \in Nodes, NEW r \in DOMAIN index \cup {NoReference, intake[n].reply},
           Receive(n, r)
    PROVE  IInv'
<1> DEFINE received == [at |-> "sending", known |-> TRUE, reply |-> r, token |-> boundary,
                    status |-> deliveries + 1,
                    parent |-> IF r \in DOMAIN index THEN r ELSE NoReference]
<1>1. intake' = [intake EXCEPT ![n] = received] /\ deliveries' = deliveries + 1 BY DEF Receive
<1>2. deliveries + 1 \in 1 .. MaxDeliveries BY DEF Receive, IInv, TypeInv
<1>3. intake \in [Nodes -> TurnSet] /\ DOMAIN index \subseteq References /\ boundary \in Nat
      /\ deliveries \in Nat
  BY DEF IInv, TypeInv
<1>4. r \in References \cup {NoReference}
  <2>1. intake[n] \in TurnSet BY <1>3
  <2>2. intake[n].reply \in References \cup {NoReference} BY <2>1 DEF TurnSet
  <2> QED BY <1>3, <2>2
<1>5. received \in TurnSet BY <1>2, <1>3, <1>4 DEF TurnSet
<1>6. received.at = "sending" /\ received.status # 0 /\ received.token <= boundary BY <1>2, <1>3
<1> HIDE DEF received
<1>7. intake' \in [Nodes -> TurnSet] BY <1>1, <1>3, <1>5
<1>8. \A m \in Nodes : intake'[m].at = "sending" => intake'[m].status # 0 /\ intake'[m].token <= boundary
  BY <1>1, <1>3, <1>6 DEF IInv, TypeInv
<1>9. UNCHANGED <<treeVars, commandVars, storeVars>> BY DEF Receive
<1> QED BY <1>1, <1>3, <1>7, <1>8, <1>9, TurnsKeep

\* A turn that ends.
LEMMA IdleTurn ==
    ASSUME TypeInv, NEW n \in Nodes, Idle(n)
    PROVE  /\ intake' \in [Nodes -> TurnSet]
           /\ \A m \in Nodes : intake'[m].at = "sending" =>
                 intake'[m].status # 0 /\ intake'[m].token <= boundary
<1> DEFINE received == [[NoTurn EXCEPT !.known = TRUE] EXCEPT !.reply = intake[n].reply]
<1>1. intake \in [Nodes -> TurnSet] BY DEF TypeInv
<1>2. intake' = [intake EXCEPT ![n] = received] BY DEF Idle, NoTurn
<1>3. received \in TurnSet /\ received.at = "idle"
  <2>1. intake[n].reply \in References \cup {NoReference} BY <1>1 DEF TurnSet
  <2>2. NoTurn \in TurnSet /\ NoTurn.at = "idle" BY DEF NoTurn, TurnSet
  <2>3. [NoTurn EXCEPT !.known = TRUE] \in TurnSet /\ [NoTurn EXCEPT !.known = TRUE].at = "idle"
    BY <2>2 DEF TurnSet
  <2> DEFINE known == [NoTurn EXCEPT !.known = TRUE]
  <2> HIDE DEF known
  <2>4. known \in TurnSet /\ known.at = "idle" BY <2>3 DEF known
  <2>5. [known EXCEPT !.reply = intake[n].reply] \in TurnSet
        /\ [known EXCEPT !.reply = intake[n].reply].at = "idle"
    BY <2>1, <2>4 DEF TurnSet
  <2> QED BY <2>5 DEF known
<1> HIDE DEF received
<1>4. intake' \in [Nodes -> TurnSet] BY <1>1, <1>2, <1>3
<1>5. \A m \in Nodes : intake'[m].at = "sending" => m # n /\ intake'[m] = intake[m]
  BY <1>1, <1>2, <1>3
<1> QED BY <1>4, <1>5 DEF TypeInv

\* A turn that is dropped.
LEMMA DiscardKeeps ==
    ASSUME IInv, NEW n \in Nodes, Discard(n)
    PROVE  IInv'
<1>1. Idle(n) /\ deliveries' = deliveries /\ UNCHANGED <<treeVars, commandVars, storeVars>>
  BY DEF Discard
<1>2. deliveries \in Nat BY DEF IInv, TypeInv
<1> QED BY <1>1, <1>2, IdleTurn, TurnsKeep DEF IInv

\* The tasks of a command are drained, and it takes its snapshots.
LEMMA DrainedKeeps ==
    ASSUME IInv, Drained
    PROVE  IInv'
<1>1. /\ trees' = trees /\ published' = published /\ index' = index /\ slots' = slots
      /\ intake' = intake /\ deliveries' = deliveries
      /\ boundary' = boundary /\ draining' = {} /\ owed' = owed /\ raised' = raised
      /\ saved' = saved /\ taken' = Snapshots(owed \cap published) /\ overtaken' = overtaken \ owed
  BY DEF Drained, Take, treeVars, intakeVars
<1>2. TypeInv /\ SavedInv /\ GraphInv /\ ClaimsInv BY DEF IInv, StoreInv
<1>3. ClaimsInv' /\ GraphInv' BY <1>1, <1>2, TreesStay DEF treeVars
<1>4. TypeInv' BY <1>1, <1>2 DEF TypeInv, Trees
<1>5. SavedInv'
  <2>1. ~raised => \A t \in published \ owed :
           t \in DOMAIN saved /\ Portrays(saved[t], trees[t], t, overtaken \ owed)
    BY <1>2 DEF SavedInv, Portrays
  <2>2. /\ \A t \in DOMAIN saved : WellFormed(trees[t].root, saved[t])
        /\ \A t, u \in DOMAIN saved : t # u => RefersTo(saved[t]) \cap RefersTo(saved[u]) = {}
        /\ \A t \in published, u \in DOMAIN saved :
              t # u => RefersTo(trees[t].nodes) \cap RefersTo(saved[u]) = {}
        /\ \A t \in DOMAIN saved \ owed : t \in published /\ RefersTo(saved[t]) \subseteq Refs(t)
        /\ ~raised => \A t \in owed \ published, u \in published : trees[t].root # trees[u].root
    BY <1>2 DEF SavedInv
  <2>3. \A t \in DOMAIN saved \ owed : Refs(t)' = Refs(t) BY <1>1 DEF Refs
  <2> QED BY <1>1, <2>1, <2>2, <2>3 DEF SavedInv
<1>6. TakenInv'
  <2>1. /\ DOMAIN taken' = owed \cap published
        /\ \A t \in owed \cap published : taken'[t] = Snapshot(trees[t])
    BY <1>1 DEF Snapshots
  <2>2. ASSUME NEW t \in owed \cap published
        PROVE  /\ taken'[t] \in Graphs /\ WellFormed(trees[t].root, taken'[t])
               /\ Portrays(taken'[t], trees[t], t, overtaken')
    <3>1. trees[t] \in TreeSet /\ WellFormed(trees[t].root, trees[t].nodes)
      BY <1>2, TreesAre DEF GraphInv
    <3> QED BY <2>1, <3>1, SnapshotOf DEF Portrays
  <2> QED BY <1>1, <2>1, <2>2 DEF TakenInv
<1> QED BY <1>3, <1>4, <1>5, <1>6 DEF IInv, StoreInv

\* A command saves what it took, and removes the other trees it was about.
LEMMA SaveTakenKeeps ==
    ASSUME IInv, SaveTaken
    PROVE  IInv'
<1> DEFINE gone == owed \ DOMAIN taken
<1>1. /\ trees' = trees /\ published' = published /\ index' = index /\ slots' = slots
      /\ intake' = intake /\ deliveries' = deliveries
      /\ boundary' = boundary /\ draining' = draining /\ draining = {}
      /\ owed' = {} /\ raised' = raised
      /\ saved' = Stored(taken, gone) /\ taken' = <<>> /\ overtaken' = overtaken
  BY DEF SaveTaken, treeVars, intakeVars
<1>2. TypeInv /\ SavedInv /\ TakenInv /\ GraphInv /\ ClaimsInv BY DEF IInv, StoreInv
<1>3. /\ published \subseteq Trees /\ owed \subseteq Trees /\ DOMAIN taken \subseteq published
      /\ \A t \in DOMAIN taken : taken[t] \in Graphs
      /\ DOMAIN taken \cup gone = owed
  BY <1>2, TreesAre DEF TakenInv
<1>4. ClaimsInv' /\ GraphInv' BY <1>1, <1>2, TreesStay DEF treeVars
<1>5. TypeInv'
  <2>1. DOMAIN taken \subseteq DOMAIN trees' /\ DOMAIN trees \subseteq DOMAIN trees'
    BY <1>1, <1>3 DEF Trees
  <2>2. saved' \in [DOMAIN saved' -> Graphs] /\ DOMAIN saved' \subseteq Trees'
    BY <1>1, <1>2, <1>3, <2>1, StoredTyping
  <2> QED BY <1>1, <1>2, <2>2 DEF TypeInv, Trees
<1>6. SavedInv'
  <2>1. DOMAIN taken \subseteq published' /\ Indexed(trees', published', index')
    BY <1>1, <1>2, <1>3 DEF GraphInv
  <2>2. \A t \in DOMAIN taken : /\ WellFormed(trees'[t].root, taken[t])
                                /\ RefersTo(taken[t]) = RefersTo(trees'[t].nodes)
                                /\ Portrays(taken[t], trees'[t], t, overtaken')
    <3> TAKE t \in DOMAIN taken
    <3>1. /\ trees[t] \in TreeSet /\ taken[t] \in Graphs /\ WellFormed(trees[t].root, taken[t])
          /\ Portrays(taken[t], trees[t], t, overtaken)
      BY <1>2, <1>3, TreesAre DEF TakenInv
    <3>2. RefersTo(taken[t]) = RefersTo(trees[t].nodes) BY <3>1, PortraysSame
    <3> QED BY <1>1, <3>1, <3>2
  <2>3. /\ \A t \in Trees : trees'[t].root = trees[t].root
        /\ \A t \in published', u \in DOMAIN saved :
              t # u => RefersTo(trees'[t].nodes) \cap RefersTo(saved[u]) = {}
        /\ ~raised' => \A t \in owed' \ published', u \in published' : trees'[t].root # trees'[u].root
    BY <1>1, <1>2 DEF SavedInv
  <2>4. \A t \in DOMAIN saved \ (DOMAIN taken \cup gone \cup owed') :
           t \in published' /\ RefersTo(saved[t]) \subseteq Refs(t)'
    BY <1>1, <1>2, <1>3 DEF SavedInv, Refs
  <2>5. ~raised' => \A t \in published' \ (DOMAIN taken \cup owed') :
           /\ t \in DOMAIN saved /\ Portrays(saved[t], trees'[t], t, overtaken')
           /\ \A u \in DOMAIN taken \cup gone : trees'[u].root # trees'[t].root
    <3> SUFFICES ASSUME ~raised, NEW t \in published \ DOMAIN taken
                 PROVE  /\ t \in DOMAIN saved /\ Portrays(saved[t], trees[t], t, overtaken)
                        /\ \A u \in owed : trees[u].root # trees[t].root
      BY <1>1, <1>3
    <3>1. t \notin owed BY <1>1, <1>2 DEF TakenInv
    <3>2. t \in DOMAIN saved /\ Portrays(saved[t], trees[t], t, overtaken)
      BY <1>2, <3>1 DEF SavedInv
    <3>3. \A u \in owed : trees[u].root # trees[t].root
      <4> TAKE u \in owed
      <4>1. CASE u \in published
        <5>1. u # t /\ Indexed(trees, published, index) BY <1>2, <3>1 DEF GraphInv
        <5>2. WellFormed(trees[u].root, trees[u].nodes) /\ WellFormed(trees[t].root, trees[t].nodes)
          BY <1>2, <4>1 DEF GraphInv
        <5> QED BY <4>1, <5>1, <5>2, RootsApart
      <4>2. CASE u \notin published BY <1>2, <4>2 DEF SavedInv
      <4> QED BY <4>1, <4>2
    <3> QED BY <3>2, <3>3
  <2> HIDE DEF gone
  <2> QED BY <1>1, <1>2, <2>1, <2>2, <2>3, <2>4, <2>5, StoreSaves, SMTT(60)
<1>7. TakenInv'
  <2>1. DOMAIN taken' = {} BY <1>1
  <2> QED BY <1>1, <2>1 DEF TakenInv
<1> QED BY <1>4, <1>5, <1>6, <1>7 DEF IInv, StoreInv

------------------------------------------------------------------------------
(* Commands                                                                 *)

\* What a command is to save, its snapshots taken at once or when its tasks are drained.
LEMMA CommandStores ==
    ASSUME IInv, Unlocked, NEW ts \in SUBSET Trees, TakeWhenDrained(ts),
           trees' \in Seq(TreeSet), DOMAIN trees' = DOMAIN trees, raised' = raised, GraphInv',
           \A t \in Trees : trees'[t].root = trees[t].root,
           published' \subseteq published, published \ published' \subseteq ts,
           ts \subseteq published \/ published' = {},
           \A t \in published' : RefersTo(trees'[t].nodes) \subseteq RefersTo(trees[t].nodes),
           \A t \in published' \ ts : /\ Snapshot(trees'[t]) = Snapshot(trees[t])
                                      /\ Refs(t) \subseteq Refs(t)'
    PROVE  /\ StoreInv' /\ owed' \subseteq Trees /\ overtaken' \subseteq Trees
           /\ saved' \in [DOMAIN saved' -> Graphs] /\ DOMAIN saved' \subseteq Trees
<1>1. /\ TypeInv /\ SavedInv /\ GraphInv /\ owed = {} /\ DOMAIN taken = {}
      /\ published \subseteq Trees /\ DOMAIN saved \subseteq Trees
  BY TreesAre DEF IInv, StoreInv, TakenInv, Unlocked
<1>2. owed' = ts /\ saved' = saved BY DEF TakeWhenDrained
<1>3. \/ draining' = {} /\ taken' = Snapshots(ts \cap published') /\ overtaken' = overtaken \ ts
      \/ draining' # {} /\ taken' = taken /\ overtaken' = overtaken
  BY DEF TakeWhenDrained, Take
<1>4. \A t \in published' : WellFormed(trees'[t].root, trees'[t].nodes) BY DEF GraphInv
<1>5. \A t \in published', u \in DOMAIN saved :
         t # u => RefersTo(trees'[t].nodes) \cap RefersTo(saved[u]) = {}
  <2> TAKE t \in published', u \in DOMAIN saved
  <2> HAVE t # u
  <2>1. RefersTo(trees[t].nodes) \cap RefersTo(saved[u]) = {} BY <1>1 DEF SavedInv
  <2> QED BY <2>1
<1>6. \A t \in DOMAIN saved \ ts : t \in published' /\ RefersTo(saved[t]) \subseteq Refs(t)'
  <2> TAKE t \in DOMAIN saved \ ts
  <2>1. t \in published /\ RefersTo(saved[t]) \subseteq Refs(t) BY <1>1 DEF SavedInv
  <2>2. t \in published' BY <2>1
  <2> QED BY <2>1, <2>2
<1>7. \A t \in ts, u \in published' : t # u => trees'[t].root # trees'[u].root
  <2> TAKE t \in ts, u \in published'
  <2> HAVE t # u
  <2>1. t \in published /\ u \in published OBVIOUS
  <2>2. /\ WellFormed(trees[t].root, trees[t].nodes) /\ WellFormed(trees[u].root, trees[u].nodes)
        /\ Indexed(trees, published, index)
    BY <1>1, <2>1 DEF GraphInv
  <2>3. trees[t].root # trees[u].root BY <2>1, <2>2, RootsApart
  <2> QED BY <1>1, <2>1, <2>3
<1>8. ~raised' => \A t \in published' \ ts :
         t \in DOMAIN saved /\ Portrays(saved[t], trees'[t], t, overtaken')
  <2> SUFFICES ASSUME ~raised, NEW t \in published' \ ts
               PROVE  t \in DOMAIN saved /\ Portrays(saved[t], trees'[t], t, overtaken')
    OBVIOUS
  <2>1. t \in DOMAIN saved /\ Portrays(saved[t], trees[t], t, overtaken) BY <1>1 DEF SavedInv
  <2>2. Snapshot(trees'[t]) = Snapshot(trees[t]) /\ (t \in overtaken => t \in overtaken') BY <1>3
  <2> QED BY <2>1, <2>2 DEF Portrays
<1>9. \A t \in DOMAIN saved : WellFormed(trees'[t].root, saved[t]) BY <1>1 DEF SavedInv
<1>10. \A t, u \in DOMAIN saved : t # u => RefersTo(saved[t]) \cap RefersTo(saved[u]) = {}
  BY <1>1 DEF SavedInv
<1>11. SavedInv' BY <1>2, <1>5, <1>6, <1>7, <1>8, <1>9, <1>10 DEF SavedInv, Refs
<1>12. TakenInv'
  <2>1. CASE draining' = {}
    <3>1. /\ DOMAIN taken' = ts \cap published'
          /\ \A t \in ts \cap published' : taken'[t] = Snapshot(trees'[t])
      BY <1>3, <2>1 DEF Snapshots
    <3>2. ASSUME NEW t \in ts \cap published'
          PROVE  /\ taken'[t] \in Graphs /\ WellFormed(trees'[t].root, taken'[t])
                 /\ Portrays(taken'[t], trees'[t], t, overtaken')
      <4>1. trees'[t] \in TreeSet BY ElementOfSeq, LenProperties DEF Trees
      <4> QED BY <1>4, <3>1, <4>1, SnapshotOf DEF Portrays
    <3> QED BY <1>2, <3>1, <3>2 DEF TakenInv
  <2>2. CASE draining' # {} BY <1>1, <1>3, <2>2 DEF TakenInv
  <2> QED BY <2>1, <2>2
<1>13. overtaken' \subseteq Trees BY <1>1, <1>3 DEF TypeInv
<1> QED BY <1>1, <1>2, <1>11, <1>12, <1>13 DEF TypeInv, StoreInv

\* The types after a command.
LEMMA CommandTypes ==
    ASSUME TypeInv, trees' \in Seq(TreeSet), DOMAIN trees' = DOMAIN trees,
           slots' \in Seq(SlotSet), DOMAIN slots' = DOMAIN slots, UNCHANGED intakeVars,
           boundary' \in {boundary, boundary + 1}, raised' \in BOOLEAN,
           \A t \in Trees : \A n \in DOMAIN trees'[t].nodes :
              n \in DOMAIN trees[t].nodes /\ trees'[t].nodes[n].born = trees[t].nodes[n].born,
           published' \subseteq published, DOMAIN index' \subseteq DOMAIN index,
           draining' \subseteq DOMAIN slots, owed' \subseteq Trees, overtaken' \subseteq Trees,
           saved' \in [DOMAIN saved' -> Graphs], DOMAIN saved' \subseteq Trees
    PROVE  TypeInv'
<1>1. intake' = intake /\ deliveries' = deliveries BY DEF intakeVars
<1>2. boundary' \in Nat /\ boundary <= boundary' /\ boundary \in Nat BY DEF TypeInv
<1>3. \A n \in Nodes : intake'[n].at = "sending" =>
         intake'[n].status # 0 /\ intake'[n].token <= boundary'
  <2> TAKE n \in Nodes
  <2>1. intake[n].token \in Nat BY DEF TypeInv, TurnSet
  <2> QED BY <1>1, <1>2, <2>1 DEF TypeInv
<1>4. \A t \in Trees : \A n \in DOMAIN trees'[t].nodes : trees'[t].nodes[n].born <= boundary'
  <2> TAKE t \in Trees
  <2> TAKE n \in DOMAIN trees'[t].nodes
  <2>1. trees[t] \in TreeSet BY ElementOfSeq, LenProperties DEF TypeInv, Trees
  <2>2. trees[t].nodes[n] \in NodeSet BY <2>1, TreeFields
  <2>3. trees[t].nodes[n].born \in Nat BY <2>2 DEF NodeSet
  <2>4. trees[t].nodes[n].born <= boundary BY DEF TypeInv
  <2> QED BY <1>2, <2>3, <2>4
<1> QED BY <1>1, <1>2, <1>3, <1>4 DEF TypeInv, Trees

\* A command that raises, or one that leaves the graphs what they are.
LEMMA CommandKeeps ==
    ASSUME IInv, Unlocked, trees' \in Seq(TreeSet), DOMAIN trees' = DOMAIN trees,
           slots' \in Seq(SlotSet), DOMAIN slots' = DOMAIN slots, UNCHANGED intakeVars,
           boundary' \in {boundary, boundary + 1}, raised' \in BOOLEAN,
           draining' \subseteq DOMAIN slots, ClaimsInv',
           \A t \in Trees : Keeps(trees[t], trees'[t]),
           published' \subseteq published,
           \A t \in published \ published' : Pending(trees'[t]) = {} /\ Running(trees'[t]) = {},
           DOMAIN index' = {r \in DOMAIN index : index[r] \in published'},
           \A r \in DOMAIN index' : index'[r] = index[r],
           \/ raised'
           \/ boundary' = boundary
           \/ \A t \in published' : Pending(trees'[t]) = {} /\ Running(trees'[t]) = {},
           \/ /\ raised' /\ UNCHANGED <<taken, saved, overtaken>>
              /\ \/ owed' = owed /\ published' = published
                 \/ owed' = Trees
           \/ /\ raised' = raised
              /\ \E ts \in SUBSET Trees :
                    /\ TakeWhenDrained(ts) /\ published \ published' \subseteq ts
                    /\ ts \subseteq published \/ published' = {}
                    /\ \A t \in published' \ ts : trees'[t] = trees[t]
    PROVE  IInv'
<1>1. /\ TypeInv /\ SavedInv /\ GraphInv /\ owed = {} /\ DOMAIN taken = {}
      /\ published \subseteq Trees /\ DOMAIN saved \subseteq Trees
  BY TreesAre DEF IInv, StoreInv, TakenInv, Unlocked
<1>2. \A t \in Trees : /\ trees'[t].root = trees[t].root
                       /\ DOMAIN trees'[t].nodes = DOMAIN trees[t].nodes
                       /\ \A n \in DOMAIN trees[t].nodes :
                             trees'[t].nodes[n].born = trees[t].nodes[n].born
                       /\ RefersTo(trees'[t].nodes) = RefersTo(trees[t].nodes)
  <2>1. \A t \in Trees : SameShape(trees[t].nodes, trees'[t].nodes) BY SkeletonShape DEF Keeps
  <2> QED BY <2>1, ShapeSame DEF Keeps, Skeleton
<1>3. GraphInv'
  <2>1. \/ raised'
        \/ boundary' = boundary /\ raised' = raised
        \/ \A t \in published' : Pending(trees'[t]) = {} /\ Running(trees'[t]) = {}
    OBVIOUS
  <2> QED BY <1>1, <2>1, GraphKept
<1>4. /\ StoreInv' /\ owed' \subseteq Trees /\ overtaken' \subseteq Trees
      /\ saved' \in [DOMAIN saved' -> Graphs] /\ DOMAIN saved' \subseteq Trees
  <2>1. CASE raised' /\ UNCHANGED <<taken, saved, overtaken>> /\ owed' = owed /\ published' = published
    <3>1. \A t \in published : Refs(t)' = Refs(t)
      <4>1. \A r \in DOMAIN index : index[r] \in published BY <1>1 DEF GraphInv, Indexed
      <4>2. DOMAIN index' = DOMAIN index BY <2>1, <4>1
      <4> QED BY <4>2 DEF Refs
    <3>2. SavedInv' BY <1>1, <1>2, <2>1, <3>1 DEF SavedInv
    <3>3. TakenInv' BY <1>1, <2>1 DEF TakenInv
    <3> QED BY <1>1, <2>1, <3>2, <3>3 DEF TypeInv, StoreInv
  <2>2. CASE raised' /\ UNCHANGED <<taken, saved, overtaken>> /\ owed' = Trees
    <3>1. SavedInv' BY <1>1, <1>2, <2>2 DEF SavedInv
    <3>2. TakenInv' BY <1>1, <2>2 DEF TakenInv
    <3> QED BY <1>1, <2>2, <3>1, <3>2 DEF TypeInv, StoreInv
  <2>3. CASE /\ raised' = raised
             /\ \E ts \in SUBSET Trees :
                   /\ TakeWhenDrained(ts) /\ published \ published' \subseteq ts
                   /\ ts \subseteq published \/ published' = {}
                   /\ \A t \in published' \ ts : trees'[t] = trees[t]
    <3>1. PICK ts \in SUBSET Trees :
             /\ TakeWhenDrained(ts) /\ published \ published' \subseteq ts
             /\ ts \subseteq published \/ published' = {}
             /\ \A t \in published' \ ts : trees'[t] = trees[t]
      BY <2>3
    <3>2. \A t \in published' \ ts : /\ Snapshot(trees'[t]) = Snapshot(trees[t])
                                     /\ Refs(t) \subseteq Refs(t)'
      BY <3>1 DEF Refs
    <3>3. \A t \in published' : RefersTo(trees'[t].nodes) \subseteq RefersTo(trees[t].nodes)
      BY <1>1, <1>2
    <3>4. /\ raised' = raised /\ \A t \in Trees : trees'[t].root = trees[t].root
      BY <1>2, <2>3
    <3> QED BY <1>3, <3>1, <3>2, <3>3, <3>4, CommandStores
  <2> QED BY <2>1, <2>2, <2>3
<1>5. TypeInv'
  <2>1. \A t \in Trees : \A n \in DOMAIN trees'[t].nodes :
           n \in DOMAIN trees[t].nodes /\ trees'[t].nodes[n].born = trees[t].nodes[n].born
    BY <1>2
  <2>2. DOMAIN index' \subseteq DOMAIN index OBVIOUS
  <2> QED BY <1>1, <1>4, <2>1, <2>2, CommandTypes
<1> QED BY <1>3, <1>4, <1>5 DEF IInv

\* Where a cancellation raises, the node it is about failed, and nothing runs.
LEMMA RaisesQuiet ==
    ASSUME IInv, NEW t \in published, NEW those, Raises(trees[t], those)
    PROVE  Running(trees[t]) = {}
<1>1. PICK n \in those :
         /\ InState(trees[t], n, Runnable)
            \/ (n \in ActiveNode(trees[t]) /\ InState(trees[t], n, {"error"}))
         /\ trees[t].nodes[n].status = 0
  BY DEF Raises
<1>2. t \in Trees /\ WellFormed(trees[t].root, trees[t].nodes) BY TreesAre DEF IInv, GraphInv
<1>3. ~InState(trees[t], n, Runnable) BY <1>1, <1>2, WellFormedDef DEF InState
<1>4. n \in ActiveNode(trees[t]) /\ n \notin Running(trees[t])
  BY <1>1, <1>3 DEF InState, Running, Runnable
<1>5. ActiveNode(trees[t]) \subseteq {n} BY <1>4 DEF ActiveNode
<1> QED BY <1>2, <1>4, <1>5, TreesAre DEF QueueInv

\* Trees calm down, and nothing happens to their tasks.
LEMMA CalmKeepsClaims ==
    ASSUME IInv, DOMAIN trees' = DOMAIN trees, slots' = slots,
           \A t \in Trees : trees'[t] = trees[t] \/ Calms(trees[t], trees'[t], ActiveNode(trees[t]))
    PROVE  ClaimsInv'
<1>1. \A c \in DOMAIN slots : SlotInv(c) BY DEF IInv, ClaimsInv
<1>2. \A c \in DOMAIN slots :
         /\ slots'[c].tree = slots[c].tree /\ slots'[c].node = slots[c].node
         /\ slots'[c].at # "unlaunched"
         /\ slots'[c].at = "finished" <=> slots[c].at = "finished"
         /\ slots'[c].cancel # "none" =>
               /\ slots'[c].at # "finished"
               /\ slots[c].cancel # "none" \/ trees'[slots[c].tree].requested
         /\ slots'[c].at \in Written =>
               slots[c].at \in Written \/ Running(trees'[slots[c].tree]) = {}
  BY <1>1 DEF SlotInv
<1> QED BY <1>2, ClaimsKept DEF IInv

\* processor.cancel, for the claims hit
Cancelling(hit, reason) ==
    [c \in DOMAIN slots |-> IF c \in hit THEN [slots[c] EXCEPT !.cancel = reason] ELSE slots[c]]

\* It changes which cancellation is to be delivered, and nothing else.
LEMMA CancellingSlots ==
    ASSUME slots \in Seq(SlotSet), NEW hit, NEW reason \in Reasons
    PROVE  /\ Cancelling(hit, reason) \in Seq(SlotSet)
           /\ DOMAIN Cancelling(hit, reason) = DOMAIN slots
           /\ \A c \in DOMAIN slots :
                 LET new == Cancelling(hit, reason)[c] IN
                 /\ new.tree = slots[c].tree /\ new.node = slots[c].node /\ new.at = slots[c].at
                 /\ new.cancel # "none" => slots[c].cancel # "none" \/ c \in hit
<1>1. Len(slots) \in Nat /\ DOMAIN slots = 1 .. Len(slots) /\ \A c \in DOMAIN slots : slots[c] \in SlotSet
  BY ElementOfSeq, LenProperties
<1>2. ASSUME NEW c \in DOMAIN slots
      PROVE  LET new == Cancelling(hit, reason)[c] IN
             /\ new \in SlotSet
             /\ new.tree = slots[c].tree /\ new.node = slots[c].node /\ new.at = slots[c].at
             /\ new.cancel # "none" => slots[c].cancel # "none" \/ c \in hit
  BY <1>1 DEF Cancelling, SlotSet
<1>3. Cancelling(hit, reason) \in [1 .. Len(slots) -> SlotSet] BY <1>1, <1>2 DEF Cancelling
<1>4. Cancelling(hit, reason) \in Seq(SlotSet) BY <1>1, <1>3, FunctionIsSeq
<1>5. DOMAIN Cancelling(hit, reason) = DOMAIN slots BY DEF Cancelling
<1> QED BY <1>2, <1>4, <1>5

\* The claims of trees are cancelled with their nodes.
LEMMA CancelKeepsClaims ==
    ASSUME IInv, DOMAIN trees' = DOMAIN trees, NEW ts, NEW those, NEW reason \in Reasons,
           slots' = Cancelling(Hit(ts, those), reason),
           \A t \in Trees : trees'[t] = trees[t] \/ Calms(trees[t], trees'[t], ActiveNode(trees[t])),
           \A t \in Trees : t \in ts /\ ActiveNode(trees[t]) \cap those # {} => trees'[t].requested
    PROVE  ClaimsInv' /\ slots' \in Seq(SlotSet) /\ DOMAIN slots' = DOMAIN slots
<1>1. /\ slots' \in Seq(SlotSet) /\ DOMAIN slots' = DOMAIN slots
      /\ \A c \in DOMAIN slots :
            /\ slots'[c].tree = slots[c].tree /\ slots'[c].node = slots[c].node
            /\ slots'[c].at = slots[c].at
            /\ slots'[c].cancel # "none" => slots[c].cancel # "none" \/ c \in Hit(ts, those)
  BY CancellingSlots DEF IInv, TypeInv
<1>2. \A c \in Hit(ts, those) : slots[c].at # "finished" /\ trees'[slots[c].tree].requested
  <2> TAKE c \in Hit(ts, those)
  <2>1. /\ c \in DOMAIN slots /\ slots[c].tree \in ts /\ trees[slots[c].tree].active = c
        /\ slots[c].node \in those /\ slots[c].at # "finished"
    BY DEF Hit, Cancellable
  <2>2. slots[c].tree \in Trees /\ c # 0 BY <2>1, TreesAre
  <2>3. slots[c].node \in ActiveNode(trees[slots[c].tree]) BY <2>1, <2>2 DEF ActiveNode
  <2> QED BY <2>1, <2>2, <2>3
<1>3. \A c \in DOMAIN slots : SlotInv(c) BY DEF IInv, ClaimsInv
<1>4. \A c \in DOMAIN slots :
         /\ slots'[c].tree = slots[c].tree /\ slots'[c].node = slots[c].node
         /\ slots'[c].at # "unlaunched"
         /\ slots'[c].at = "finished" <=> slots[c].at = "finished"
         /\ slots'[c].cancel # "none" =>
               /\ slots'[c].at # "finished"
               /\ slots[c].cancel # "none" \/ trees'[slots[c].tree].requested
         /\ slots'[c].at \in Written =>
               slots[c].at \in Written \/ Running(trees'[slots[c].tree]) = {}
  <2> TAKE c \in DOMAIN slots
  <2>1. slots[c].at # "unlaunched" /\ (slots[c].cancel # "none" => slots[c].at # "finished")
    BY <1>3 DEF SlotInv
  <2> QED BY <1>1, <1>2, <2>1
<1>5. ClaimsInv' BY <1>1, <1>4, ClaimsKept DEF IInv
<1> QED BY <1>1, <1>5

\* What replacing one tree does to the trees.
LEMMA ReplaceTrees ==
    ASSUME IInv, NEW t \in Trees, NEW tr \in TreeSet, Replace(t, tr)
    PROVE  /\ trees' \in Seq(TreeSet) /\ DOMAIN trees' = DOMAIN trees /\ trees'[t] = tr
           /\ \A u \in Trees \ {t} : trees'[u] = trees[u]
<1>1. /\ \A u \in Trees : trees[u] \in TreeSet
      /\ Len(trees) \in Nat /\ DOMAIN trees = 1 .. Len(trees)
  BY TreesAre
<1>2. trees' = [trees EXCEPT ![t] = tr] BY DEF Replace
<1>3. trees \in Seq(TreeSet) BY DEF IInv, TypeInv
<1>4. trees' = [u \in 1 .. Len(trees) |-> IF u = t THEN tr ELSE trees[u]]
  BY <1>1, <1>2, <1>3 DEF Trees
<1>5. trees' \in [1 .. Len(trees) -> TreeSet] BY <1>1, <1>4 DEF Trees
<1>6. trees' \in Seq(TreeSet) BY <1>1, <1>5, FunctionIsSeq
<1> QED BY <1>1, <1>4, <1>6 DEF Trees

\* A tree that changes for another.
LEMMA KeepsItself == ASSUME NEW tr PROVE Keeps(tr, tr)
BY DEF Keeps, Skeleton

\* A command on one tree that raises.
LEMMA RaisingKeeps ==
    ASSUME IInv, Unlocked, NEW t \in published, NEW those, Raises(trees[t], those), NEW part,
           Replace(t, Interrupted(trees[t], part)), raised' = TRUE, NothingSaved,
           UNCHANGED intakeVars, index' = index, boundary' = boundary, published' = published,
           slots' = slots, draining' = draining
    PROVE  IInv'
<1> DEFINE new == Interrupted(trees[t], part)
<1>1. /\ t \in Trees /\ trees[t] \in TreeSet /\ QueueInv(trees[t], ActiveNode(trees[t]))
      /\ slots \in Seq(SlotSet) /\ draining \subseteq DOMAIN slots
      /\ \A q \in DOMAIN index : index[q] \in published
  BY TreesAre DEF IInv, TypeInv, GraphInv, Indexed
<1>2. /\ published \ published' = {} /\ DOMAIN index' = {q \in DOMAIN index : index[q] \in published'}
      /\ \A q \in DOMAIN index' : index'[q] = index[q]
  BY <1>1
<1>3. Running(trees[t]) = {} BY RaisesQuiet
<1>4. SettlesTree(trees[t], new, ActiveNode(trees[t])) BY <1>1, <1>3, InterruptedTree
<1>5. Replace(t, new) OBVIOUS
<1> HIDE DEF new
<1>6. new \in TreeSet /\ Keeps(trees[t], new) BY <1>4 DEF SettlesTree, Keeps
<1>7. /\ trees' \in Seq(TreeSet) /\ DOMAIN trees' = DOMAIN trees /\ trees'[t] = new
      /\ \A u \in Trees \ {t} : trees'[u] = trees[u]
  BY <1>1, <1>5, <1>6, ReplaceTrees
<1>8. \A u \in Trees : Keeps(trees[u], trees'[u]) BY <1>6, <1>7, KeepsItself
<1>9. \A u \in Trees : trees'[u] = trees[u] \/ Calms(trees[u], trees'[u], ActiveNode(trees[u]))
  BY <1>4, <1>7, SettlesCalms
<1>10. ClaimsInv' BY <1>7, <1>9, CalmKeepsClaims
<1>11. owed' = owed /\ UNCHANGED <<taken, saved, overtaken>> BY DEF NothingSaved
<1> QED BY <1>1, <1>2, <1>7, <1>8, <1>10, <1>11, CommandKeeps

\* /stop as a reply
LEMMA StopReplyKeeps ==
    ASSUME IInv, NEW r \in DOMAIN index, StopReply(r)
    PROVE  IInv'
<1> DEFINE t == index[r]
           those == {r.node}
<1>1. /\ Unlocked /\ UNCHANGED intakeVars /\ index' = index /\ boundary' = boundary
      /\ published' = published
  BY DEF StopReply, Command
<1>2. /\ t \in published /\ t \in Trees /\ trees[t] \in TreeSet
      /\ QueueInv(trees[t], ActiveNode(trees[t]))
      /\ slots \in Seq(SlotSet) /\ raised \in BOOLEAN
      /\ \A q \in DOMAIN index : index[q] \in published
  BY TreesAre DEF IInv, TypeInv, GraphInv, Indexed
<1>3. /\ published \ published' = {} /\ DOMAIN index' = {q \in DOMAIN index : index[q] \in published'}
      /\ \A q \in DOMAIN index' : index'[q] = index[q]
  BY <1>1, <1>2
<1>4. CASE Raises(trees[t], those)
  <2>1. /\ raised' = TRUE /\ Replace(t, Interrupted(trees[t], {})) /\ slots' = slots
        /\ draining' = draining /\ NothingSaved
    BY <1>4 DEF StopReply
  <2> HIDE DEF t, those
  <2> QED BY <1>1, <1>2, <1>4, <2>1, RaisingKeeps
<1>5. CASE ~Raises(trees[t], those)
  <2> DEFINE new == Cancelled(trees[t], those)
  <2>1. /\ Replace(t, new) /\ CancelTasks(Hit({t}, those), "stop") /\ raised' = raised
        /\ TakeWhenDrained({t})
    BY <1>5 DEF StopReply
  <2>2. /\ SettlesTree(trees[t], new, ActiveNode(trees[t]))
        /\ new.requested = (trees[t].requested \/ ActiveNode(trees[t]) \cap those # {})
    BY <1>2, CancelledTree
  <2> HIDE DEF new
  <2>3. new \in TreeSet /\ Keeps(trees[t], new) BY <2>2 DEF SettlesTree, Keeps
  <2>4. /\ trees' \in Seq(TreeSet) /\ DOMAIN trees' = DOMAIN trees /\ trees'[t] = new
        /\ \A u \in Trees \ {t} : trees'[u] = trees[u]
    BY <1>2, <2>1, <2>3, ReplaceTrees
  <2>5. \A u \in Trees : Keeps(trees[u], trees'[u]) BY <2>3, <2>4, KeepsItself
  <2>6. \A u \in Trees : trees'[u] = trees[u] \/ Calms(trees[u], trees'[u], ActiveNode(trees[u]))
    BY <2>2, <2>4, SettlesCalms
  <2>7. slots' = Cancelling(Hit({t}, those), "stop") /\ draining' = Hit({t}, those)
    BY <2>1 DEF CancelTasks, Cancelling
  <2>8. \A u \in Trees : u \in {t} /\ ActiveNode(trees[u]) \cap those # {} => trees'[u].requested
    BY <2>2, <2>4
  <2>9. ClaimsInv' /\ slots' \in Seq(SlotSet) /\ DOMAIN slots' = DOMAIN slots
    <3>1. "stop" \in Reasons BY DEF Reasons
    <3> HIDE DEF those, t
    <3> QED BY <2>4, <2>6, <2>7, <2>8, <3>1, CancelKeepsClaims
  <2>10. draining' \subseteq DOMAIN slots BY <2>7 DEF Hit
  <2>11. \E ts \in SUBSET Trees :
            /\ TakeWhenDrained(ts) /\ published \ published' \subseteq ts
            /\ ts \subseteq published \/ published' = {}
            /\ \A u \in published' \ ts : trees'[u] = trees[u]
    <3>1. {t} \in SUBSET Trees /\ {t} \subseteq published BY <1>2
    <3>2. \A u \in published' \ {t} : trees'[u] = trees[u] BY <1>1, <2>4, TreesAre
    <3> QED BY <1>3, <2>1, <3>1, <3>2
  <2> HIDE DEF t, those
  <2> QED BY <1>1, <1>2, <1>3, <2>1, <2>4, <2>5, <2>9, <2>10, <2>11, CommandKeeps
<1> QED BY <1>4, <1>5

\* A command over all trees gets through all of them, or one of them raises.
LEMMA ReachedOrBlocked ==
    ASSUME IInv
    PROVE  /\ Reached \subseteq published
           /\ \A t \in Blocked : t \in published /\ t \notin Reached /\ Running(trees[t]) = {}
           /\ Blocked = {} => Reached = published
<1>1. published \subseteq Nat BY TreesAre DEF Trees
<1>2. Reached \subseteq published /\ Blocked \subseteq published \ Reached BY DEF Reached, Blocked
<1>3. ASSUME NEW t \in Blocked PROVE Running(trees[t]) = {}
  <2>1. t \in published \ Reached /\ \A u \in published \ Reached : t <= u BY DEF Blocked
  <2>2. PICK u \in published : Raises(trees[u], Nodes) /\ ~(t < u) BY <2>1 DEF Reached
  <2>3. u \notin Reached
    <3>1. ~(u < u) BY <1>1, <2>2
    <3> QED BY <2>2, <3>1 DEF Reached
  <2>4. t <= u /\ t \in Nat /\ u \in Nat BY <1>1, <2>1, <2>2, <2>3
  <2>5. t = u BY <2>2, <2>4
  <2> QED BY <2>2, <2>5, RaisesQuiet
<1>4. ASSUME Blocked = {} PROVE Reached = published
  <2> DEFINE left == published \ Reached
  <2>1. SUFFICES ASSUME left # {} PROVE FALSE BY <1>2
  <2>2. left \subseteq Nat BY <1>1
  <2>3. PICK x \in left : \A y \in left : <<y, x>> \notin OpToRel(<, Nat)
    BY <2>1, <2>2, NatLessThanWellFounded, WFMin
  <2> HIDE DEF left
  <2>4. \A y \in left : x <= y
    <3> TAKE y \in left
    <3>1. x \in Nat /\ y \in Nat BY <2>2
    <3>2. ~(y < x) BY <2>3, <3>1 DEF OpToRel
    <3> QED BY <3>1, <3>2
  <2> QED BY <1>4, <2>4 DEF Blocked, left
<1> QED BY <1>2, <1>3, <1>4

\* cancel_all on every tree
LEMMA EverythingCancelled ==
    ASSUME IInv, NEW reason \in Reasons, CancelEverything(reason)
    PROVE  /\ trees' \in Seq(TreeSet) /\ DOMAIN trees' = DOMAIN trees
           /\ \A t \in Trees : Keeps(trees[t], trees'[t])
           /\ \A t \in Reached : Pending(trees'[t]) = {} /\ Running(trees'[t]) = {}
           /\ ClaimsInv' /\ slots' \in Seq(SlotSet) /\ DOMAIN slots' = DOMAIN slots
           /\ draining' \subseteq DOMAIN slots /\ raised' \in BOOLEAN
           /\ Blocked = {} => raised' = raised
           /\ Blocked # {} => raised' /\ draining' = {}
<1>1. /\ trees' = [t \in DOMAIN trees |->
                      IF t \in Reached THEN Cancelled(trees[t], Nodes)
                      ELSE IF t \in Blocked THEN Interrupted(trees[t], {}) ELSE trees[t]]
      /\ slots' = Cancelling(Hit(Reached, Nodes), reason)
      /\ draining' = IF Blocked = {} THEN Hit(Reached, Nodes) ELSE {}
      /\ raised' = (raised \/ Blocked # {})
  BY DEF CancelEverything, AllCancelled, Cancelling
<1>2. /\ \A t \in Trees : trees[t] \in TreeSet /\ QueueInv(trees[t], ActiveNode(trees[t]))
      /\ Len(trees) \in Nat /\ DOMAIN trees = 1 .. Len(trees) /\ raised \in BOOLEAN
  BY TreesAre DEF IInv, TypeInv
<1>3. ASSUME NEW t \in Reached
      PROVE  /\ t \in Trees /\ SettlesTree(trees[t], trees'[t], ActiveNode(trees[t]))
             /\ Pending(trees'[t]) = {} /\ Running(trees'[t]) = {}
             /\ ActiveNode(trees[t]) \cap Nodes # {} => trees'[t].requested
  <2>1. t \in Trees BY ReachedOrBlocked, TreesAre
  <2>2. trees'[t] = Cancelled(trees[t], Nodes) BY <1>1, <2>1 DEF Trees
  <2>3. Pending(trees[t]) \subseteq Nodes /\ Running(trees[t]) \subseteq Nodes
    BY <1>2, <2>1, TreeFields DEF Pending, Running
  <2>4. /\ SettlesTree(trees[t], trees'[t], ActiveNode(trees[t]))
        /\ Pending(trees'[t]) = Pending(trees[t]) \ Nodes
        /\ Running(trees'[t]) = Running(trees[t]) \ Nodes
        /\ trees'[t].requested = (trees[t].requested \/ ActiveNode(trees[t]) \cap Nodes # {})
    BY <1>2, <2>1, <2>2, CancelledTree
  <2> QED BY <2>1, <2>3, <2>4
<1>4. ASSUME NEW t \in Trees, t \notin Reached
      PROVE  trees'[t] = trees[t] \/ SettlesTree(trees[t], trees'[t], ActiveNode(trees[t]))
  <2>1. CASE t \in Blocked
    <3>1. trees'[t] = Interrupted(trees[t], {}) BY <1>1, <1>4, <2>1 DEF Trees
    <3>2. Running(trees[t]) = {} BY <2>1, ReachedOrBlocked
    <3> QED BY <1>2, <3>1, <3>2, InterruptedTree
  <2>2. CASE t \notin Blocked BY <1>1, <1>4, <2>2 DEF Trees
  <2> QED BY <2>1, <2>2
<1>5. \A t \in Trees : Keeps(trees[t], trees'[t]) BY <1>3, <1>4, KeepsItself DEF SettlesTree
<1>6. \A t \in Trees : trees'[t] = trees[t] \/ Calms(trees[t], trees'[t], ActiveNode(trees[t]))
  BY <1>3, <1>4, SettlesCalms
<1>7. DOMAIN trees' = DOMAIN trees BY <1>1
<1>8. trees' \in Seq(TreeSet)
  <2>1. \A t \in DOMAIN trees : trees'[t] \in TreeSet BY <1>2, <1>6 DEF Calms, Trees
  <2>2. trees' = [t \in 1 .. Len(trees) |-> trees'[t]] BY <1>1, <1>2
  <2>3. trees' \in [1 .. Len(trees) -> TreeSet] BY <1>2, <2>1, <2>2
  <2> QED BY <1>2, <2>3, FunctionIsSeq
<1>9. \A t \in Trees : t \in Reached /\ ActiveNode(trees[t]) \cap Nodes # {} => trees'[t].requested
  BY <1>3
<1>10. ClaimsInv' /\ slots' \in Seq(SlotSet) /\ DOMAIN slots' = DOMAIN slots
  BY <1>1, <1>6, <1>7, <1>9, CancelKeepsClaims
<1>11. draining' \subseteq DOMAIN slots BY <1>1 DEF Hit
<1> QED BY <1>1, <1>2, <1>3, <1>5, <1>7, <1>8, <1>10, <1>11

\* /stop
LEMMA StopAllKeeps ==
    ASSUME IInv, StopAll
    PROVE  IInv'
<1>1. /\ Unlocked /\ UNCHANGED intakeVars /\ index' = index /\ boundary' = boundary + 1
      /\ published' = published /\ CancelEverything("stop")
      /\ Blocked = {} => TakeWhenDrained(published)
      /\ Blocked # {} => owed' = owed /\ UNCHANGED <<taken, saved, overtaken>>
  BY DEF StopAll, Command, NothingSaved
<1>2. "stop" \in Reasons BY DEF Reasons
<1>3. \A q \in DOMAIN index : index[q] \in published BY DEF IInv, GraphInv, Indexed
<1>4. /\ published \ published' = {} /\ DOMAIN index' = {q \in DOMAIN index : index[q] \in published'}
      /\ \A q \in DOMAIN index' : index'[q] = index[q]
  BY <1>1, <1>3
<1>5. /\ trees' \in Seq(TreeSet) /\ DOMAIN trees' = DOMAIN trees
      /\ \A t \in Trees : Keeps(trees[t], trees'[t])
      /\ \A t \in Reached : Pending(trees'[t]) = {} /\ Running(trees'[t]) = {}
      /\ ClaimsInv' /\ slots' \in Seq(SlotSet) /\ DOMAIN slots' = DOMAIN slots
      /\ draining' \subseteq DOMAIN slots /\ raised' \in BOOLEAN
      /\ Blocked = {} => raised' = raised
      /\ Blocked # {} => raised'
  BY <1>1, <1>2, EverythingCancelled
<1>6. CASE Blocked # {} BY <1>1, <1>4, <1>5, <1>6, CommandKeeps
<1>7. CASE Blocked = {}
  <2>1. \A t \in published' : Pending(trees'[t]) = {} /\ Running(trees'[t]) = {}
    BY <1>1, <1>5, <1>7, ReachedOrBlocked
  <2>2. \E ts \in SUBSET Trees :
           /\ TakeWhenDrained(ts) /\ published \ published' \subseteq ts
           /\ ts \subseteq published \/ published' = {}
           /\ \A u \in published' \ ts : trees'[u] = trees[u]
    <3>1. published \in SUBSET Trees BY TreesAre
    <3> QED BY <1>1, <1>7, <3>1
  <2> QED BY <1>1, <1>4, <1>5, <1>7, <2>1, <2>2, CommandKeeps
<1> QED BY <1>6, <1>7

\* /clear
LEMMA ClearChatKeeps ==
    ASSUME IInv, ClearChat
    PROVE  IInv'
<1>1. /\ Unlocked /\ UNCHANGED intakeVars /\ boundary' = boundary + 1
      /\ index' = [r \in {q \in DOMAIN index : index[q] \notin Reached} |-> index[r]]
      /\ published' = published \ Reached /\ CancelEverything("clear")
      /\ Blocked = {} => TakeWhenDrained(DOMAIN trees)
      /\ Blocked # {} => owed' = Trees /\ UNCHANGED <<taken, saved, overtaken>>
  BY DEF ClearChat, Command, Trees
<1>2. "clear" \in Reasons BY DEF Reasons
<1>3. \A q \in DOMAIN index : index[q] \in published BY DEF IInv, GraphInv, Indexed
<1>4. /\ published' \subseteq published /\ published \ published' \subseteq Reached
      /\ DOMAIN index' = {q \in DOMAIN index : index[q] \in published'}
      /\ \A q \in DOMAIN index' : index'[q] = index[q]
  BY <1>1, <1>3
<1>5. /\ trees' \in Seq(TreeSet) /\ DOMAIN trees' = DOMAIN trees
      /\ \A t \in Trees : Keeps(trees[t], trees'[t])
      /\ \A t \in Reached : Pending(trees'[t]) = {} /\ Running(trees'[t]) = {}
      /\ ClaimsInv' /\ slots' \in Seq(SlotSet) /\ DOMAIN slots' = DOMAIN slots
      /\ draining' \subseteq DOMAIN slots /\ raised' \in BOOLEAN
      /\ Blocked = {} => raised' = raised
      /\ Blocked # {} => raised'
  BY <1>1, <1>2, EverythingCancelled
<1>6. \A t \in published \ published' : Pending(trees'[t]) = {} /\ Running(trees'[t]) = {}
  BY <1>4, <1>5
<1>7. CASE Blocked # {} BY <1>1, <1>4, <1>5, <1>6, <1>7, CommandKeeps
<1>8. CASE Blocked = {}
  <2>1. published' = {} BY <1>1, <1>8, ReachedOrBlocked
  <2>2. \E ts \in SUBSET Trees :
           /\ TakeWhenDrained(ts) /\ published \ published' \subseteq ts
           /\ ts \subseteq published \/ published' = {}
           /\ \A u \in published' \ ts : trees'[u] = trees[u]
    <3>1. Trees \in SUBSET Trees /\ published \ published' \subseteq Trees BY TreesAre
    <3>2. TakeWhenDrained(Trees) BY <1>1, <1>8 DEF Trees
    <3> QED BY <2>1, <3>1, <3>2
  <2> QED BY <1>1, <1>4, <1>5, <1>6, <1>8, <2>1, <2>2, CommandKeeps
<1> QED BY <1>7, <1>8

\* /clear as a reply, its nodes cancelled: what is left of the tree.
LEMMA ClearedTree ==
    ASSUME IInv, NEW r \in DOMAIN index
    PROVE  LET tr == trees[index[r]]
               those == Gone(tr, r) \cup {r.node}
               new == Pruned(Cancelled(tr, those), r)
           IN /\ Calms(tr, new, ActiveNode(tr))
              /\ ActiveNode(tr) \cap those # {} => new.requested
              /\ \A n \in DOMAIN new.nodes :
                    /\ n \in DOMAIN tr.nodes /\ new.nodes[n].born = tr.nodes[n].born
                    /\ new.nodes[n].state \in Runnable => tr.nodes[n].state \in Runnable
              /\ RefersTo(new.nodes) = RefersTo(tr.nodes) \ ReplySubtree(tr, r)
              /\ ReplySubtree(tr, r) \subseteq RefersTo(tr.nodes)
              /\ tr.root \notin Gone(tr, r) => WellFormed(tr.root, new.nodes)
              /\ tr.root \in Gone(tr, r) => DOMAIN new.nodes = {}
<1> DEFINE t == index[r]
           tr == trees[t]
           those == Gone(tr, r) \cup {r.node}
           new == Pruned(Cancelled(tr, those), r)
<1>1. /\ t \in published /\ r \in References /\ r \in RefersTo(tr.nodes)
      /\ tr \in TreeSet /\ QueueInv(tr, ActiveNode(tr)) /\ WellFormed(tr.root, tr.nodes)
  BY TreesAre DEF IInv, TypeInv, GraphInv, Indexed
<1>2. ReplySubtree(tr, r) \subseteq RefersTo(tr.nodes)
  <2>1. Gone(tr, r) \subseteq DOMAIN tr.nodes BY DEF Gone
  <2> QED BY <1>1, <2>1, ReplySubtreeDef, RefersToMessages
<1> HIDE DEF tr
<1>3. /\ new \in TreeSet /\ new.root = tr.root /\ new.active = tr.active
      /\ (tr.requested => new.requested)
      /\ (ActiveNode(tr) \cap those # {} => new.requested)
      /\ QueueInv(new, ActiveNode(tr))
      /\ DOMAIN new.nodes = DOMAIN tr.nodes \ Gone(tr, r)
      /\ \A n \in DOMAIN new.nodes :
            /\ new.nodes[n].parent = tr.nodes[n].parent /\ new.nodes[n].born = tr.nodes[n].born
            /\ new.nodes[n].state \in Runnable => tr.nodes[n].state \in Runnable
      /\ Running(new) \subseteq Running(tr)
      /\ RefersTo(new.nodes) = RefersTo(tr.nodes) \ ReplySubtree(tr, r)
      /\ tr.root \notin Gone(tr, r) => WellFormed(tr.root, new.nodes)
      /\ tr.root \in Gone(tr, r) => DOMAIN new.nodes = {}
  BY <1>1, PrunedTree
<1> HIDE DEF new
<1>4. Calms(tr, new, ActiveNode(tr)) BY <1>3 DEF Calms
<1> QED BY <1>2, <1>3, <1>4 DEF tr, new

\* The graphs after that.
LEMMA ClearedGraphs ==
    ASSUME IInv, NEW t \in published, NEW gone \in SUBSET RefersTo(trees[t].nodes), NEW removed,
           DOMAIN trees' = DOMAIN trees, trees'[t] \in TreeSet, trees'[t].root = trees[t].root,
           \A u \in Trees \ {t} : trees'[u] = trees[u], boundary' = boundary, raised' = raised,
           \A n \in DOMAIN trees'[t].nodes :
              /\ n \in DOMAIN trees[t].nodes /\ trees'[t].nodes[n].born = trees[t].nodes[n].born
              /\ trees'[t].nodes[n].state \in Runnable => trees[t].nodes[n].state \in Runnable,
           RefersTo(trees'[t].nodes) = RefersTo(trees[t].nodes) \ gone,
           removed \in BOOLEAN,
           removed => /\ DOMAIN trees'[t].nodes = {} /\ published' = published \ {t}
                      /\ index' = [q \in {p \in DOMAIN index : index[p] # t} |-> index[q]],
           ~removed => /\ WellFormed(trees[t].root, trees'[t].nodes) /\ published' = published
                       /\ index' = [q \in DOMAIN index \ gone |-> index[q]]
    PROVE  GraphInv' /\ \A u \in published' \ {t} : Refs(u) \subseteq Refs(u)'
<1>1. published \subseteq Trees /\ GraphInv /\ Indexed(trees, published, index)
  BY TreesAre DEF IInv, GraphInv
<1>2. \A u \in published' : WellFormed(trees'[u].root, trees'[u].nodes)
  <2> TAKE u \in published'
  <2>1. CASE u = t BY <2>1
  <2>2. CASE u # t
    <3>1. u \in published BY <2>2
    <3>2. WellFormed(trees[u].root, trees[u].nodes) /\ trees'[u] = trees[u]
      BY <1>1, <2>2, <3>1 DEF GraphInv
    <3> QED BY <3>2
  <2> QED BY <2>1, <2>2
<1>3. \A u \in Trees \ published' : Pending(trees'[u]) = {} /\ Running(trees'[u]) = {}
  <2> TAKE u \in Trees \ published'
  <2>1. CASE u = t
    <3>1. removed BY <2>1
    <3> QED BY <2>1, <3>1 DEF Pending, Running
  <2>2. CASE u # t
    <3>1. u \notin published /\ trees'[u] = trees[u] BY <2>2
    <3> QED BY <1>1, <3>1 DEF GraphInv
  <2> QED BY <2>1, <2>2
<1>4. \A r \in gone : r \in DOMAIN index /\ index[r] = t BY <1>1 DEF Indexed
<1>5. /\ DOMAIN index' \subseteq DOMAIN index /\ \A r \in DOMAIN index' : index'[r] = index[r]
      /\ \A r \in DOMAIN index : index[r] # t => r \in DOMAIN index'
      /\ published \ published' \subseteq {t} /\ published' \subseteq published
  BY <1>4
<1>6. Indexed(trees', published', index')
  <2>1. ASSUME NEW r \in DOMAIN index'
        PROVE  index'[r] \in published' /\ r \in RefersTo(trees'[index'[r]].nodes)
    <3>1. /\ index'[r] = index[r] /\ index[r] \in published
          /\ r \in RefersTo(trees[index[r]].nodes)
      BY <1>1, <1>5 DEF Indexed
    <3>2. CASE index[r] # t BY <1>1, <1>5, <3>1, <3>2
    <3>3. CASE index[r] = t
      <4>1. ~removed /\ r \notin gone BY <3>3
      <4> QED BY <3>1, <3>3, <4>1
    <3> QED BY <3>2, <3>3
  <2>2. ASSUME NEW u \in published', NEW r \in RefersTo(trees'[u].nodes)
        PROVE  r \in DOMAIN index' /\ index'[r] = u
    <3>1. CASE u # t
      <4>1. u \in published /\ trees'[u] = trees[u] BY <1>1, <1>5, <3>1
      <4>2. r \in DOMAIN index /\ index[r] = u BY <1>1, <4>1 DEF Indexed
      <4> QED BY <1>5, <3>1, <4>2
    <3>2. CASE u = t
      <4>1. ~removed /\ r \in RefersTo(trees[t].nodes) /\ r \notin gone BY <3>2
      <4>2. r \in DOMAIN index /\ index[r] = t BY <1>1, <4>1 DEF Indexed
      <4> QED BY <3>2, <4>1, <4>2
    <3> QED BY <3>1, <3>2
  <2> QED BY <2>1, <2>2 DEF Indexed
<1>7. NothingFromBefore'
  <2>1. CASE raised BY <2>1 DEF NothingFromBefore
  <2>2. CASE ~raised
    <3>1. StopReachesAll BY <1>1, <2>2 DEF GraphInv, NothingFromBefore
    <3>2. \A u \in published' : \A n \in DOMAIN trees'[u].nodes :
             trees'[u].nodes[n].state \in Runnable => trees'[u].nodes[n].born = boundary
      <4> TAKE u \in published'
      <4>1. u \in published BY <1>5
      <4>2. CASE u # t BY <1>1, <3>1, <4>1, <4>2 DEF StopReachesAll
      <4>3. CASE u = t BY <3>1, <4>1, <4>3 DEF StopReachesAll
      <4> QED BY <4>2, <4>3
    <3> QED BY <3>2 DEF NothingFromBefore, StopReachesAll
  <2> QED BY <2>1, <2>2
<1>8. GraphInv' BY <1>2, <1>3, <1>6, <1>7 DEF GraphInv, Trees
<1> QED BY <1>5, <1>8 DEF Refs

\* /clear as a reply
LEMMA ClearReplyKeeps ==
    ASSUME IInv, NEW r \in DOMAIN index, ClearReply(r)
    PROVE  IInv'
<1> DEFINE t == index[r]
           gone == ReplySubtree(trees[t], r)
           removed == Gone(trees[t], r)
           those == removed \cup {r.node}
<1>1. /\ Unlocked /\ UNCHANGED intakeVars /\ boundary' = boundary
  BY DEF ClearReply, Command
<1>2. /\ t \in published /\ t \in Trees /\ slots \in Seq(SlotSet) /\ raised \in BOOLEAN
  BY TreesAre DEF IInv, TypeInv, GraphInv, Indexed
<1>3. CASE Raises(trees[t], those)
  <2>1. /\ raised' = TRUE /\ slots' = slots /\ draining' = draining /\ NothingSaved
        /\ published' = published /\ index' = index
        /\ \E part \in SUBSET (those \ ActiveNode(trees[t])) :
              Replace(t, Interrupted(trees[t], part))
    BY <1>3 DEF ClearReply, Gone
  <2>2. PICK part : Replace(t, Interrupted(trees[t], part)) BY <2>1
  <2> HIDE DEF t, those
  <2> QED BY <1>1, <1>2, <1>3, <2>1, <2>2, RaisingKeeps
<1>4. CASE ~Raises(trees[t], those)
  <2> DEFINE new == Pruned(Cancelled(trees[t], those), r)
             rooted == trees[t].root \in removed
  <2>1. /\ Replace(t, new) /\ CancelTasks(Hit({t}, those), "clear") /\ raised' = raised
        /\ TakeWhenDrained({t})
        /\ rooted => /\ published' = published \ {t}
                     /\ index' = [q \in {p \in DOMAIN index : index[p] # t} |-> index[q]]
        /\ ~rooted => /\ index' = [q \in DOMAIN index \ gone |-> index[q]]
                      /\ published' = published
    BY <1>4 DEF ClearReply, Gone
  <2>2. /\ Calms(trees[t], new, ActiveNode(trees[t]))
        /\ ActiveNode(trees[t]) \cap those # {} => new.requested
        /\ \A n \in DOMAIN new.nodes :
              /\ n \in DOMAIN trees[t].nodes /\ new.nodes[n].born = trees[t].nodes[n].born
              /\ new.nodes[n].state \in Runnable => trees[t].nodes[n].state \in Runnable
        /\ RefersTo(new.nodes) = RefersTo(trees[t].nodes) \ gone
        /\ gone \subseteq RefersTo(trees[t].nodes)
        /\ ~rooted => WellFormed(trees[t].root, new.nodes)
        /\ rooted => DOMAIN new.nodes = {}
    BY ClearedTree
  <2>3. rooted \in BOOLEAN OBVIOUS
  <2> HIDE DEF new, gone, rooted
  <2>4. new \in TreeSet /\ new.root = trees[t].root BY <2>2 DEF Calms
  <2>5. /\ trees' \in Seq(TreeSet) /\ DOMAIN trees' = DOMAIN trees /\ trees'[t] = new
        /\ \A u \in Trees \ {t} : trees'[u] = trees[u]
    BY <1>2, <2>1, <2>4, ReplaceTrees
  <2>6. \A u \in Trees : trees'[u] = trees[u] \/ Calms(trees[u], trees'[u], ActiveNode(trees[u]))
    BY <2>2, <2>5
  <2>7. slots' = Cancelling(Hit({t}, those), "clear") /\ draining' = Hit({t}, those)
    BY <2>1 DEF CancelTasks, Cancelling
  <2>8. \A u \in Trees : u \in {t} /\ ActiveNode(trees[u]) \cap those # {} => trees'[u].requested
    BY <2>2, <2>5
  <2>9. draining' \subseteq DOMAIN slots BY <2>7 DEF Hit
  <2> HIDE DEF t, those
  <2>10. ClaimsInv' /\ slots' \in Seq(SlotSet) /\ DOMAIN slots' = DOMAIN slots
    <3>1. "clear" \in Reasons BY DEF Reasons
    <3> QED BY <2>5, <2>6, <2>7, <2>8, <3>1, CancelKeepsClaims
  <2>11. GraphInv' /\ \A u \in published' \ {t} : Refs(u) \subseteq Refs(u)'
    BY <1>1, <1>2, <2>1, <2>2, <2>3, <2>4, <2>5, ClearedGraphs
  <2>12. /\ published' \subseteq published /\ published \ published' \subseteq {t}
         /\ DOMAIN index' \subseteq DOMAIN index
    BY <2>1, <2>3
  <2>13. /\ StoreInv' /\ owed' \subseteq Trees /\ overtaken' \subseteq Trees
         /\ saved' \in [DOMAIN saved' -> Graphs] /\ DOMAIN saved' \subseteq Trees
    <3>1. {t} \in SUBSET Trees /\ {t} \subseteq published BY <1>2
    <3>2. \A u \in Trees : trees'[u].root = trees[u].root BY <2>4, <2>5
    <3>3. \A u \in published' : RefersTo(trees'[u].nodes) \subseteq RefersTo(trees[u].nodes)
      <4> TAKE u \in published'
      <4>1. u \in Trees BY <2>12, TreesAre
      <4> QED BY <2>2, <2>5, <4>1
    <3>4. \A u \in published' \ {t} : Snapshot(trees'[u]) = Snapshot(trees[u])
      BY <2>5, <2>12, TreesAre
    <3> QED BY <1>1, <2>1, <2>5, <2>11, <2>12, <3>1, <3>2, <3>3, <3>4, CommandStores
  <2>14. TypeInv'
    <3>1. \A u \in Trees : \A n \in DOMAIN trees'[u].nodes :
             n \in DOMAIN trees[u].nodes /\ trees'[u].nodes[n].born = trees[u].nodes[n].born
      BY <2>2, <2>5
    <3>2. boundary' \in {boundary, boundary + 1} /\ raised' \in BOOLEAN BY <1>1, <1>2, <2>1
    <3>3. TypeInv BY DEF IInv
    <3> QED BY <1>1, <2>5, <2>9, <2>10, <2>12, <2>13, <3>1, <3>2, <3>3, CommandTypes
  <2> QED BY <2>10, <2>11, <2>13, <2>14 DEF IInv
<1> QED BY <1>3, <1>4

------------------------------------------------------------------------------
(* Turns that are admitted                                                  *)

\* A message of a prompt that is not in the index is not in the repository.
LEMMA NewReferences ==
    ASSUME IInv, NEW n \in Nodes, Prompt(n) \notin DOMAIN index
    PROVE  /\ \A t \in published : n \notin DOMAIN trees[t].nodes
           /\ \A k \in Nat : Status(n, k) \notin DOMAIN index
<1>1. Indexed(trees, published, index) BY DEF IInv, GraphInv
<1>2. ASSUME NEW t \in published PROVE n \notin DOMAIN trees[t].nodes
  BY <1>1, RefersToAll DEF Indexed
<1>3. ASSUME NEW k \in Nat PROVE Status(n, k) \notin DOMAIN index
  <2>1. SUFFICES ASSUME Status(n, k) \in DOMAIN index PROVE FALSE OBVIOUS
  <2> DEFINE t == index[Status(n, k)]
  <2>2. t \in published /\ Status(n, k) \in RefersTo(trees[t].nodes) BY <1>1, <2>1 DEF Indexed
  <2>3. PICK m \in DOMAIN trees[t].nodes : Status(n, k) \in NodeMessages(trees[t].nodes, m)
    BY <2>2, RefersToMessages
  <2>4. n = m BY <2>3, OwnMessages, MessageFields
  <2> QED BY <1>2, <2>2, <2>4
<1> QED BY <1>2, <1>3

\* What a prompt adds to the references of its tree.
LEMMA AddedReferences ==
    ASSUME NEW nodes, NEW new, NEW n, n \notin DOMAIN nodes, DOMAIN new = DOMAIN nodes \cup {n},
           \A k \in DOMAIN nodes : new[k] = nodes[k]
    PROVE  RefersTo(new) = RefersTo(nodes) \cup {Prompt(n), Status(n, new[n].status)}
<1>1. \A k \in DOMAIN nodes : NodeMessages(new, k) = NodeMessages(nodes, k) BY DEF NodeMessages
<1>2. NodeMessages(new, n) = {Prompt(n), Status(n, new[n].status)} BY DEF NodeMessages
<1>3. \A r : r \in RefersTo(nodes) <=> \E k \in DOMAIN nodes : r \in NodeMessages(nodes, k)
  BY RefersToMessages
<1>4. \A r : r \in RefersTo(new) <=> \E k \in DOMAIN nodes \cup {n} : r \in NodeMessages(new, k)
  <2>1. RefersTo(new) = UNION {NodeMessages(new, k) : k \in DOMAIN new} BY RefersToMessages
  <2> QED BY <2>1
<1>5. \A r : r \in RefersTo(new) <=> r \in RefersTo(nodes) \/ r \in NodeMessages(new, n)
  BY <1>1, <1>3, <1>4
<1> QED BY <1>2, <1>5

\* The prompt of a turn joins a tree of the repository, or makes one.
LEMMA AdmittedKeeps ==
    ASSUME IInv, Unlocked, NEW n \in Nodes, intake[n].at = "sending", intake[n].token = boundary,
           Prompt(n) \notin DOMAIN index, Idle(n), deliveries' = deliveries, UNCHANGED commandVars,
           NEW t, t \in published \/ t \notin Trees, published' = published \cup {t},
           trees' \in Seq(TreeSet), DOMAIN trees' = DOMAIN trees \cup {t},
           \A u \in Trees \ {t} : trees'[u] = trees[u],
           NEW nodes, DOMAIN trees'[t].nodes = DOMAIN nodes \cup {n},
           \A k \in DOMAIN nodes : trees'[t].nodes[k] = nodes[k],
           trees'[t].nodes[n].status = intake[n].status,
           trees'[t].nodes[n].born = intake[n].token,
           t \in Trees => nodes = trees[t].nodes /\ trees'[t].root = trees[t].root,
           t \notin Trees => DOMAIN nodes = {},
           WellFormed(trees'[t].root, trees'[t].nodes), Register(t, n), Save({t}),
           slots' \in Seq(SlotSet), DOMAIN slots \subseteq DOMAIN slots'
    PROVE  TypeInv' /\ GraphInv' /\ StoreInv'
<1> DEFINE s == intake[n].status
           added == {Prompt(n), Status(n, s)}
<1>1. /\ TypeInv /\ SavedInv /\ TakenInv /\ GraphInv /\ Indexed(trees, published, index)
      /\ owed = {} /\ published \subseteq Trees /\ DOMAIN saved \subseteq Trees
  BY TreesAre DEF IInv, StoreInv, GraphInv, Unlocked
<1>2. /\ boundary' = boundary /\ draining' = draining /\ owed' = owed /\ taken' = taken
      /\ raised' = raised /\ overtaken' = (overtaken \ {t}) \cup ({t} \cap DOMAIN taken)
  BY DEF commandVars, Save
<1>3. s \in 0 .. MaxDeliveries /\ s # 0 /\ boundary \in Nat /\ s \in Nat
  <2>1. intake[n] \in TurnSet BY <1>1 DEF TypeInv
  <2>2. s \in 0 .. MaxDeliveries BY <2>1 DEF TurnSet
  <2> QED BY <1>1, <2>2 DEF TypeInv
<1>4. added \subseteq References /\ added \cap DOMAIN index = {}
  <2>1. added \cap DOMAIN index = {} BY <1>3, NewReferences
  <2>2. 0 \in 0 .. MaxDeliveries OBVIOUS
  <2> QED BY <1>3, <2>1, <2>2 DEF Prompt, Status, References
<1>5. n \notin DOMAIN nodes /\ (t \in Trees => t \in published)
  BY <1>1, NewReferences
<1>6. RefersTo(trees'[t].nodes) = RefersTo(nodes) \cup added BY <1>5, AddedReferences
<1>7. /\ DOMAIN index' = DOMAIN index \cup added
      /\ \A r \in DOMAIN index : index'[r] = index[r]
      /\ \A r \in added : index'[r] = t
  BY <1>4 DEF Register
<1> HIDE DEF added, s
<1>8. RefersTo(nodes) \subseteq DOMAIN index /\ \A r \in RefersTo(nodes) : index[r] = t
  <2>1. CASE t \in Trees BY <1>1, <1>5, <2>1 DEF Indexed
  <2>2. CASE t \notin Trees BY <2>2, RefersToMessages
  <2> QED BY <2>1, <2>2
<1>9. \A u \in published' : WellFormed(trees'[u].root, trees'[u].nodes)
  <2> TAKE u \in published'
  <2>1. CASE u = t BY <2>1
  <2>2. CASE u # t
    <3>1. u \in published /\ trees'[u] = trees[u] BY <1>1, <2>2
    <3> QED BY <1>1, <3>1 DEF GraphInv
  <2> QED BY <2>1, <2>2
<1>10. Indexed(trees', published', index')
  <2>1. ASSUME NEW r \in DOMAIN index'
        PROVE  index'[r] \in published' /\ r \in RefersTo(trees'[index'[r]].nodes)
    <3>1. CASE r \in added BY <1>6, <1>7, <3>1
    <3>2. CASE r \in DOMAIN index
      <4>1. index'[r] = index[r] /\ index[r] \in published /\ r \in RefersTo(trees[index[r]].nodes)
        BY <1>1, <1>7, <3>2 DEF Indexed
      <4>2. CASE index[r] = t BY <1>1, <1>6, <4>1, <4>2
      <4>3. CASE index[r] # t BY <1>1, <4>1, <4>3
      <4> QED BY <4>2, <4>3
    <3> QED BY <1>7, <3>1, <3>2
  <2>2. ASSUME NEW u \in published', NEW r \in RefersTo(trees'[u].nodes)
        PROVE  r \in DOMAIN index' /\ index'[r] = u
    <3>1. CASE u = t BY <1>6, <1>7, <1>8, <3>1
    <3>2. CASE u # t
      <4>1. u \in published /\ trees'[u] = trees[u] BY <1>1, <3>2
      <4>2. r \in DOMAIN index /\ index[r] = u BY <1>1, <4>1 DEF Indexed
      <4> QED BY <1>7, <4>2
    <3> QED BY <3>1, <3>2
  <2> QED BY <2>1, <2>2 DEF Indexed
<1>11. NothingFromBefore'
  <2>1. CASE raised BY <1>2, <2>1 DEF NothingFromBefore
  <2>2. CASE ~raised
    <3>1. StopReachesAll BY <1>1, <2>2 DEF GraphInv, NothingFromBefore
    <3>2. \A u \in published' : \A k \in DOMAIN trees'[u].nodes :
             trees'[u].nodes[k].state \in Runnable => trees'[u].nodes[k].born = boundary
      <4> TAKE u \in published'
      <4> TAKE k \in DOMAIN trees'[u].nodes
      <4>1. CASE u # t
        <5>1. u \in published /\ trees'[u] = trees[u] BY <1>1, <4>1
        <5> QED BY <3>1, <5>1 DEF StopReachesAll
      <4>2. CASE u = t /\ k = n BY <4>2
      <4>3. CASE u = t /\ k # n
        <5>1. k \in DOMAIN nodes /\ trees'[t].nodes[k] = nodes[k] BY <4>3
        <5>2. t \in published /\ nodes = trees[t].nodes BY <1>5, <5>1
        <5> QED BY <3>1, <4>3, <5>1, <5>2 DEF StopReachesAll
      <4> QED BY <4>1, <4>2, <4>3
    <3> QED BY <1>2, <3>2 DEF NothingFromBefore, StopReachesAll
  <2> QED BY <2>1, <2>2
<1>12. GraphInv'
  <2>1. \A u \in DOMAIN trees' \ published' : Pending(trees'[u]) = {} /\ Running(trees'[u]) = {}
    BY <1>1 DEF GraphInv, Trees
  <2> QED BY <1>9, <1>10, <1>11, <2>1 DEF GraphInv, Trees
<1>13. {t} \subseteq DOMAIN trees' /\ published' \subseteq DOMAIN trees' /\ DOMAIN trees \subseteq DOMAIN trees'
  BY <1>1 DEF Trees
<1>14. TypeInv'
  <2>1. saved' \in [DOMAIN saved' -> Graphs] /\ DOMAIN saved' \subseteq Trees'
    BY <1>1, <1>13, SaveTyping
  <2>2. DOMAIN index' \subseteq References BY <1>1, <1>4, <1>7 DEF TypeInv
  <2>3. \A u \in DOMAIN trees' : \A k \in DOMAIN trees'[u].nodes : trees'[u].nodes[k].born <= boundary
    <3> TAKE u \in DOMAIN trees'
    <3> TAKE k \in DOMAIN trees'[u].nodes
    <3>1. CASE u # t
      <4>1. u \in Trees /\ trees'[u] = trees[u] BY <3>1 DEF Trees
      <4> QED BY <1>1, <4>1 DEF TypeInv
    <3>2. CASE u = t /\ k = n BY <1>3, <3>2
    <3>3. CASE u = t /\ k # n
      <4>1. k \in DOMAIN nodes /\ trees'[t].nodes[k] = nodes[k] BY <3>3
      <4>2. t \in Trees /\ nodes = trees[t].nodes BY <4>1
      <4> QED BY <1>1, <3>3, <4>1, <4>2 DEF TypeInv
    <3> QED BY <3>1, <3>2, <3>3
  <2>4. /\ intake' \in [Nodes -> TurnSet]
        /\ \A m \in Nodes : intake'[m].at = "sending" =>
              intake'[m].status # 0 /\ intake'[m].token <= boundary
    BY <1>1, IdleTurn
  <2>5. /\ deliveries' \in Nat /\ raised' \in BOOLEAN /\ owed' \subseteq DOMAIN trees'
        /\ draining' \subseteq DOMAIN slots' /\ overtaken' \subseteq DOMAIN trees'
    BY <1>1, <1>2, <1>13 DEF TypeInv, Trees
  <2> QED BY <1>2, <1>3, <1>13, <2>1, <2>2, <2>3, <2>4, <2>5 DEF TypeInv, Trees
<1>15. SavedInv'
  <2>1. \A u \in Trees : trees'[u].root = trees[u].root OBVIOUS
  <2>2. \A u \in DOMAIN saved : u \in published /\ RefersTo(saved[u]) \subseteq Refs(u)
    BY <1>1 DEF SavedInv
  <2>3. \A v \in published', u \in DOMAIN saved :
           v # u => RefersTo(trees'[v].nodes) \cap RefersTo(saved[u]) = {}
    <3> TAKE v \in published', u \in DOMAIN saved
    <3> HAVE v # u
    <3>1. CASE v # t
      <4>1. v \in published /\ trees'[v] = trees[v] BY <1>1, <3>1
      <4> QED BY <1>1, <4>1 DEF SavedInv
    <3>2. CASE v = t
      <4>1. \A r \in RefersTo(saved[u]) : r \in DOMAIN index /\ index[r] = u BY <2>2 DEF Refs
      <4>2. \A r \in RefersTo(nodes) \cup added : r \in DOMAIN index => index[r] = t
        BY <1>4, <1>8 DEF added
      <4> QED BY <1>6, <3>2, <4>1, <4>2
    <3> QED BY <3>1, <3>2
  <2> DEFINE ts == {t}
  <2>4. \A u \in DOMAIN saved \ (ts \cup owed') :
           u \in published' /\ RefersTo(saved[u]) \subseteq Refs(u)'
    BY <1>7, <2>2 DEF Refs
  <2>5. ~raised' => \A v \in owed' \ published', u \in published' : trees'[v].root # trees'[u].root
    BY <1>1, <1>2
  <2>6. ~raised' => \A u \in published' \ (ts \cup owed') :
           /\ u \in DOMAIN saved /\ Portrays(saved[u], trees'[u], u, overtaken')
           /\ \A v \in ts : trees'[v].root # trees'[u].root
    <3> SUFFICES ASSUME ~raised, NEW u \in published' \ {t}
                 PROVE  /\ u \in DOMAIN saved /\ Portrays(saved[u], trees'[u], u, overtaken')
                        /\ trees'[t].root # trees'[u].root
      BY <1>2
    <3>1. u \in published /\ trees'[u] = trees[u] BY <1>1
    <3>2. u \in DOMAIN saved /\ Portrays(saved[u], trees[u], u, overtaken)
      BY <1>1, <3>1 DEF SavedInv
    <3>3. Portrays(saved[u], trees'[u], u, overtaken') BY <1>2, <3>1, <3>2 DEF Portrays
    <3>4. trees'[t].root # trees'[u].root BY <1>9, <1>10, RootsApart
    <3> QED BY <3>2, <3>3, <3>4
  <2>7. Save(ts) /\ ts \subseteq published' /\ published' \subseteq DOMAIN trees' BY <1>13
  <2> HIDE DEF ts
  <2> QED BY <1>1, <1>9, <1>10, <2>1, <2>3, <2>4, <2>5, <2>6, <2>7, SaveKeeps, ZenonT(30)
<1>16. TakenInv' BY <1>1, <1>2 DEF TakenInv
<1> QED BY <1>12, <1>14, <1>15, <1>16 DEF StoreInv

\* The task that is launched for a prompt.
LEMMA LaunchedSlots ==
    ASSUME slots \in Seq(SlotSet), NEW t \in Nat, NEW n \in Nodes,
           slots' = Append(slots, Slot(t, n, "created"))
    PROVE  slots' \in Seq(SlotSet) /\ DOMAIN slots \subseteq DOMAIN slots'
<1>1. Slot(t, n, "created") \in SlotSet BY DEF Slot, SlotSet, Stages, Reasons
<1>2. slots' \in Seq(SlotSet) /\ Len(slots') = Len(slots) + 1 BY <1>1, AppendProperties
<1>3. /\ DOMAIN slots' = 1 .. Len(slots') /\ DOMAIN slots = 1 .. Len(slots) /\ Len(slots) \in Nat
  BY <1>2, LenProperties
<1>4. 1 .. Len(slots) \subseteq 1 .. Len(slots) + 1 BY <1>3
<1> QED BY <1>2, <1>3, <1>4

\* What a turn that is being sent becomes.
LEMMA TurnNode ==
    ASSUME TypeInv, NEW n \in Nodes, intake[n].at = "sending"
    PROVE  Node(intake[n]) \in NodeSet /\ intake[n].status # 0
<1>1. intake[n] \in TurnSet BY DEF TypeInv
<1>2. /\ intake[n].status \in 0 .. MaxDeliveries /\ intake[n].token \in Nat
      /\ intake[n].parent \in References \cup {NoReference}
  BY <1>1 DEF TurnSet
<1> QED BY <1>2 DEF TypeInv, Node, NodeSet, States

\* The claims after a prompt is admitted to tree t.
LEMMA AdmittedClaims ==
    ASSUME IInv, NEW n \in Nodes, NEW t \in Trees, DOMAIN trees' = DOMAIN trees,
           \A u \in Trees \ {t} : trees'[u] = trees[u],
           trees'[t] \in TreeSet, trees'[t].root = trees[t].root,
           LaunchIfFree(t, n, trees[t].active # 0),
           trees[t].active = 0 => trees'[t].active = Len(slots) + 1 /\ QueueInv(trees'[t], {n}),
           trees[t].active # 0 => /\ trees'[t].active = trees[t].active
                                  /\ trees'[t].requested = trees[t].requested
                                  /\ QueueInv(trees'[t], ActiveNode(trees[t]))
                                  /\ Running(trees'[t]) = Running(trees[t])
    PROVE  ClaimsInv' /\ slots' \in Seq(SlotSet) /\ DOMAIN slots \subseteq DOMAIN slots'
<1>1. TypeInv /\ ClaimsInv /\ slots \in Seq(SlotSet) /\ t \in Nat /\ t \in DOMAIN trees
  BY TreesAre DEF IInv, TypeInv, Trees
<1>2. CASE trees[t].active # 0
  <2>1. slots' = slots BY <1>2 DEF LaunchIfFree
  <2>2. Calms(trees[t], trees'[t], ActiveNode(trees[t])) BY <1>2 DEF Calms
  <2>3. \A u \in Trees : trees'[u] = trees[u] \/ Calms(trees[u], trees'[u], ActiveNode(trees[u]))
    BY <2>2
  <2> QED BY <1>1, <2>1, <2>3, CalmKeepsClaims
<1>3. CASE trees[t].active = 0
  <2>1. slots' = Append(slots, Slot(t, n, "created")) BY <1>3 DEF LaunchIfFree
  <2>2. slots' \in Seq(SlotSet) /\ DOMAIN slots \subseteq DOMAIN slots'
    BY <1>1, <2>1, LaunchedSlots
  <2>3. \A c \in DOMAIN slots :
           slots[c].tree = t => slots[c].at = "finished" /\ slots[c].cancel = "none"
    <3> TAKE c \in DOMAIN slots
    <3>1. SlotInv(c) /\ c # 0 BY <1>1, TreesAre DEF ClaimsInv
    <3> QED BY <1>3, <3>1 DEF SlotInv
  <2>4. DOMAIN trees' = DOMAIN trees \cup {t} /\ 0 \notin DOMAIN trees'
    BY <1>1, TreesAre DEF Trees
  <2>5. \/ slots' = slots /\ trees'[t].active = 0 /\ QueueInv(trees'[t], {})
        \/ \E k \in Nodes : /\ slots' = Append(slots, Slot(t, k, "created"))
                            /\ trees'[t].active = Len(slots) + 1 /\ QueueInv(trees'[t], {k})
    BY <1>3, <2>1
  <2>6. \A c \in DOMAIN slots :
           /\ slots[c].tree = slots[c].tree /\ slots[c].node = slots[c].node
           /\ slots[c].tree # t => slots[c] = slots[c]
           /\ slots[c].tree = t => slots[c].at = "finished" /\ slots[c].cancel = "none"
    BY <2>3
  <2>7. ClaimsInv' BY <1>1, <2>4, <2>5, <2>6, ClaimsLaunched, ZenonT(60)
  <2> QED BY <2>2, <2>7
<1> QED BY <1>2, <1>3

\* A reply is admitted.
LEMMA AdmitReplyKeeps ==
    ASSUME IInv, NEW n \in Nodes, AdmitReply(n)
    PROVE  IInv'
<1> DEFINE p == intake[n].parent
           t == index[p]
           tr == trees[t]
           new == Enqueued(WithNode(tr, n), n)
<1>1. /\ intake[n].at = "sending" /\ Unlocked /\ intake[n].token = boundary
      /\ Prompt(n) \notin DOMAIN index /\ p \in DOMAIN index
      /\ Replace(t, new) /\ LaunchIfFree(t, n, tr.active # 0) /\ Register(t, n)
      /\ Save({t}) /\ Idle(n)
      /\ published' = published /\ deliveries' = deliveries /\ UNCHANGED commandVars
  BY DEF AdmitReply, MayAdmit
<1>2. /\ t \in published /\ t \in Trees /\ tr \in TreeSet /\ QueueInv(tr, ActiveNode(tr))
      /\ WellFormed(tr.root, tr.nodes) /\ p \in RefersTo(tr.nodes)
      /\ Len(slots) \in Nat
  <2>1. t \in published /\ p \in RefersTo(tr.nodes) BY <1>1 DEF IInv, GraphInv, Indexed
  <2>2. WellFormed(tr.root, tr.nodes) BY <2>1 DEF IInv, GraphInv
  <2> HIDE DEF t
  <2> QED BY <2>1, <2>2, TreesAre
<1>3. Node(intake[n]) \in NodeSet /\ intake[n].status # 0 BY <1>1, TurnNode DEF IInv
<1>4. n \notin DOMAIN tr.nodes BY <1>1, <1>2, NewReferences
<1> HIDE DEF tr
<1>5. /\ new \in TreeSet /\ new.root = tr.root
      /\ DOMAIN new.nodes = DOMAIN tr.nodes \cup {n}
      /\ \A k \in DOMAIN tr.nodes : new.nodes[k] = tr.nodes[k]
      /\ new.nodes[n].status = intake[n].status /\ new.nodes[n].parent = intake[n].parent
      /\ new.nodes[n].born = intake[n].token
      /\ tr.active = 0 => new.active = Len(slots) + 1 /\ QueueInv(new, {n})
      /\ tr.active # 0 => /\ new.active = tr.active /\ new.requested = tr.requested
                          /\ QueueInv(new, ActiveNode(tr)) /\ Running(new) = Running(tr)
  BY <1>2, <1>3, <1>4, EnqueuedTree
<1> HIDE DEF new
<1>6. WellFormed(tr.root, new.nodes)
  <2>1. PICK m \in DOMAIN tr.nodes : p \in NodeMessages(tr.nodes, m) BY <1>2, RefersToMessages
  <2> QED BY <1>2, <1>3, <1>4, <1>5, <2>1, WellFormedAdded
<1>7. /\ trees' \in Seq(TreeSet) /\ DOMAIN trees' = DOMAIN trees /\ trees'[t] = new
      /\ \A u \in Trees \ {t} : trees'[u] = trees[u]
  BY <1>1, <1>2, <1>5, ReplaceTrees
<1>8. trees[t] = tr BY DEF tr
<1> HIDE DEF t
<1>9. ClaimsInv' /\ slots' \in Seq(SlotSet) /\ DOMAIN slots \subseteq DOMAIN slots'
  BY <1>1, <1>2, <1>5, <1>7, <1>8, AdmittedClaims
<1>10. TypeInv' /\ GraphInv' /\ StoreInv'
  <2>1. published' = published \cup {t} /\ DOMAIN trees' = DOMAIN trees \cup {t}
    BY <1>1, <1>2, <1>7 DEF Trees
  <2>2. /\ WellFormed(trees'[t].root, trees'[t].nodes)
        /\ t \in Trees => tr.nodes = trees[t].nodes /\ trees'[t].root = trees[t].root
        /\ t \notin Trees => DOMAIN tr.nodes = {}
    BY <1>2, <1>5, <1>6, <1>7, <1>8
  <2>3. /\ DOMAIN trees'[t].nodes = DOMAIN tr.nodes \cup {n}
        /\ \A k \in DOMAIN tr.nodes : trees'[t].nodes[k] = tr.nodes[k]
        /\ trees'[t].nodes[n].status = intake[n].status
        /\ trees'[t].nodes[n].born = intake[n].token
    BY <1>5, <1>7
  <2>4. t \in published \/ t \notin Trees BY <1>2
  <2> QED BY <1>1, <1>7, <1>9, <2>1, <2>2, <2>3, <2>4, AdmittedKeeps
<1> QED BY <1>9, <1>10 DEF IInv

\* A prompt of its own is admitted.
LEMMA AdmitRootKeeps ==
    ASSUME IInv, NEW n \in Nodes, AdmitRoot(n)
    PROVE  IInv'
<1> DEFINE tr == NewTree(n)
           new == Enqueued(WithNode(tr, n), n)
<1>1. /\ Len(slots) \in Nat /\ Len(trees) \in Nat /\ DOMAIN trees = 1 .. Len(trees)
      /\ slots \in Seq(SlotSet) /\ trees \in Seq(TreeSet)
  BY TreesAre DEF IInv, TypeInv
<1> PICK t \in Nat : t = Len(trees) + 1 BY <1>1
<1>2. /\ intake[n].at = "sending" /\ Unlocked /\ intake[n].token = boundary
      /\ Prompt(n) \notin DOMAIN index /\ intake[n].parent = NoReference
      /\ trees' = Append(trees, new) /\ LaunchIfFree(t, n, FALSE) /\ Register(t, n)
      /\ Save({t}) /\ Idle(n)
      /\ published' = published \cup {t} /\ deliveries' = deliveries /\ UNCHANGED commandVars
  BY DEF AdmitRoot, MayAdmit
<1>3. Node(intake[n]) \in NodeSet /\ intake[n].status # 0 BY <1>2, TurnNode DEF IInv
<1>4. /\ tr \in TreeSet /\ QueueInv(tr, {}) /\ tr.active = 0 /\ tr.root = n /\ DOMAIN tr.nodes = {}
  BY EmptyTree
<1> HIDE DEF tr
<1>5. n \notin DOMAIN tr.nodes BY <1>4
<1>6. /\ new \in TreeSet /\ new.root = n /\ DOMAIN new.nodes = {n}
      /\ new.nodes[n].status = intake[n].status /\ new.nodes[n].parent = intake[n].parent
      /\ new.nodes[n].born = intake[n].token
      /\ new.active = Len(slots) + 1 /\ QueueInv(new, {n})
  <2> DEFINE a == {}
  <2>1. tr \in TreeSet /\ QueueInv(tr, a) BY <1>4
  <2> HIDE DEF a
  <2>2. /\ new \in TreeSet /\ new.root = tr.root
        /\ DOMAIN new.nodes = DOMAIN tr.nodes \cup {n}
        /\ \A k \in DOMAIN tr.nodes : new.nodes[k] = tr.nodes[k]
        /\ new.nodes[n].status = intake[n].status /\ new.nodes[n].parent = intake[n].parent
        /\ new.nodes[n].born = intake[n].token
        /\ tr.active = 0 => new.active = Len(slots) + 1 /\ QueueInv(new, {n})
        /\ tr.active # 0 => /\ new.active = tr.active /\ new.requested = tr.requested
                            /\ QueueInv(new, a) /\ Running(new) = Running(tr)
    BY <1>1, <1>3, <1>5, <2>1, EnqueuedTree
  <2> HIDE DEF new
  <2> QED BY <1>4, <2>2
<1> HIDE DEF new
<1>7. /\ trees' \in Seq(TreeSet) /\ DOMAIN trees' = DOMAIN trees \cup {t} /\ trees'[t] = new
      /\ \A u \in Trees \ {t} : trees'[u] = trees[u]
      /\ t \notin Trees /\ 0 \notin DOMAIN trees'
  <2>1. /\ trees' \in Seq(TreeSet) /\ Len(trees') = Len(trees) + 1 /\ trees'[Len(trees) + 1] = new
        /\ \A i \in 1 .. Len(trees) : trees'[i] = trees[i]
    BY <1>1, <1>2, <1>6, AppendProperties
  <2>2. DOMAIN trees' = 1 .. Len(trees) + 1 BY <2>1, LenProperties
  <2>3. 1 .. Len(trees) + 1 = 1 .. Len(trees) \cup {t} /\ t \notin 1 .. Len(trees)
        /\ 0 \notin 1 .. Len(trees) + 1
    BY <1>1
  <2> QED BY <1>1, <2>1, <2>2, <2>3 DEF Trees
<1>8. slots' = Append(slots, Slot(t, n, "created")) BY <1>2 DEF LaunchIfFree
<1>9. slots' \in Seq(SlotSet) /\ DOMAIN slots \subseteq DOMAIN slots'
  BY <1>1, <1>8, LaunchedSlots
<1>10. ClaimsInv'
  <2>1. TypeInv /\ ClaimsInv BY DEF IInv
  <2>2. \A c \in DOMAIN slots : slots[c].tree # t BY <1>7, TreesAre
  <2>3. \/ slots' = slots /\ trees'[t].active = 0 /\ QueueInv(trees'[t], {})
        \/ \E k \in Nodes : /\ slots' = Append(slots, Slot(t, k, "created"))
                            /\ trees'[t].active = Len(slots) + 1 /\ QueueInv(trees'[t], {k})
    BY <1>6, <1>7, <1>8
  <2> QED BY <1>1, <1>7, <2>1, <2>2, <2>3, ClaimsLaunched, ZenonT(60)
<1>11. WellFormed(trees'[t].root, trees'[t].nodes) BY <1>2, <1>3, <1>6, <1>7, WellFormedRoot
<1>12. TypeInv' /\ GraphInv' /\ StoreInv'
  <2>1. /\ DOMAIN trees'[t].nodes = DOMAIN tr.nodes \cup {n}
        /\ \A k \in DOMAIN tr.nodes : trees'[t].nodes[k] = tr.nodes[k]
        /\ trees'[t].nodes[n].status = intake[n].status
        /\ trees'[t].nodes[n].born = intake[n].token
    BY <1>4, <1>6, <1>7
  <2> QED BY <1>2, <1>4, <1>7, <1>9, <1>11, <2>1, AdmittedKeeps
<1> QED BY <1>10, <1>12 DEF IInv

\* A prompt that is known already is a duplicate, whatever became of it.
LEMMA AdmitAgainKeeps ==
    ASSUME IInv, NEW n \in Nodes, AdmitAgain(n)
    PROVE  IInv'
<1> DEFINE t == index[Prompt(n)]
           tr == trees[t]
<1>1. t \in Trees /\ QueueInv(tr, ActiveNode(tr)) /\ tr \in TreeSet
  BY TreesAre DEF AdmitAgain, IInv, GraphInv, Indexed
<1>2. ~(InState(tr, n, {"pending"}) /\ (tr.active = 0 \/ ~Contains(tr.queue, n)))
  <2>1. SUFFICES ASSUME n \in Pending(tr), tr.active = 0 \/ ~Contains(tr.queue, n)
                 PROVE  FALSE
    BY DEF InState, Pending
  <2>2. n \in Range(tr.queue) /\ tr.active # 0 BY <1>1, <2>1 DEF QueueInv
  <2>3. tr.queue \in Seq(Nodes) BY <1>1, TreeFields
  <2>4. DOMAIN tr.queue = 1 .. Len(tr.queue) BY <2>3, LenProperties
  <2>5. Contains(tr.queue, n) BY <2>2, <2>4 DEF Range, Contains
  <2> QED BY <2>1, <2>2, <2>5
<1>3. /\ Idle(n) /\ deliveries' = deliveries /\ UNCHANGED <<treeVars, commandVars, storeVars>>
  BY <1>2 DEF AdmitAgain, treeVars, storeVars
<1>4. deliveries \in Nat BY DEF IInv, TypeInv
<1> QED BY <1>3, <1>4, IdleTurn, TurnsKeep DEF IInv

------------------------------------------------------------------------------
(* The next server                                                          *)

\* A tree without a claim in which nothing is to run.
LEMMA IdleTree ==
    ASSUME NEW n \in Nodes, NEW nodes \in Graphs, \A k \in DOMAIN nodes : nodes[k].state \notin Runnable
    PROVE  LET new == [NewTree(n) EXCEPT !.nodes = nodes] IN
           /\ new \in TreeSet /\ QueueInv(new, {}) /\ new.active = 0 /\ new.root = n
           /\ new.nodes = nodes /\ Pending(new) = {} /\ Running(new) = {} /\ Snapshot(new) = nodes
<1> DEFINE tr == NewTree(n)
           new == [tr EXCEPT !.nodes = nodes]
<1>1. tr \in TreeSet /\ tr.queue = <<>> /\ tr.active = 0 /\ tr.requested = FALSE /\ tr.root = n
  BY EmptyTree DEF NewTree
<1> HIDE DEF tr
<1>2. /\ new \in TreeSet /\ new.queue = <<>> /\ new.active = 0 /\ new.requested = FALSE
      /\ new.root = n /\ new.nodes = nodes
  BY <1>1 DEF TreeSet
<1> HIDE DEF new
<1>3. Pending(new) = {} /\ Running(new) = {} BY <1>2 DEF Pending, Running, Runnable
<1>4. IsInjective(new.queue) /\ Range(new.queue) = {} BY <1>2 DEF IsInjective, Range
<1>5. QueueInv(new, {}) BY <1>2, <1>3, <1>4 DEF QueueInv
<1>6. Snapshot(new) = [k \in DOMAIN nodes |-> nodes[k]] BY <1>2 DEF Snapshot, InState
<1>7. nodes = [k \in DOMAIN nodes |-> nodes[k]] BY GraphsDef
<1> QED BY <1>2, <1>3, <1>5, <1>6, <1>7 DEF new, tr

\* What is restored of a graph.
Restored(nodes) == [n \in DOMAIN nodes |-> [Interrupt(nodes[n]) EXCEPT !.born = 0]]

\* The same tree, in which nothing is to run.
LEMMA RestoredGraph ==
    ASSUME NEW nodes \in Graphs
    PROVE  /\ Restored(nodes) \in Graphs /\ SameShape(nodes, Restored(nodes))
           /\ \A n \in DOMAIN nodes :
                 Restored(nodes)[n].born = 0 /\ Restored(nodes)[n].state \notin Runnable
<1>1. DOMAIN nodes \subseteq Nodes /\ \A n \in DOMAIN nodes : nodes[n] \in NodeSet BY GraphsDef
<1>2. \A n \in DOMAIN nodes :
         /\ Interrupt(nodes[n]) \in NodeSet /\ Interrupt(nodes[n]).state \notin Runnable
         /\ Interrupt(nodes[n]).status = nodes[n].status
         /\ Interrupt(nodes[n]).parent = nodes[n].parent
  BY <1>1 DEF Interrupt, NodeSet, States, Runnable
<1>3. \A n \in DOMAIN nodes :
         /\ Restored(nodes)[n] \in NodeSet /\ Restored(nodes)[n].state \notin Runnable
         /\ Restored(nodes)[n].status = nodes[n].status
         /\ Restored(nodes)[n].parent = nodes[n].parent /\ Restored(nodes)[n].born = 0
  <2> TAKE n \in DOMAIN nodes
  <2> DEFINE ended == Interrupt(nodes[n])
  <2>1. Restored(nodes)[n] = [ended EXCEPT !.born = 0] BY DEF Restored
  <2>2. ended \in NodeSet BY <1>2
  <2>3. ended.state \notin Runnable /\ ended.status = nodes[n].status /\ ended.parent = nodes[n].parent
    BY <1>2
  <2> HIDE DEF ended
  <2> QED BY <2>1, <2>2, <2>3 DEF NodeSet
<1>4. DOMAIN Restored(nodes) = DOMAIN nodes BY DEF Restored
<1>5. Restored(nodes) \in [DOMAIN nodes -> NodeSet] BY <1>3 DEF Restored
<1>6. Restored(nodes) \in Graphs BY <1>1, <1>4, <1>5, GraphsDef
<1> QED BY <1>3, <1>4, <1>6 DEF SameShape

\* The server stops, and another one is restored.
LEMMA RestartKeeps ==
    ASSUME IInv, Restart
    PROVE  IInv'
<1> DEFINE kept == {t \in DOMAIN saved : Restorable(t)}
           graph(t) == IF t \in kept THEN Restored(saved[t]) ELSE <<>>
<1>1. /\ trees' = [t \in DOMAIN trees |-> [NewTree(trees[t].root) EXCEPT !.nodes = graph(t)]]
      /\ saved' = [t \in kept |-> trees'[t].nodes] /\ published' = kept
      /\ index' = [r \in UNION {RefersTo(saved[t]) : t \in kept} |->
                       CHOOSE t \in kept : r \in RefersTo(saved[t])]
      /\ slots' = <<>> /\ boundary' = 0 /\ draining' = {} /\ owed' = {} /\ raised' = FALSE
      /\ taken' = <<>> /\ overtaken' = {} /\ deliveries' = deliveries
  BY DEF Restart, Restored
<1>2. intake' = [n \in Nodes |-> [NoTurn EXCEPT !.known = intake[n].known, !.reply = intake[n].reply]]
  BY DEF Restart
<1>3. /\ \A t \in Trees : trees[t] \in TreeSet /\ trees[t].root \in Nodes
      /\ DOMAIN saved \subseteq Trees /\ kept \subseteq DOMAIN saved
      /\ \A t \in DOMAIN saved : saved[t] \in Graphs
      /\ Len(trees) \in Nat /\ DOMAIN trees = 1 .. Len(trees)
  BY TreesAre, TreeFields DEF IInv, TypeInv
<1>4. /\ \A t \in kept : WellFormed(trees[t].root, saved[t])
      /\ \A t, u \in kept : t # u => RefersTo(saved[t]) \cap RefersTo(saved[u]) = {}
  <2>1. \A t \in DOMAIN saved : WellFormed(trees[t].root, saved[t])
        /\ \A u \in DOMAIN saved : t # u => RefersTo(saved[t]) \cap RefersTo(saved[u]) = {}
    BY DEF IInv, StoreInv, SavedInv
  <2> QED BY <2>1
<1> HIDE DEF kept
<1>5. ASSUME NEW t \in Trees
      PROVE  /\ graph(t) \in Graphs
             /\ \A n \in DOMAIN graph(t) : graph(t)[n].state \notin Runnable /\ graph(t)[n].born = 0
             /\ t \in kept => SameShape(saved[t], graph(t))
  <2>1. CASE t \in kept BY <1>3, <2>1, RestoredGraph DEF SameShape
  <2>2. CASE t \notin kept
    <3>1. graph(t) = <<>> BY <2>2
    <3>2. DOMAIN <<>> = {} /\ <<>> \in [{} -> NodeSet] OBVIOUS
    <3> HIDE DEF graph
    <3>3. DOMAIN graph(t) = {} /\ graph(t) \in [{} -> NodeSet] BY <3>1, <3>2
    <3> QED BY <2>2, <3>3, GraphsDef
  <2> QED BY <2>1, <2>2
<1> HIDE DEF graph
<1>6. ASSUME NEW t \in Trees
      PROVE  /\ trees'[t] \in TreeSet /\ QueueInv(trees'[t], {}) /\ trees'[t].active = 0
             /\ trees'[t].root = trees[t].root /\ trees'[t].nodes = graph(t)
             /\ Pending(trees'[t]) = {} /\ Running(trees'[t]) = {} /\ Snapshot(trees'[t]) = graph(t)
  <2>1. trees'[t] = [NewTree(trees[t].root) EXCEPT !.nodes = graph(t)] BY <1>1 DEF Trees
  <2> QED BY <1>3, <1>5, <2>1, IdleTree
<1>7. DOMAIN trees' = DOMAIN trees /\ kept \subseteq Trees BY <1>1, <1>3
<1>8. \A t \in kept : /\ RefersTo(trees'[t].nodes) = RefersTo(saved[t])
                      /\ WellFormed(trees'[t].root, trees'[t].nodes)
                      /\ saved'[t] = trees'[t].nodes /\ saved'[t] = Snapshot(trees'[t])
                      /\ saved'[t] \in Graphs
  <2> TAKE t \in kept
  <2>1. t \in Trees /\ SameShape(saved[t], graph(t)) BY <1>5, <1>7
  <2>2. RefersTo(graph(t)) = RefersTo(saved[t]) BY <2>1, ShapeSame
  <2>3. WellFormed(trees[t].root, graph(t))
    <3>1. DOMAIN graph(t) = DOMAIN saved[t] BY <2>1 DEF SameShape
    <3> QED BY <1>4, <1>5, <2>1, <3>1, WellFormedKept
  <2> QED BY <1>1, <1>5, <1>6, <2>1, <2>2, <2>3
<1>9. Indexed(trees', published', index')
  <2>1. ASSUME NEW r \in DOMAIN index'
        PROVE  index'[r] \in kept /\ r \in RefersTo(saved[index'[r]])
    <3>1. \E t \in kept : r \in RefersTo(saved[t]) BY <1>1, <2>1
    <3>2. index'[r] = CHOOSE t \in kept : r \in RefersTo(saved[t]) BY <1>1, <2>1
    <3> QED BY <3>1, <3>2
  <2>2. ASSUME NEW t \in kept, NEW r \in RefersTo(saved[t])
        PROVE  r \in DOMAIN index' /\ index'[r] = t
    <3>1. r \in DOMAIN index' BY <1>1, <2>2
    <3> QED BY <1>4, <2>1, <3>1
  <2>3. published' = kept BY <1>1
  <2> QED BY <1>8, <2>1, <2>2, <2>3 DEF Indexed
<1>10. GraphInv'
  <2>1. \A t \in published' : WellFormed(trees'[t].root, trees'[t].nodes) BY <1>1, <1>8
  <2>2. \A t \in DOMAIN trees' : Pending(trees'[t]) = {} /\ Running(trees'[t]) = {}
    BY <1>6, <1>7 DEF Trees
  <2>3. NothingFromBefore'
    <3>1. \A t \in published' : t \in DOMAIN trees' BY <1>1, <1>7 DEF Trees
    <3> QED BY <2>2, <3>1 DEF NothingFromBefore, StopReachesAll, Pending, Running, Runnable
  <2> QED BY <1>9, <2>1, <2>2, <2>3 DEF GraphInv, Trees
<1>11. ClaimsInv'
  <2>1. DOMAIN slots' = {} BY <1>1
  <2>2. \A t \in DOMAIN trees' : QueueInv(trees'[t], {}) /\ trees'[t].active = 0
    BY <1>6, <1>7 DEF Trees
  <2> QED BY <2>1, <2>2 DEF ClaimsInv, ClaimInv, ActiveNode, Trees
<1>12. StoreInv'
  <2>1. DOMAIN saved' = kept /\ published' = kept /\ owed' = {} BY <1>1
  <2>2. \A t \in kept : saved'[t] = trees'[t].nodes /\ RefersTo(saved'[t]) = RefersTo(saved[t])
    BY <1>8
  <2>3. \A t, u \in kept : t # u => RefersTo(trees'[t].nodes) \cap RefersTo(saved'[u]) = {}
    BY <1>4, <1>8, <2>2
  <2>4. \A t \in kept : RefersTo(saved'[t]) \subseteq Refs(t)'
    BY <1>1, <1>9, <2>2 DEF Indexed, Refs
  <2>5. \A t \in kept : WellFormed(trees'[t].root, saved'[t]) BY <1>8
  <2>6. \A t \in kept : saved'[t] = Snapshot(trees'[t]) BY <1>8
  <2>7. SavedInv' BY <2>1, <2>2, <2>3, <2>4, <2>5, <2>6 DEF SavedInv, Portrays
  <2>8. DOMAIN taken' = {} BY <1>1
  <2>9. TakenInv' BY <2>1, <2>8 DEF TakenInv
  <2> QED BY <2>7, <2>9 DEF StoreInv
<1>13. TypeInv'
  <2>1. trees' \in Seq(TreeSet)
    <3>1. trees' = [t \in 1 .. Len(trees) |-> trees'[t]] BY <1>1, <1>3
    <3>2. trees' \in [1 .. Len(trees) -> TreeSet] BY <1>3, <1>6, <3>1 DEF Trees
    <3> QED BY <1>3, <3>2, FunctionIsSeq
  <2>2. slots' \in Seq(SlotSet) BY <1>1
  <2>3. intake' \in [Nodes -> TurnSet] /\ \A n \in Nodes : intake'[n].at = "idle"
    <3>1. \A n \in Nodes : intake'[n] \in TurnSet /\ intake'[n].at = "idle"
      <4> TAKE n \in Nodes
      <4> DEFINE known == [NoTurn EXCEPT !.known = intake[n].known]
      <4>1. intake[n] \in TurnSet BY DEF IInv, TypeInv
      <4>2. intake[n].known \in BOOLEAN /\ intake[n].reply \in References \cup {NoReference}
        BY <4>1 DEF TurnSet
      <4>3. NoTurn \in TurnSet /\ NoTurn.at = "idle" BY DEF NoTurn, TurnSet
      <4>4. known \in TurnSet /\ known.at = "idle" BY <4>2, <4>3 DEF TurnSet
      <4>5. intake'[n] = [known EXCEPT !.reply = intake[n].reply] BY <1>2, <4>3 DEF TurnSet
      <4> HIDE DEF known
      <4> QED BY <4>2, <4>4, <4>5 DEF TurnSet
    <3>2. intake' \in [Nodes -> TurnSet] BY <1>2, <3>1
    <3> QED BY <3>1, <3>2
  <2>4. saved' \in [DOMAIN saved' -> Graphs] /\ DOMAIN saved' \subseteq DOMAIN trees'
    BY <1>1, <1>7, <1>8 DEF Trees
  <2>5. DOMAIN index' \subseteq References
    <3>1. \A t \in kept : RefersTo(saved[t]) \subseteq References BY <1>3, RefersToTyped
    <3> QED BY <1>1, <3>1
  <2>6. \A t \in DOMAIN trees' : \A n \in DOMAIN trees'[t].nodes : trees'[t].nodes[n].born <= boundary'
    <3>1. boundary' = 0 BY <1>1
    <3>2. \A t \in DOMAIN trees' : \A n \in DOMAIN trees'[t].nodes : trees'[t].nodes[n].born = 0
      BY <1>5, <1>6, <1>7 DEF Trees
    <3> QED BY <3>1, <3>2
  <2>7. /\ boundary' \in Nat /\ deliveries' \in Nat /\ raised' \in BOOLEAN
        /\ published' \subseteq DOMAIN trees' /\ owed' \subseteq DOMAIN trees'
        /\ draining' \subseteq DOMAIN slots' /\ overtaken' \subseteq DOMAIN trees'
    BY <1>1, <1>7 DEF IInv, TypeInv, Trees
  <2>8. \A n \in Nodes : intake'[n].at # "sending" BY <2>3
  <2> QED BY <2>1, <2>2, <2>3, <2>4, <2>5, <2>6, <2>7, <2>8 DEF TypeInv, Trees
<1> QED BY <1>10, <1>11, <1>12, <1>13 DEF IInv

------------------------------------------------------------------------------
(* The invariant, and what follows                                          *)

\* It holds before the first prompt.
LEMMA InitIInv == Init => IInv
<1> SUFFICES ASSUME Init PROVE IInv OBVIOUS
<1>1. /\ trees = <<>> /\ published = {} /\ index = <<>> /\ slots = <<>> /\ boundary = 0
      /\ draining = {} /\ owed = {} /\ taken = <<>> /\ saved = <<>> /\ overtaken = {}
      /\ deliveries = 0 /\ raised = FALSE
      /\ intake = [n \in Nodes |-> NoTurn]
  BY DEF Init
<1>2. /\ DOMAIN trees = {} /\ DOMAIN slots = {} /\ DOMAIN index = {} /\ DOMAIN saved = {}
      /\ DOMAIN taken = {}
  BY <1>1
<1>3. NoTurn \in TurnSet /\ NoTurn.at = "idle" BY DEF NoTurn, TurnSet
<1>4. TypeInv
  <2>1. trees \in Seq(TreeSet) /\ slots \in Seq(SlotSet) /\ saved \in [{} -> Graphs] BY <1>1
  <2>2. intake \in [Nodes -> TurnSet] /\ \A n \in Nodes : intake[n].at # "sending" BY <1>1, <1>3
  <2> QED BY <1>1, <1>2, <2>1, <2>2 DEF TypeInv, Trees
<1>5. ClaimsInv BY <1>2 DEF ClaimsInv, Trees
<1>6. GraphInv BY <1>1, <1>2 DEF GraphInv, Indexed, NothingFromBefore, StopReachesAll, Trees
<1>7. StoreInv BY <1>1, <1>2 DEF StoreInv, SavedInv, TakenInv
<1> QED BY <1>4, <1>5, <1>6, <1>7 DEF IInv

\* Every step keeps it.
LEMMA NextIInv == IInv /\ [Next]_vars => IInv'
<1> SUFFICES ASSUME IInv, [Next]_vars PROVE IInv' OBVIOUS
<1>1. ASSUME NEW n \in Nodes,
             \/ \E r \in DOMAIN index \cup {NoReference, intake[n].reply} : Receive(n, r)
             \/ Discard(n) \/ Admit(n)
      PROVE  IInv'
  BY <1>1, ReceiveKeeps, DiscardKeeps, AdmitReplyKeeps, AdmitRootKeeps, AdmitAgainKeeps DEF Admit
<1>2. ASSUME NEW c \in DOMAIN slots, TaskStep(c) \/ Event(c) PROVE IInv' BY <1>2, TaskKeeps
<1>3. ASSUME NEW r \in DOMAIN index, StopReply(r) \/ ClearReply(r) PROVE IInv'
  BY <1>3, StopReplyKeeps, ClearReplyKeeps
<1>4. CASE StopAll \/ ClearChat \/ Drained \/ SaveTaken \/ Restart
  BY <1>4, StopAllKeeps, ClearChatKeeps, DrainedKeeps, SaveTakenKeeps, RestartKeeps
<1>5. CASE vars' = vars
  <2>1. /\ UNCHANGED <<treeVars, commandVars, storeVars>>
        /\ intake' = intake /\ deliveries' = deliveries /\ boundary' = boundary
    BY <1>5 DEF vars, intakeVars, commandVars
  <2> QED BY <2>1, TurnsKeep DEF IInv, TypeInv
<1> QED BY <1>1, <1>2, <1>3, <1>4, <1>5 DEF Next

\* IInv is an invariant of the conversations: of their trees, tasks, index
\* and store, through deliveries, tasks, commands and restarts.
THEOREM Invariance == Spec => []IInv
BY InitIInv, NextIInv, PTL DEF Spec

\* The trees, the tasks and the store have their types in every state.
THEOREM Typing == Spec => []TypeOK
<1>1. IInv => TypeOK
  <2> SUFFICES ASSUME IInv PROVE TypeOK OBVIOUS
  <2>1. /\ published \subseteq Trees /\ owed \subseteq Trees /\ DOMAIN saved \subseteq Trees
        /\ draining \subseteq DOMAIN slots /\ raised \in BOOLEAN /\ boundary \in Nat
        /\ DOMAIN index \subseteq References /\ overtaken \subseteq Trees
    BY DEF IInv, TypeInv
  <2>2. \A r \in DOMAIN index : index[r] \in Trees BY <2>1 DEF IInv, GraphInv, Indexed
  <2>3. ASSUME NEW t \in Trees
        PROVE  /\ trees[t].root \in Nodes /\ trees[t].queue \in Seq(Nodes)
               /\ trees[t].active \in {0} \cup DOMAIN slots /\ trees[t].requested \in BOOLEAN
               /\ DOMAIN trees[t].nodes \subseteq Nodes
               /\ \A n \in DOMAIN trees[t].nodes :
                     trees[t].nodes[n] \in [state : States, status : 0..MaxDeliveries,
                                            born : 0..boundary,
                                            parent : References \cup {NoReference}]
    <3>1. /\ trees[t].root \in Nodes /\ trees[t].queue \in Seq(Nodes)
          /\ trees[t].requested \in BOOLEAN /\ DOMAIN trees[t].nodes \subseteq Nodes
          /\ \A n \in DOMAIN trees[t].nodes : trees[t].nodes[n] \in NodeSet
      BY TreesAre, TreeFields
    <3>2. trees[t].active \in {0} \cup DOMAIN slots BY DEF IInv, ClaimsInv, ClaimInv
    <3>3. \A n \in DOMAIN trees[t].nodes : trees[t].nodes[n].born \in 0 .. boundary
      <4> TAKE n \in DOMAIN trees[t].nodes
      <4>1. trees[t].nodes[n].born \in Nat BY <3>1 DEF NodeSet
      <4>2. trees[t].nodes[n].born <= boundary BY DEF IInv, TypeInv
      <4> QED BY <2>1, <4>1, <4>2
    <3> QED BY <3>1, <3>2, <3>3 DEF NodeSet
  <2>4. \A c \in DOMAIN slots :
           slots[c] \in [tree : Trees, node : Nodes, at : Stages, cancel : Reasons]
    BY TreesAre DEF SlotSet
  <2>5. \A t \in DOMAIN saved : DOMAIN saved[t] \subseteq Nodes
    BY GraphsDef DEF IInv, TypeInv
  <2>6. DOMAIN taken \subseteq Trees /\ \A t \in DOMAIN taken : DOMAIN taken[t] \subseteq Nodes
    BY <2>1, GraphsDef DEF IInv, StoreInv, TakenInv
  <2> QED BY <2>1, <2>2, <2>3, <2>4, <2>5, <2>6 DEF TypeOK
<1> QED BY <1>1, Invariance, PTL

\* A tree's active claim is the one whose task has not finished, whatever is
\* cancelled, detached or restarted meanwhile.
THEOREM ClaimsStay == Spec => []ClaimsHaveTasks
<1>1. IInv => ClaimsHaveTasks BY DEF IInv, ClaimsInv, SlotInv, ClaimsHaveTasks
<1> QED BY <1>1, Invariance, PTL

\* A tree's queue is what is pending in its graph, and what is in progress has
\* the claim.
LEMMA QueuesAgree == IInv => QueueAgrees
<1> SUFFICES ASSUME IInv, NEW t \in Trees
             PROVE  LET tr == trees[t] IN
                    /\ IsInjective(tr.queue)
                    /\ Range(tr.queue) = {n \in Nodes : InState(tr, n, {"pending"})}
                    /\ {n \in Nodes : InState(tr, n, {"in_progress"})} \subseteq ActiveNode(tr)
                    /\ tr.queue # <<>> => tr.active # 0
  BY DEF QueueAgrees
<1> DEFINE tr == trees[t]
<1>1. tr \in TreeSet /\ QueueInv(tr, ActiveNode(tr)) /\ DOMAIN tr.nodes \subseteq Nodes
  BY TreesAre, TreeFields
<1> HIDE DEF tr
<1>2. /\ {n \in Nodes : InState(tr, n, {"pending"})} = Pending(tr)
      /\ {n \in Nodes : InState(tr, n, {"in_progress"})} = Running(tr)
  BY <1>1 DEF InState, Pending, Running
<1>3. tr.queue # <<>> => tr.active # 0 BY <1>1, NextIsFirst DEF QueueInv
<1> QED BY <1>1, <1>2, <1>3 DEF QueueInv, tr

\* The index is of the published trees' messages.
LEMMA IndicesAgree == IInv => IndexAgrees
<1> SUFFICES ASSUME IInv PROVE IndexAgrees OBVIOUS
<1>1. Indexed(trees, published, index) /\ DOMAIN index \subseteq References
  BY DEF IInv, TypeInv, GraphInv
<1>2. ASSUME NEW r \in DOMAIN index
      PROVE  /\ index[r] \in published /\ r.node \in DOMAIN trees[index[r]].nodes
             /\ r.status \in {0, trees[index[r]].nodes[r.node].status}
  <2>1. index[r] \in published /\ r \in RefersTo(trees[index[r]].nodes) /\ r \in References
    BY <1>1 DEF Indexed
  <2> QED BY <2>1, RefersToDef
<1>3. ASSUME NEW t \in published, NEW n \in DOMAIN trees[t].nodes
      PROVE  {Prompt(n), Status(n, trees[t].nodes[n].status)} \subseteq {r \in DOMAIN index : index[r] = t}
  BY <1>1, RefersToAll DEF Indexed
<1> QED BY <1>2, <1>3 DEF IndexAgrees

\* The store can be restored, and has the published trees between commands.
LEMMA StoresAgree == IInv => StoreAgrees
<1> SUFFICES ASSUME IInv PROVE StoreAgrees OBVIOUS
<1>1. SavedInv BY DEF IInv, StoreInv
<1>2. \A t \in DOMAIN saved : Restorable(t)
  <2> TAKE t \in DOMAIN saved
  <2>1. WellFormed(trees[t].root, saved[t]) BY <1>1 DEF SavedInv
  <2>2. \A u \in DOMAIN saved \ {t} : RefersTo(saved[u]) \cap RefersTo(saved[t]) = {}
    BY <1>1 DEF SavedInv
  <2> QED BY <2>1, <2>2 DEF Restorable
<1>3. ASSUME Unlocked, ~raised
      PROVE  DOMAIN saved = published /\ \A t \in published : Tells(saved[t], t)
  <2>1. owed = {} BY <1>3 DEF Unlocked
  <2>2. /\ DOMAIN saved = published
        /\ \A t \in published : Portrays(saved[t], trees[t], t, overtaken)
    BY <1>1, <1>3, <2>1 DEF SavedInv
  <2> QED BY <2>2 DEF Portrays, Tells
<1> QED BY <1>2, <1>3 DEF StoreAgrees

\* The graph, the queue, the index and the store agree: the repository never
\* runs a node twice, finds a removed message, or forgets or resurrects a tree.
THEOREM GraphsStay == Spec => []GraphsAgree
BY QueuesAgree, IndicesAgree, StoresAgree, Invariance, PTL DEF GraphsAgree

\* After a global /stop or /clear that did not raise, nothing received before
\* it waits or runs, not even a turn that was being admitted.
THEOREM NothingStays == Spec => []NothingFromBefore
<1>1. IInv => NothingFromBefore BY DEF IInv, GraphInv
<1> QED BY <1>1, Invariance, PTL

HIDE TreesAssumption

(***************************************************************************)
(* Proofs about NodeTurn: what is displayed.                               *)
(***************************************************************************)

\* The least and the greatest of some numbers.
LEMMA LeastNat == ASSUME NEW S \in SUBSET Nat, S # {} PROVE \E m \in S : \A x \in S : m <= x
<1>1. PICK m \in S : \A x \in S : <<x, m>> \notin OpToRel(<, Nat)
  BY NatLessThanWellFounded, WFMin
<1>2. ASSUME NEW x \in S PROVE m <= x
  <2>1. ~(x < m) BY <1>1 DEF OpToRel
  <2> QED BY <2>1
<1> QED BY <1>2

LEMMA MinIsLeast == ASSUME NEW S \in SUBSET Nat, S # {} PROVE Min(S) \in S /\ \A x \in S : Min(S) <= x
BY LeastNat DEF Min

LEMMA MaxIsGreatest ==
  ASSUME NEW n \in Nat, NEW S \in SUBSET (1 .. n), S # {}
  PROVE  Max(S) \in S /\ \A x \in S : x <= Max(S)
<1> DEFINE T == { n - x : x \in S }
<1>1. T \in SUBSET Nat /\ T # {}
  <2>1. ASSUME NEW x \in S PROVE n - x \in Nat OBVIOUS
  <2>2. T \in SUBSET Nat BY <2>1
  <2>3. PICK x \in S : TRUE OBVIOUS
  <2>4. n - x \in T BY <2>3
  <2> QED BY <2>2, <2>4
<1> HIDE DEF T
<1>2. PICK t \in T : \A u \in T : t <= u BY <1>1, LeastNat
<1>3. PICK m \in S : t = n - m BY <1>2 DEF T
<1>4. ASSUME NEW x \in S PROVE m >= x
  <2>1. n - x \in T BY DEF T
  <2>2. t <= n - x BY <1>2, <2>1
  <2> QED BY <1>3, <2>2
<1>5. \E y \in S : \A x \in S : y >= x BY <1>4
<1>6. Max(S) \in S /\ \A x \in S : Max(S) >= x BY <1>5 DEF Max
<1> QED BY <1>6

\* The sums a Total is the last of exist.
LEMMA TotalExists ==
  ASSUME NEW n \in Nat, NEW g
  PROVE  \E s : s = [k \in 0 .. n |-> IF k = 0 THEN 0 ELSE s[k - 1] + g[k]]
<1> DEFINE Good(m) == \E s : s = [k \in 0 .. m |-> IF k = 0 THEN 0 ELSE s[k - 1] + g[k]]
           S == { m \in Nat : ~Good(m) }
<1> SUFFICES S = {} OBVIOUS
<1> SUFFICES ASSUME S # {} PROVE FALSE OBVIOUS
<1> HIDE DEF Good
<1>1. PICK m \in S : \A x \in S : m <= x BY LeastNat
<1>2. CASE m = 0
  <2>1. [k \in 0 .. 0 |-> 0] = [k \in 0 .. 0 |-> IF k = 0 THEN 0 ELSE [j \in 0 .. 0 |-> 0][k - 1] + g[k]]
    OBVIOUS
  <2>2. Good(0) BY <2>1 DEF Good
  <2> QED BY <1>2, <2>2
<1>3. CASE m # 0
  <2>1. m \in Nat /\ m - 1 \in Nat BY <1>3
  <2>2. m - 1 \notin S BY <1>1, <2>1
  <2>3. PICK s : s = [k \in 0 .. m - 1 |-> IF k = 0 THEN 0 ELSE s[k - 1] + g[k]]
    BY <2>1, <2>2 DEF Good
  <2> DEFINE t == [k \in 0 .. m |-> IF k = m THEN s[m - 1] + g[m] ELSE s[k]]
  <2>4. ASSUME NEW k \in 0 .. m PROVE t[k] = IF k = 0 THEN 0 ELSE t[k - 1] + g[k]
    <3>1. CASE k = m BY <2>1, <1>3, <3>1
    <3>2. CASE k # m
      <4>1. k \in 0 .. m - 1 /\ t[k] = s[k] BY <2>1, <3>2
      <4>2. s[k] = IF k = 0 THEN 0 ELSE s[k - 1] + g[k] BY <2>3, <4>1
      <4>3. k # 0 => t[k - 1] = s[k - 1] BY <2>1, <4>1
      <4> QED BY <4>1, <4>2, <4>3
    <3> QED BY <3>1, <3>2
  <2>5. t = [k \in 0 .. m |-> t[k]] OBVIOUS
  <2> HIDE DEF t
  <2>6. t = [k \in 0 .. m |-> IF k = 0 THEN 0 ELSE t[k - 1] + g[k]] BY <2>4, <2>5
  <2>7. Good(m) BY <2>6 DEF Good
  <2> QED BY <2>7
<1> QED BY <1>2, <1>3

\* A sum of integers is one: no first partial sum is not.
LEMMA TotalIsInt ==
  ASSUME NEW n \in Nat, NEW g \in [1 .. n -> Int]
  PROVE  Total(n, g) \in Int
<1> DEFINE sum == CHOOSE s : s = [k \in 0 .. n |-> IF k = 0 THEN 0 ELSE s[k - 1] + g[k]]
           S == { k \in 0 .. n : sum[k] \notin Int }
<1>1. Total(n, g) = sum[n] BY DEF Total
<1>2. sum = [k \in 0 .. n |-> IF k = 0 THEN 0 ELSE sum[k - 1] + g[k]] BY TotalExists
<1> HIDE DEF sum
<1>3. ASSUME S # {} PROVE FALSE
  <2>0. S \in SUBSET Nat OBVIOUS
  <2>1. PICK m \in S : \A x \in S : m <= x BY <1>3, <2>0, LeastNat
  <2>2. m \in 0 .. n /\ sum[m] \notin Int OBVIOUS
  <2>3. sum[m] = IF m = 0 THEN 0 ELSE sum[m - 1] + g[m] BY <1>2, <2>2
  <2>4. CASE m = 0 BY <2>2, <2>3, <2>4
  <2>5. CASE m # 0
    <3>1. m - 1 \in 0 .. n /\ m - 1 \notin S BY <2>1, <2>2, <2>5
    <3>2. g[m] \in Int BY <2>2, <2>5
    <3> QED BY <2>2, <2>3, <2>5, <3>1, <3>2
  <2> QED BY <2>4, <2>5
<1>4. n \in 0 .. n OBVIOUS
<1> QED BY <1>1, <1>3, <1>4

\* The segments of a transcript.
Kinds == {"text", "thinking", "subagent", "tool", "error"}

SegmentSet == [kind : Kinds, parts : Seq(Nat)]

SegmentsTyped == segments \in Seq(SegmentSet)

LEMMA LengthIsInt == ASSUME NEW s \in SegmentSet PROVE Length(s) \in Int
<1>1. Len(s.parts) \in Nat BY DEF SegmentSet
<1> QED BY <1>1 DEF Length

LEMMA JoinedIsInt == ASSUME SegmentsTyped, NEW i \in Int PROVE Joined(i) \in Int
<1> DEFINE g == [k \in DOMAIN segments |->
                     IF k >= i /\ k \in Rendered THEN Length(segments[k]) + 1 ELSE 0]
<1>1. Len(segments) \in Nat /\ DOMAIN segments = 1 .. Len(segments) BY DEF SegmentsTyped
<1>2. \A k \in DOMAIN segments : Length(segments[k]) \in Int
  BY <1>1, LengthIsInt DEF SegmentsTyped
<1>3. g \in [1 .. Len(segments) -> Int] BY <1>1, <1>2
<1> HIDE DEF g
<1>4. Total(Len(segments), g) \in Int BY <1>1, <1>3, TotalIsInt
<1>5. Joined(i) = IF Total(Len(segments), g) = 0 THEN 0 ELSE Total(Len(segments), g) - 1
  BY DEF Joined, g
<1> QED BY <1>4, <1>5

\* What is displayed fits, whatever the lengths of the segments add up to.
LEMMA DisplaysFit == ASSUME SegmentsTyped PROVE DisplayFits
<1> SUFFICES ASSUME NEW limit \in Limits
             PROVE  /\ Display(limit).length <= limit \/ Display(limit).length = StatusLine
                    /\ \A i \in Rendered :
                         i < Display(limit).first => Joined(i) + Marker + 2 + StatusLine > limit
                    /\ Rendered # {} /\ (\A i \in Rendered : i < Display(limit).first)
                          => limit <= Marker + 2 + StatusLine + 20
  BY DEF DisplayFits
<1> DEFINE fit  == { i \in Rendered : Fits(i, Marker, limit) }
           room == limit - Marker - 2 - StatusLine
<1>1. limit \in Nat BY TurnBounds
<1>2. Rendered \in SUBSET (1 .. Len(segments)) /\ Len(segments) \in Nat BY DEF Rendered, SegmentsTyped
<1>3. \A i \in Rendered \cup {1} : Joined(i) \in Int BY <1>2, JoinedIsInt
<1>4. \A i \in Rendered : i \notin fit => Joined(i) + Marker + 2 + StatusLine > limit
  BY <1>1, <1>3 DEF Fits, Marker, StatusLine
<1>5. Marker = 16 /\ StatusLine = 20 BY DEF Marker, StatusLine
<1>6. \A i \in Rendered : i \in Nat /\ i >= 1 BY <1>2
<1>7. CASE Fits(1, 0, limit)
  <2>1. Display(limit) = [first |-> 1, tail |-> -1, length |-> Joined(1) + 2 + StatusLine]
    BY <1>7 DEF Display
  <2>2. Joined(1) + 2 + StatusLine <= limit BY <1>1, <1>3, <1>5, <1>7 DEF Fits
  <2> QED BY <1>6, <2>1, <2>2
<1>8. CASE ~Fits(1, 0, limit) /\ fit # {}
  <2>1. fit \in SUBSET Nat BY <1>6
  <2>2. Min(fit) \in fit /\ \A x \in fit : Min(fit) <= x BY <1>8, <2>1, MinIsLeast
  <2> DEFINE m == Min(fit)
  <2>3. Display(limit) = [first |-> m, tail |-> -1, length |-> Joined(m) + Marker + 2 + StatusLine]
    BY <1>8 DEF Display
  <2> HIDE DEF m
  <2>4. m \in fit /\ \A x \in fit : m <= x BY <2>2 DEF m
  <2>5. Joined(m) + Marker + 2 + StatusLine <= limit BY <2>4 DEF Fits
  <2>6. \A i \in Rendered : i < m => i \notin fit BY <1>6, <2>4
  <2>7. m \in Rendered /\ ~(m < m) BY <1>6, <2>4
  <2> QED BY <1>4, <2>3, <2>5, <2>6, <2>7
<1>9. CASE ~Fits(1, 0, limit) /\ fit = {} /\ room > 20
  <2> DEFINE m == Max(Rendered)
  <2>1. Display(limit) = [first |-> m, tail |-> room, length |-> limit] BY <1>9 DEF Display
  <2>2. Rendered # {} => m \in Rendered BY <1>2, MaxIsGreatest
  <2> HIDE DEF m
  <2>3. Rendered # {} => ~(\A i \in Rendered : i < m) BY <1>6, <2>2
  <2>4. limit <= limit BY <1>1
  <2> QED BY <1>4, <1>9, <2>1, <2>3, <2>4
<1>10. CASE ~Fits(1, 0, limit) /\ fit = {} /\ ~(room > 20)
  <2> DEFINE least == IF Marker + StatusLine <= limit THEN Marker + StatusLine ELSE StatusLine
  <2>1. Display(limit) = [first |-> Len(segments) + 1, tail |-> 0, length |-> least]
    BY <1>10 DEF Display
  <2>2. least <= limit \/ least = StatusLine OBVIOUS
  <2>3. limit <= Marker + 2 + StatusLine + 20 BY <1>1, <1>5, <1>10
  <2> HIDE DEF least
  <2> QED BY <1>4, <1>10, <2>1, <2>2, <2>3
<1> QED BY <1>7, <1>8, <1>9, <1>10

(***************************************************************************)
(* How a turn ends.  EndInv says of each place of the runner what its      *)
(* message says: of a turn that goes on that nothing final is recorded     *)
(* (OpenInv), of one that settles what it will record (SettlingInv), after *)
(* an error of the CLI that it was shown or more was heard (FailedInv), and*)
(* of one that is over what is recorded (EndedInv).                        *)
(***************************************************************************)

\* The statuses that tell of a failure or a cancellation.
Bad == Verdicts \ {"complete"}

\* The events a turn may hear.
TurnEvents == BlockEvents \cup {Error, Done}

\* The status messages.
Messages == [status : Statuses \cup Verdicts, all : BOOLEAN]

\* A failing runner left the message as it is, after an error of the CLI.
TellsFailure == WentOn \/ message.status \in Bad

\* Before its end a turn is not recorded as completed, and one cancelled does not
\* come back to its events.
OpenInv ==
    turn.at \in {"starting", "reading", "settling"} =>
        /\ claim.state # "completed"
        /\ turn.at # "settling" \/ turn.next = "reading" => claim.cancel = "none" /\ turn.guarded

\* What a turn that settles will record, and what its message says of it.
SettlingInv ==
    turn.at = "settling" =>
        /\ turn.result \in {"completed", "error"} /\ turn.next \in {"reading", "removing"}
        /\ turn.next = "reading" => turn.result = "error"
        /\ ~turn.guarded => turn.result = "error"
        /\ turn.result = "completed" =>
              claim.cancel = "none" /\ message = [status |-> "complete", all |-> TRUE]
        /\ turn.result = "error" /\ turn.next = "removing" /\ claim.cancel # "clear" => TellsFailure

\* The CLI reported an error, after which the message said so or more was heard.
FailedInv ==
    /\ turn.at = "starting" => ~turn.failed
    /\ turn.failed => \E n \in DOMAIN heard : heard[n] = Error
    /\ turn.failed /\ (turn.at = "reading" \/ (turn.at = "settling" /\ turn.next = "reading"))
          => TellsFailure

\* After its end the message fits what is recorded.
EndedInv ==
    turn.at \in {"removing", "done"} /\ claim.cancel # "clear" =>
        IF claim.state = "completed" THEN message = [status |-> "complete", all |-> TRUE]
        ELSE TellsFailure

\* The types.
TurnTypes ==
    /\ turn \in [at : {"starting", "reading", "settling", "removing", "done"}, status : Statuses,
                 failed : BOOLEAN, result : {"none", "completed", "error"},
                 next : {"none", "reading", "removing"}, guarded : BOOLEAN]
    /\ claim \in [state : {"in_progress", "completed", "error"}, cancel : {"none", "stop", "clear"}]
    /\ heard \in Seq(TurnEvents)
    /\ recent \in BOOLEAN /\ message \in Messages

EndInv == TurnTypes /\ OpenInv /\ SettlingInv /\ FailedInv /\ EndedInv

\* Events are only added, and more was heard than what was there before.
LEMMA HearMore ==
  ASSUME heard \in Seq(TurnEvents), NEW e \in TurnEvents, Hears(e)
  PROVE  /\ heard' \in Seq(TurnEvents)
         /\ WentOn => WentOn'
         /\ (\E n \in DOMAIN heard : heard[n] = Error) =>
               WentOn' /\ \E n \in DOMAIN heard' : heard'[n] = Error
         /\ e = Error => \E n \in DOMAIN heard' : heard'[n] = Error
<1>1. heard' = Append(heard, e) BY DEF Hears
<1>2. /\ heard' \in Seq(TurnEvents) /\ Len(heard') = Len(heard) + 1 /\ Len(heard) \in Nat
      /\ DOMAIN heard = 1 .. Len(heard) /\ DOMAIN heard' = 1 .. Len(heard')
      /\ heard'[Len(heard')] = e
      /\ \A n \in DOMAIN heard : heard'[n] = heard[n]
  BY <1>1
<1> QED BY <1>2 DEF WentOn

\* What an unthrottled update leaves.
LEMMA Shown ==
  ASSUME NEW status \in Statuses \cup Verdicts, NEW forced \in BOOLEAN,
         message \in Messages, recent \in BOOLEAN,
         Update(status, forced)
  PROVE  /\ message' \in Messages /\ recent' \in BOOLEAN
         /\ forced => message' = [status |-> status, all |-> TRUE]
<1>1. CASE recent /\ ~forced
  <2>1. message' = [message EXCEPT !.all = FALSE] /\ recent' = recent /\ ~forced BY <1>1 DEF Update
  <2>2. message' \in Messages BY <2>1 DEF Messages
  <2> QED BY <2>1, <2>2
<1>2. CASE ~(recent /\ ~forced)
  <2>1. message' = [status |-> status, all |-> TRUE] /\ recent' = TRUE BY <1>2 DEF Update
  <2>2. message' \in Messages BY <2>1 DEF Messages
  <2> QED BY <2>1, <2>2
<1> QED BY <1>1, <1>2

\* A turn that settles after it showed an error is well described.
LEMMA SettleError ==
  ASSUME EndInv, NEW next \in {"reading", "removing"}, NEW guarded \in BOOLEAN, NEW failed \in BOOLEAN,
         Settles("error", next, guarded, failed), UNCHANGED claim,
         turn.at \in {"starting", "reading"}, TellsFailure',
         heard' \in Seq(TurnEvents), message' \in Messages, recent' \in BOOLEAN,
         failed => (\E n \in DOMAIN heard : heard[n] = Error)',
         next = "reading" => guarded
  PROVE  EndInv'
<1> USE DEF Settles
<1>1. TurnTypes' BY DEF EndInv, TurnTypes
<1>2. /\ turn'.at = "settling" /\ turn'.result = "error" /\ turn'.next = next
      /\ turn'.guarded = guarded /\ turn'.failed = failed
  BY DEF EndInv, TurnTypes
<1>3. claim' = claim /\ claim.state # "completed" /\ claim.cancel = "none" BY DEF EndInv, OpenInv
<1>4. OpenInv' /\ SettlingInv' BY <1>2, <1>3 DEF OpenInv, SettlingInv
<1>5. FailedInv' /\ EndedInv' BY <1>2 DEF FailedInv, EndedInv
<1> QED BY <1>1, <1>4, <1>5 DEF EndInv

LEMMA EndInitInv == TurnInit => EndInv
<1> SUFFICES ASSUME TurnInit PROVE EndInv OBVIOUS
<1>1. TurnTypes
  <2>1. << >> \in Seq(TurnEvents) OBVIOUS
  <2>2. [status |-> "launching", all |-> TRUE] \in Messages BY DEF Messages, Statuses
  <2>3. turn \in [at : {"starting", "reading", "settling", "removing", "done"}, status : Statuses,
                  failed : BOOLEAN, result : {"none", "completed", "error"},
                  next : {"none", "reading", "removing"}, guarded : BOOLEAN]
    BY DEF TurnInit, Statuses
  <2> QED BY <2>1, <2>2, <2>3 DEF TurnInit, TurnTypes
<1>2. turn.at = "starting" /\ turn.failed = FALSE /\ turn.guarded = TRUE /\ claim.state = "in_progress"
      /\ claim.cancel = "none"
  BY DEF TurnInit
<1>3. OpenInv /\ SettlingInv /\ FailedInv /\ EndedInv BY <1>2 DEF OpenInv, SettlingInv, FailedInv, EndedInv
<1> QED BY <1>1, <1>3 DEF EndInv

\* What only changes the transcript's or the runner's place keeps the story.
LEMMA EndStays ==
  ASSUME EndInv, UNCHANGED << turn, claim, heard, message >>, recent' \in BOOLEAN
  PROVE  EndInv'
<1>1. TellsFailure' <=> TellsFailure BY DEF TellsFailure, WentOn
<1> QED BY <1>1 DEF EndInv, TurnTypes, OpenInv, SettlingInv, FailedInv, EndedInv

LEMMA GetSessionInv == ASSUME EndInv, GetSession PROVE EndInv'
<1>1. /\ turn' = [turn EXCEPT !.at = "reading"] /\ turn.at = "starting"
      /\ UNCHANGED << claim, heard, recent, message >>
  BY DEF GetSession
<1>2. turn'.at = "reading" /\ turn'.failed = turn.failed /\ turn'.next = turn.next
  BY <1>1 DEF EndInv, TurnTypes
<1>3. TurnTypes' BY <1>1 DEF EndInv, TurnTypes
<1> QED BY <1>1, <1>2, <1>3 DEF EndInv, OpenInv, SettlingInv, FailedInv, EndedInv, TellsFailure, WentOn

\* An error that is shown is told.
LEMMA ErrorShown ==
  ASSUME EndInv, NEW status \in Bad, ShowEnd(Error, status)
  PROVE  /\ heard' \in Seq(TurnEvents) /\ message' \in Messages /\ recent' \in BOOLEAN /\ TellsFailure'
         /\ (\E n \in DOMAIN heard : heard[n] = Error)'
<1>1. Error \in TurnEvents /\ heard \in Seq(TurnEvents) BY DEF EndInv, TurnTypes, TurnEvents
<1>2. Hears(Error) /\ Update(status, TRUE) BY DEF ShowEnd
<1>3. status \in Statuses \cup Verdicts /\ message \in Messages /\ recent \in BOOLEAN
  BY DEF Bad, EndInv, TurnTypes
<1>4. message' \in Messages /\ recent' \in BOOLEAN /\ message' = [status |-> status, all |-> TRUE]
  BY <1>2, <1>3, Shown
<1>5. TellsFailure' BY <1>4 DEF TellsFailure, Bad
<1> QED BY <1>1, <1>2, <1>4, <1>5, HearMore

LEMMA BadStatuses == {"error", "failed", "limit", "stopped", "cancelled"} \subseteq Bad
BY DEF Bad, Verdicts

LEMMA HearErrorInv == ASSUME EndInv, HearError PROVE EndInv'
<1>1. /\ turn.at = "reading" /\ ShowEnd(Error, "error") /\ UNCHANGED claim
      /\ Settles("error", "reading", TRUE, TRUE)
  BY DEF HearError, Reads
<1> QED BY <1>1, ErrorShown, BadStatuses, SettleError

\* The three ends after which a runner that failed leaves the message as it is.
LEMMA FailingExit ==
  ASSUME EndInv, NEW status \in Bad, turn.at = "reading",
         IF turn.failed THEN UNCHANGED << heard, transcript, recent, message >>
         ELSE ShowEnd(Error, status),
         Settles("error", "removing", TRUE, turn.failed), UNCHANGED claim
  PROVE  EndInv'
<1>1. turn.failed \in BOOLEAN BY DEF EndInv, TurnTypes
<1>2. CASE turn.failed
  <2>1. UNCHANGED << heard, recent, message >> BY <1>2
  <2>2. TellsFailure /\ (\E n \in DOMAIN heard : heard[n] = Error) BY <1>2 DEF EndInv, FailedInv
  <2>3. TellsFailure' /\ (\E n \in DOMAIN heard : heard[n] = Error)'
    BY <2>1, <2>2 DEF TellsFailure, WentOn
  <2>4. heard' \in Seq(TurnEvents) /\ message' \in Messages /\ recent' \in BOOLEAN
    BY <2>1 DEF EndInv, TurnTypes
  <2> QED BY <1>1, <2>3, <2>4, SettleError
<1>3. CASE ~turn.failed
  <2>1. ShowEnd(Error, status) BY <1>3
  <2> QED BY <1>1, <2>1, ErrorShown, SettleError
<1> QED BY <1>2, <1>3

LEMMA ExitBadlyInv == ASSUME EndInv, ExitBadly PROVE EndInv'
BY FailingExit, BadStatuses DEF ExitBadly

LEMMA EndSilentlyInv == ASSUME EndInv, EndSilently PROVE EndInv'
BY FailingExit, BadStatuses DEF EndSilently

LEMMA RefusedInv == ASSUME EndInv, Refused PROVE EndInv'
<1>1. /\ turn.at = "starting" /\ ShowEnd(Error, "limit") /\ UNCHANGED claim
      /\ Settles("error", "removing", TRUE, FALSE)
  BY DEF Refused
<1> QED BY <1>1, ErrorShown, BadStatuses, SettleError

LEMMA BreaksInv == ASSUME EndInv, Breaks PROVE EndInv'
<1>1. /\ turn.at \in {"starting", "reading"} /\ ShowEnd(Error, "failed") /\ UNCHANGED claim
      /\ Settles("error", "removing", FALSE, turn.failed)
  BY DEF Breaks
<1>2. turn.failed \in BOOLEAN BY DEF EndInv, TurnTypes
<1> QED BY <1>1, <1>2, ErrorShown, BadStatuses, SettleError

LEMMA StatusIsOne == ASSUME NEW e PROVE StatusOf(e) \in Statuses
BY DEF StatusOf, Statuses, IsTask

LEMMA HearBlockInv == ASSUME EndInv, NEW e \in BlockEvents, HearBlock(e) PROVE EndInv'
<1> DEFINE status == IF e.type = "stop" THEN turn.status ELSE StatusOf(e)
<1>1. /\ turn.at = "reading" /\ Hears(e) /\ Update(status, e.type = "stop")
      /\ turn' = [turn EXCEPT !.status = status] /\ UNCHANGED claim
  BY DEF HearBlock, Reads
<1>2. status \in Statuses BY StatusIsOne DEF EndInv, TurnTypes
<1> HIDE DEF status
<1>3. status \in Statuses \cup Verdicts /\ (e.type = "stop") \in BOOLEAN BY <1>2
<1>4. message' \in Messages /\ recent' \in BOOLEAN BY <1>1, <1>3, Shown DEF EndInv, TurnTypes
<1>5. e \in TurnEvents BY DEF TurnEvents
<1>6. /\ heard' \in Seq(TurnEvents)
      /\ (\E n \in DOMAIN heard : heard[n] = Error) => WentOn' /\ (\E n \in DOMAIN heard : heard[n] = Error)'
  BY <1>1, <1>5, HearMore DEF EndInv, TurnTypes
<1>7. turn'.at = "reading" /\ turn'.failed = turn.failed BY <1>1 DEF EndInv, TurnTypes
<1>8. TurnTypes' BY <1>1, <1>2, <1>4, <1>6 DEF EndInv, TurnTypes
<1>9. OpenInv' BY <1>1, <1>7 DEF EndInv, OpenInv
<1>10. FailedInv' BY <1>1, <1>6, <1>7 DEF EndInv, FailedInv, TellsFailure
<1> QED BY <1>7, <1>8, <1>9, <1>10 DEF EndInv, SettlingInv, EndedInv

LEMMA ExitWellInv == ASSUME EndInv, ExitWell PROVE EndInv'
<1>1. /\ turn.at = "reading" /\ UNCHANGED claim /\ Update("complete", TRUE)
      /\ IF heard = << >> THEN Hears(Done) ELSE UNCHANGED << heard, transcript >>
      /\ turn' = [turn EXCEPT !.at = "settling", !.result = "completed", !.next = "removing",
                              !.guarded = TRUE, !.failed = turn.failed]
  BY DEF ExitWell, Settles
<1>2. "complete" \in Statuses \cup Verdicts BY DEF Verdicts
<1>3. /\ message' \in Messages /\ recent' \in BOOLEAN
      /\ message' = [status |-> "complete", all |-> TRUE]
  BY <1>1, <1>2, Shown DEF EndInv, TurnTypes
<1>4. /\ heard' \in Seq(TurnEvents)
      /\ (\E n \in DOMAIN heard : heard[n] = Error) => (\E n \in DOMAIN heard : heard[n] = Error)'
  <2>1. heard \in Seq(TurnEvents) /\ Done \in TurnEvents BY DEF EndInv, TurnTypes, TurnEvents
  <2>2. CASE heard = << >> BY <1>1, <2>1, <2>2, HearMore
  <2>3. CASE heard # << >> BY <1>1, <2>1, <2>3
  <2> QED BY <2>2, <2>3
<1>5. /\ turn'.at = "settling" /\ turn'.failed = turn.failed /\ turn'.next = "removing"
      /\ turn'.result = "completed" /\ turn'.guarded = TRUE
  BY <1>1 DEF EndInv, TurnTypes
<1>6. TurnTypes' BY <1>1, <1>3, <1>4 DEF EndInv, TurnTypes
<1>7. claim' = claim /\ claim.state # "completed" /\ claim.cancel = "none" BY <1>1 DEF EndInv, OpenInv
<1>8. OpenInv' /\ SettlingInv' BY <1>3, <1>5, <1>7 DEF OpenInv, SettlingInv
<1>9. FailedInv' /\ EndedInv' BY <1>4, <1>5 DEF EndInv, FailedInv, EndedInv
<1> QED BY <1>6, <1>8, <1>9 DEF EndInv

LEMMA SettleInv == ASSUME EndInv, Settle PROVE EndInv'
<1>1. /\ turn.at = "settling" /\ turn' = [turn EXCEPT !.at = turn.next]
      /\ claim' = [claim EXCEPT !.state = Recorded(turn.result)]
      /\ UNCHANGED << heard, recent, message >>
  BY DEF Settle
<1>2. /\ turn'.at = turn.next /\ turn'.failed = turn.failed /\ turn'.next = turn.next
      /\ turn'.guarded = turn.guarded
      /\ claim'.state = Recorded(turn.result) /\ claim'.cancel = claim.cancel
  BY <1>1 DEF EndInv, TurnTypes
<1>3. /\ turn.result \in {"completed", "error"} /\ turn.next \in {"reading", "removing"}
      /\ claim.state # "completed"
  BY <1>1 DEF EndInv, SettlingInv, OpenInv
<1>4. Recorded(turn.result) = IF claim.cancel # "none" THEN claim.state ELSE turn.result
  BY <1>3 DEF Recorded
<1>5. TurnTypes' BY <1>1, <1>3, <1>4 DEF EndInv, TurnTypes
<1>6. TellsFailure' <=> TellsFailure BY <1>1 DEF TellsFailure, WentOn
<1>7. CASE turn.next = "reading"
  <2>1. turn.result = "error" /\ claim.cancel = "none" /\ turn.guarded
    BY <1>1, <1>7 DEF EndInv, SettlingInv, OpenInv
  <2>2. OpenInv' /\ SettlingInv' /\ EndedInv'
    BY <1>2, <1>4, <1>7, <2>1 DEF OpenInv, SettlingInv, EndedInv
  <2>3. FailedInv' BY <1>1, <1>2, <1>6, <1>7 DEF EndInv, FailedInv
  <2> QED BY <1>5, <2>2, <2>3 DEF EndInv
<1>8. CASE turn.next = "removing"
  <2>1. OpenInv' /\ SettlingInv' BY <1>2, <1>8 DEF OpenInv, SettlingInv
  <2>2. FailedInv' BY <1>1, <1>2, <1>8 DEF EndInv, FailedInv
  <2>3. EndedInv'
    <3>1. CASE turn.result = "completed"
      <4>1. claim.cancel = "none" /\ message = [status |-> "complete", all |-> TRUE]
        BY <1>1, <3>1 DEF EndInv, SettlingInv
      <4> QED BY <1>1, <1>2, <1>4, <3>1, <4>1 DEF EndedInv
    <3>2. CASE turn.result = "error"
      <4>1. claim.cancel # "clear" => TellsFailure BY <1>1, <1>8, <3>2 DEF EndInv, SettlingInv
      <4>2. claim'.state # "completed" BY <1>2, <1>3, <1>4, <3>2
      <4> QED BY <1>2, <1>6, <4>1, <4>2 DEF EndedInv
    <3> QED BY <1>3, <3>1, <3>2
  <2> QED BY <1>5, <2>1, <2>2, <2>3 DEF EndInv
<1> QED BY <1>3, <1>7, <1>8

LEMMA RemoveSessionInv == ASSUME EndInv, RemoveSession PROVE EndInv'
<1>1. /\ turn.at = "removing" /\ turn' = [turn EXCEPT !.at = "done"]
      /\ UNCHANGED << claim, heard, recent, message >>
  BY DEF RemoveSession
<1>2. turn'.at = "done" /\ turn'.failed = turn.failed BY <1>1 DEF EndInv, TurnTypes
<1>3. TurnTypes' BY <1>1 DEF EndInv, TurnTypes
<1>4. TellsFailure' <=> TellsFailure BY <1>1 DEF TellsFailure, WentOn
<1> QED BY <1>1, <1>2, <1>3, <1>4 DEF EndInv, OpenInv, SettlingInv, FailedInv, EndedInv

LEMMA ElapseInv == ASSUME EndInv, Elapse PROVE EndInv'
BY EndStays DEF Elapse

LEMMA CancelInv == ASSUME EndInv, NEW reason \in {"stop", "clear", "none"}, Cancel(reason) PROVE EndInv'
<1>1. /\ turn.at \in {"starting", "reading", "settling", "removing"} /\ claim.cancel = "none"
      /\ claim' = IF reason = "none" THEN claim
                  ELSE [state  |-> IF claim.state = "in_progress" THEN "error" ELSE claim.state,
                        cancel |-> reason]
  BY DEF Cancel
<1>2. /\ claim'.cancel = reason
      /\ claim' \in [state : {"in_progress", "completed", "error"}, cancel : {"none", "stop", "clear"}]
      /\ claim'.state = "completed" <=> claim.state = "completed"
  BY <1>1 DEF EndInv, TurnTypes
<1>3. CASE turn.at = "removing" \/ ~turn.guarded
  <2>1. /\ turn' = [turn EXCEPT !.at = IF turn.at = "removing" THEN "done" ELSE "removing"]
        /\ UNCHANGED << heard, recent, message >>
    BY <1>3 DEF Cancel
  <2>2. turn'.at \in {"removing", "done"} /\ turn'.failed = turn.failed
    BY <2>1 DEF EndInv, TurnTypes
  <2>3. TurnTypes' BY <1>2, <2>1 DEF EndInv, TurnTypes
  <2>4. TellsFailure' <=> TellsFailure BY <2>1 DEF TellsFailure, WentOn
  <2>5. FailedInv' BY <2>1, <2>2 DEF EndInv, FailedInv
  <2>6. EndedInv'
    <3>1. CASE turn.at = "removing" BY <1>1, <1>2, <2>1, <2>4, <3>1 DEF EndInv, EndedInv
    <3>2. CASE turn.at = "settling" /\ ~turn.guarded
      <4>1. claim.state # "completed" /\ TellsFailure
        BY <1>1, <3>2 DEF EndInv, OpenInv, SettlingInv
      <4> QED BY <1>2, <2>4, <4>1 DEF EndedInv
    <3>3. turn.at \in {"starting", "reading"} => turn.guarded BY DEF EndInv, OpenInv
    <3> QED BY <1>1, <1>3, <3>1, <3>2, <3>3
  <2> QED BY <2>2, <2>3, <2>5, <2>6 DEF EndInv, OpenInv, SettlingInv
<1>4. CASE turn.at # "removing" /\ turn.guarded
  <2>1. /\ ShowCancelled(reason)
        /\ turn' = [turn EXCEPT !.at = "settling", !.result = "error", !.next = "removing",
                                !.guarded = FALSE, !.failed = turn.failed]
    BY <1>4 DEF Cancel, Settles
  <2>2. /\ turn'.at = "settling" /\ turn'.result = "error" /\ turn'.next = "removing"
        /\ turn'.guarded = FALSE /\ turn'.failed = turn.failed
    BY <2>1 DEF EndInv, TurnTypes
  <2>3. /\ heard' \in Seq(TurnEvents) /\ message' \in Messages /\ recent' \in BOOLEAN
        /\ (\E n \in DOMAIN heard : heard[n] = Error) => (\E n \in DOMAIN heard : heard[n] = Error)'
        /\ reason # "clear" => TellsFailure'
    <3>1. CASE reason = "stop"
      <4>1. UNCHANGED heard /\ Update("stopped", TRUE) BY <2>1, <3>1 DEF ShowCancelled
      <4>2. "stopped" \in Statuses \cup Verdicts BY DEF Verdicts
      <4>3. /\ message' \in Messages /\ recent' \in BOOLEAN
            /\ message' = [status |-> "stopped", all |-> TRUE]
        BY <4>1, <4>2, Shown DEF EndInv, TurnTypes
      <4>4. TellsFailure' BY <4>3, BadStatuses DEF TellsFailure
      <4> QED BY <4>1, <4>3, <4>4 DEF EndInv, TurnTypes
    <3>2. CASE reason = "clear"
      <4>1. UNCHANGED << heard, recent, message >> BY <2>1, <3>2 DEF ShowCancelled
      <4> QED BY <3>2, <4>1 DEF EndInv, TurnTypes
    <3>3. CASE reason = "none"
      <4>1. ShowEnd(Error, "cancelled") BY <2>1, <3>3 DEF ShowCancelled
      <4> QED BY <4>1, ErrorShown, BadStatuses
    <3> QED BY <3>1, <3>2, <3>3
  <2>4. TurnTypes' BY <1>2, <2>1, <2>3 DEF EndInv, TurnTypes
  <2>5. claim.state # "completed" BY <1>1, <1>4 DEF EndInv, OpenInv
  <2>6. OpenInv' /\ SettlingInv' BY <1>2, <2>2, <2>3, <2>5 DEF OpenInv, SettlingInv
  <2>7. FailedInv' /\ EndedInv' BY <2>2, <2>3 DEF EndInv, FailedInv, EndedInv
  <2> QED BY <2>4, <2>6, <2>7 DEF EndInv
<1>5. turn.guarded \in BOOLEAN BY DEF EndInv, TurnTypes
<1> QED BY <1>3, <1>4, <1>5

LEMMA EndStepInv == EndInv /\ [TurnNext]_turnVars => EndInv'
<1> SUFFICES ASSUME EndInv, [TurnNext]_turnVars PROVE EndInv' OBVIOUS
<1>1. CASE GetSession BY <1>1, GetSessionInv
<1>2. CASE HearError BY <1>2, HearErrorInv
<1>3. CASE ExitWell BY <1>3, ExitWellInv
<1>4. CASE ExitBadly BY <1>4, ExitBadlyInv
<1>5. CASE EndSilently BY <1>5, EndSilentlyInv
<1>6. CASE Refused BY <1>6, RefusedInv
<1>7. CASE Breaks BY <1>7, BreaksInv
<1>8. CASE Settle BY <1>8, SettleInv
<1>9. CASE RemoveSession BY <1>9, RemoveSessionInv
<1>10. CASE Elapse BY <1>10, ElapseInv
<1>11. CASE \E e \in BlockEvents : HearBlock(e) BY <1>11, HearBlockInv
<1>12. CASE \E reason \in {"stop", "clear", "none"} : Cancel(reason) BY <1>12, CancelInv
<1>13. CASE UNCHANGED turnVars
  <2>1. UNCHANGED << turn, claim, heard, message >> /\ recent' = recent BY <1>13 DEF turnVars
  <2>2. recent' \in BOOLEAN BY <2>1 DEF EndInv, TurnTypes
  <2> QED BY <2>1, <2>2, EndStays
<1> QED BY <1>1, <1>2, <1>3, <1>4, <1>5, <1>6, <1>7, <1>8, <1>9, <1>10, <1>11, <1>12, <1>13 DEF TurnNext

\* Whatever results look like, the message of a turn that is over says how it
\* ended (node_runner.py, node_event_pipeline.py).
THEOREM ToldEnds == TurnSpec => []EndIsTold
<1>1. TurnInit => EndInv BY EndInitInv
<1>2. EndInv /\ [TurnNext]_turnVars => EndInv' BY EndStepInv
<1>3. EndInv => EndIsTold BY DEF EndInv, EndedInv, EndIsTold, TellsFailure, Bad
<1> QED BY <1>1, <1>2, <1>3, PTL DEF TurnSpec

(***************************************************************************)
(* What a turn shows.  StackInv says that the active Tasks are some of those*)
(* heard, in their order, that none of them was answered, and that a Task  *)
(* not answered is active unless an older one was.                         *)
(***************************************************************************)

\* A result looks like one of at most one Task.
TasksApart ==
    \A u, v \in { w \in Streamed \cup Given : w.name = "Task" }, r \in ResultIds :
        Same(u.id, r) /\ Same(v.id, r) => u.id = v.id

\* The Tasks heard.
Task(j) == j \in DOMAIN heard /\ IsTask(heard[j])

\* A Task with an id.
Known(j) == Task(j) /\ heard[j].id # NoId

\* The ids of tools.
Ids == { u.id : u \in Streamed \cup Given }

\* No result up to n answers the Task begun at j.
Unheard(j, n) == ~AnsweredIn(j, j + 1, n)

\* What is displayed was heard.
PartsHeard ==
    \A i \in DOMAIN segments : \A p \in DOMAIN segments[i].parts :
        segments[i].parts[p] \in 1 .. Len(heard)

\* Segments show what was heard, what is open is a segment of its kind, and an
\* active Task has a segment.
TranscriptTypes ==
    /\ SegmentsTyped
    /\ PartsHeard
    /\ open \in [tool : 0 .. Len(heard), thinking : 0 .. Len(segments), text : 0 .. Len(segments)]
    /\ \A k \in Prose : open[k] # 0 => segments[open[k]].kind = k
    /\ stack \in Seq([id : Ids, segment : 1 .. Len(segments)])

\* The ids of Tasks are their own; active Tasks were begun and not answered, the
\* younger after the older; and one not answered is active, unless an older was.
StackInv ==
    /\ \A i, j \in DOMAIN heard : Known(i) /\ Known(j) /\ heard[i].id = heard[j].id => i = j
    /\ \A d \in DOMAIN stack : \E j \in DOMAIN heard : Task(j) /\ heard[j].id = stack[d].id
    /\ \A d \in DOMAIN stack : \A j \in DOMAIN heard :
          Known(j) /\ heard[j].id = stack[d].id => Unheard(j, Len(heard))
    /\ \A c, d \in DOMAIN stack : \A i, j \in DOMAIN heard :
          c < d /\ Known(i) /\ Known(j) /\ heard[i].id = stack[c].id /\ heard[j].id = stack[d].id => i < j
    /\ \A j \in DOMAIN heard :
          Known(j) /\ Unheard(j, Len(heard)) /\ (\A i \in Tasks(j) : ~AnsweredIn(i, j + 1, Len(heard)))
             => \E d \in DOMAIN stack : stack[d].id = heard[j].id

\* The inductive invariant of the transcript.
TranscriptInv == heard \in Seq(TurnEvents) /\ TranscriptTypes /\ StackInv /\ SubagentsStayInside

\* The fields of the events a turn may hear.
LEMMA EventShape ==
  ASSUME NEW e \in TurnEvents
  PROVE  /\ e.type \in {"chunk", "start", "use", "stop", "result", "error"}
         /\ e.kind \in {"text", "thinking", "tool", "block", "result", "error"}
         /\ e.type = "chunk" => e.kind \in Prose
         /\ e.type = "start" => e.kind \in Prose \cup {"tool"}
         /\ e.kind \in Prose => e.type \in {"chunk", "start"}
         /\ e.type = "stop" <=> e.kind = "block"
         /\ e.type = "result" <=> e.kind = "result"
         /\ e.type = "error" <=> e.kind = "error"
         /\ e.kind = "tool" => /\ e.type \in {"start", "use"} /\ e.id \in Ids
                               /\ \E u \in Streamed \cup Given : e.id = u.id /\ e.name = u.name
         /\ e.type = "result" => e.id \in ResultIds
<1> USE DEF CliEvent, Prose
<1>1. CASE e = Error BY <1>1 DEF Error
<1>2. CASE e = Done BY <1>2 DEF Done
<1>3. CASE \E k \in Prose : e = CliEvent("chunk", k, 0, NoId, "")
  <2>1. PICK k \in Prose : e = CliEvent("chunk", k, 0, NoId, "") BY <1>3
  <2>2. e.type = "chunk" /\ e.kind = k BY <2>1
  <2> QED BY <2>2
<1>4. CASE \E k \in Prose : e = CliEvent("start", k, 0, NoId, "")
  <2>1. PICK k \in Prose : e = CliEvent("start", k, 0, NoId, "") BY <1>4
  <2>2. e.type = "start" /\ e.kind = k BY <2>1
  <2> QED BY <2>2
<1>5. CASE \E u \in Streamed : e = CliEvent("start", "tool", 0, u.id, u.name) BY <1>5 DEF Ids
<1>6. CASE \E u \in Given : e = CliEvent("use", "tool", Whole, u.id, u.name) BY <1>6 DEF Ids
<1>7. CASE e = CliEvent("stop", "block", 0, NoId, "") BY <1>7
<1>8. CASE \E i \in ResultIds : e = CliEvent("result", "result", Whole, i, "")
  <2>1. PICK i \in ResultIds : e = CliEvent("result", "result", Whole, i, "") BY <1>8
  <2>2. e.type = "result" /\ e.kind = "result" /\ e.id = i BY <2>1
  <2> QED BY <2>2
<1>9. CASE e = CliEvent("chunk", "text", Whole, NoId, "") BY <1>9
<1> QED
  BY <1>1, <1>2, <1>3, <1>4, <1>5, <1>6, <1>7, <1>8, <1>9, Zenon DEF TurnEvents, BlockEvents

\* What a new event leaves of the old ones.
LEMMA HeardBefore ==
  ASSUME heard \in Seq(TurnEvents), NEW e \in TurnEvents, Hears(e)
  PROVE  /\ heard' = Append(heard, e) /\ heard' \in Seq(TurnEvents)
         /\ Len(heard) \in Nat /\ Len(heard') = Len(heard) + 1
         /\ DOMAIN heard = 1 .. Len(heard) /\ DOMAIN heard' = 1 .. Len(heard) + 1
         /\ heard'[Len(heard) + 1] = e
         /\ \A j \in DOMAIN heard : heard'[j] = heard[j] /\ heard[j] \in TurnEvents
BY DEF Hears

\* Whether a Task was answered, n being the number of events before this one.
LEMMA AnsweredLater ==
  ASSUME heard \in Seq(TurnEvents), NEW e \in TurnEvents, Hears(e), NEW n, n = Len(heard),
         NEW j \in 1 .. n, NEW a \in 1 .. n + 1
  PROVE  /\ AnsweredIn(j, a, n)' <=> AnsweredIn(j, a, n)
         /\ AnsweredIn(j, a, n + 1)'
              <=> AnsweredIn(j, a, n) \/ (e.type = "result" /\ Same(heard[j].id, e.id))
<1>1. /\ n \in Nat /\ heard'[n + 1] = e
      /\ \A k \in 1 .. n : heard'[k] = heard[k]
  BY HeardBefore
<1>2. ASSUME NEW r \in a .. n PROVE heard'[r] = heard[r] /\ heard'[j] = heard[j]
  BY <1>1
<1>3. AnsweredIn(j, a, n)' <=> AnsweredIn(j, a, n) BY <1>2 DEF AnsweredIn
<1>4. a .. n + 1 = (a .. n) \cup {n + 1} BY <1>1
<1>5. AnsweredIn(j, a, n + 1)'
        <=> AnsweredIn(j, a, n)'
            \/ (heard'[n + 1].type = "result" /\ Same(heard'[j].id, heard'[n + 1].id))
  BY <1>4 DEF AnsweredIn
<1> QED BY <1>1, <1>3, <1>5

\* The Tasks before an event are those of the events before it.
LEMMA TasksBefore ==
  ASSUME heard \in Seq(TurnEvents), NEW e \in TurnEvents, Hears(e), NEW n, n = Len(heard)
  PROVE  /\ \A j \in 1 .. n + 1 : Tasks(j)' = Tasks(j) /\ Tasks(j) \subseteq 1 .. n
         /\ \A j \in 1 .. n : (Task(j)' <=> Task(j)) /\ (Known(j)' <=> Known(j)) /\ heard'[j] = heard[j]
         /\ \A j \in Tasks(n + 1) :
               (Answered(j, n + 1)' <=> Answered(j, n + 1)) /\ (RunsAlone(j, n + 1)' <=> RunsAlone(j, n + 1))
<1>1. /\ n \in Nat /\ DOMAIN heard = 1 .. n /\ DOMAIN heard' = 1 .. n + 1
      /\ \A k \in 1 .. n : heard'[k] = heard[k]
  BY HeardBefore
<1>2. ASSUME NEW j \in 1 .. n + 1 PROVE Tasks(j)' = Tasks(j) /\ Tasks(j) \subseteq 1 .. n
  BY <1>1 DEF Tasks, IsTask
<1>3. ASSUME NEW j \in 1 .. n
      PROVE (Task(j)' <=> Task(j)) /\ (Known(j)' <=> Known(j)) /\ heard'[j] = heard[j]
  BY <1>1 DEF Task, Known, IsTask
<1>4. ASSUME NEW j \in Tasks(n + 1)
      PROVE (Answered(j, n + 1)' <=> Answered(j, n + 1)) /\ (RunsAlone(j, n + 1)' <=> RunsAlone(j, n + 1))
  <2>1. j \in 1 .. n /\ j + 1 \in 1 .. n + 1 /\ n + 1 - 1 = n BY <1>1 DEF Tasks
  <2>2. Answered(j, n + 1)' <=> Answered(j, n + 1) BY <2>1, AnsweredLater DEF Answered
  <2>3. \A i \in Tasks(j) : i \in 1 .. n BY <1>2, <2>1
  <2>4. \A i \in Tasks(j) : AnsweredIn(i, j + 1, n)' <=> AnsweredIn(i, j + 1, n)
    BY <2>1, <2>3, AnsweredLater
  <2>5. Tasks(j)' = Tasks(j) /\ Tasks(n + 1)' = Tasks(n + 1) /\ heard'[j] = heard[j]
    BY <1>1, <1>2, <2>1
  <2>6. \A i \in Tasks(j) : AnsweredIn(i, j + 1, n + 1 - 1)' <=> AnsweredIn(i, j + 1, n + 1 - 1)
    BY <2>1, <2>4
  <2>7. RunsAlone(j, n + 1)' <=>
           /\ j \in Tasks(n + 1)' /\ heard'[j].id # NoId /\ ~Answered(j, n + 1)'
           /\ \A i \in Tasks(j)' : ~AnsweredIn(i, j + 1, n + 1 - 1)'
    BY DEF RunsAlone
  <2> QED BY <2>2, <2>5, <2>6, <2>7 DEF RunsAlone
<1> QED BY <1>2, <1>3, <1>4

\* While a Task runs alone some Task is active, and when all have answered none is.
LEMMA ActiveTasks ==
  ASSUME heard \in Seq(TurnEvents), TranscriptTypes, StackInv, NEW n, n = Len(heard)
  PROVE  /\ (\E j \in Tasks(n + 1) : RunsAlone(j, n + 1)) => stack # << >>
         /\ (\A j \in Tasks(n + 1) : heard[j].id # NoId /\ Answered(j, n + 1)) => stack = << >>
<1>1. n \in Nat /\ n + 1 - 1 = n /\ DOMAIN heard = 1 .. n OBVIOUS
<1>2. ASSUME NEW j \in Tasks(n + 1), RunsAlone(j, n + 1) PROVE stack # << >>
  <2>1. j \in DOMAIN heard /\ Known(j) BY <1>1, <1>2 DEF RunsAlone, Tasks, Known, Task
  <2>2. Unheard(j, n) /\ \A i \in Tasks(j) : ~AnsweredIn(i, j + 1, n)
    BY <1>1, <1>2 DEF RunsAlone, Answered, Unheard
  <2>3. \E d \in DOMAIN stack : stack[d].id = heard[j].id BY <2>1, <2>2 DEF StackInv
  <2> QED BY <2>3
<1>3. ASSUME \A j \in Tasks(n + 1) : heard[j].id # NoId /\ Answered(j, n + 1), stack # << >>
      PROVE  FALSE
  <2>1. 1 \in DOMAIN stack BY <1>3 DEF TranscriptTypes
  <2>2. PICK j \in DOMAIN heard : Task(j) /\ heard[j].id = stack[1].id BY <2>1 DEF StackInv
  <2>3. j \in Tasks(n + 1) BY <1>1, <2>2 DEF Tasks, Task
  <2>4. Known(j) /\ AnsweredIn(j, j + 1, n) BY <1>1, <1>3, <2>2, <2>3 DEF Known, Answered
  <2>5. Unheard(j, n) BY <2>1, <2>2, <2>4 DEF StackInv
  <2> QED BY <2>4, <2>5 DEF Unheard
<1> QED BY <1>2, <1>3

\* What becomes of the Tasks heard before when something else than an answer to
\* one of them is heard.
LEMMA UnheardLater ==
  ASSUME heard \in Seq(TurnEvents), NEW e \in TurnEvents, Hears(e), NEW n, n = Len(heard)
  PROVE  /\ \A j \in 1 .. n : Unheard(j, Len(heard))' <=>
               Unheard(j, Len(heard)) /\ ~(e.type = "result" /\ Same(heard[j].id, e.id))
         /\ \A j \in 1 .. n : \A i \in Tasks(j) : AnsweredIn(i, j + 1, Len(heard))' <=>
               AnsweredIn(i, j + 1, Len(heard)) \/ (e.type = "result" /\ Same(heard[i].id, e.id))
<1>1. n \in Nat /\ Len(heard') = n + 1 BY HeardBefore
<1>2. ASSUME NEW j \in 1 .. n, NEW i \in 1 .. n
      PROVE  AnsweredIn(i, j + 1, n + 1)' <=>
               AnsweredIn(i, j + 1, n) \/ (e.type = "result" /\ Same(heard[i].id, e.id))
  BY <1>1, AnsweredLater
<1>3. ASSUME NEW j \in 1 .. n PROVE Unheard(j, Len(heard))' <=> ~AnsweredIn(j, j + 1, n + 1)'
  BY <1>1 DEF Unheard
<1>4. ASSUME NEW j \in 1 .. n, NEW i \in Tasks(j)
      PROVE  i \in 1 .. n /\ (AnsweredIn(i, j + 1, Len(heard))' <=> AnsweredIn(i, j + 1, n + 1)')
  BY <1>1 DEF Tasks
<1> QED BY <1>2, <1>3, <1>4 DEF Unheard

\* What is neither the start of a Task nor an answer leaves the Tasks alone.
LEMMA StackStays ==
  ASSUME TranscriptInv, NEW e \in TurnEvents, Hears(e), ~IsTask(e), e.type # "result", UNCHANGED stack
  PROVE  StackInv'
<1>1. PICK n : n = Len(heard) OBVIOUS
<1>2. heard \in Seq(TurnEvents) /\ StackInv BY DEF TranscriptInv
<1>3. /\ DOMAIN heard = 1 .. n /\ DOMAIN heard' = 1 .. n + 1 /\ heard'[n + 1] = e /\ n \in Nat
      /\ \A j \in 1 .. n : heard'[j] = heard[j]
  BY <1>1, <1>2, HeardBefore
<1>4. ASSUME NEW j \in 1 .. n + 1, Known(j)' PROVE j \in 1 .. n /\ Known(j)
  BY <1>3, <1>4 DEF Known, Task, IsTask
<1>5. \A j \in 1 .. n : Unheard(j, Len(heard))' <=> Unheard(j, Len(heard))
  BY <1>1, <1>2, UnheardLater
<1>6. \A j \in 1 .. n : Tasks(j)' = Tasks(j) /\ (Task(j)' <=> Task(j)) /\ (Known(j)' <=> Known(j))
  BY <1>1, <1>2, <1>3, TasksBefore
<1>7. \A j \in 1 .. n : \A i \in Tasks(j) :
         AnsweredIn(i, j + 1, Len(heard))' <=> AnsweredIn(i, j + 1, Len(heard))
  BY <1>1, <1>2, UnheardLater
<1>8. (\A i, j \in DOMAIN heard : Known(i) /\ Known(j) /\ heard[i].id = heard[j].id => i = j)'
  BY <1>2, <1>3, <1>4 DEF StackInv
<1>9. (\A d \in DOMAIN stack : \E j \in DOMAIN heard : Task(j) /\ heard[j].id = stack[d].id)'
  BY <1>2, <1>3, <1>6 DEF StackInv
<1>10. (\A d \in DOMAIN stack : \A j \in DOMAIN heard :
           Known(j) /\ heard[j].id = stack[d].id => Unheard(j, Len(heard)))'
  BY <1>2, <1>3, <1>4, <1>5 DEF StackInv
<1>11. (\A c, d \in DOMAIN stack : \A i, j \in DOMAIN heard :
          c < d /\ Known(i) /\ Known(j) /\ heard[i].id = stack[c].id /\ heard[j].id = stack[d].id => i < j)'
  BY <1>2, <1>3, <1>4 DEF StackInv
<1>12. (\A j \in DOMAIN heard :
          Known(j) /\ Unheard(j, Len(heard)) /\ (\A i \in Tasks(j) : ~AnsweredIn(i, j + 1, Len(heard)))
             => \E d \in DOMAIN stack : stack[d].id = heard[j].id)'
  <2> SUFFICES ASSUME NEW j \in 1 .. n + 1, Known(j)', Unheard(j, Len(heard))',
                      \A i \in Tasks(j)' : ~AnsweredIn(i, j + 1, Len(heard))'
               PROVE  \E d \in DOMAIN stack : stack[d].id = heard'[j].id
    BY <1>3
  <2>1. j \in 1 .. n /\ Known(j) /\ Unheard(j, Len(heard)) BY <1>4, <1>5
  <2>2. \A i \in Tasks(j) : ~AnsweredIn(i, j + 1, Len(heard)) BY <1>6, <1>7, <2>1
  <2> QED BY <1>2, <1>3, <2>1, <2>2 DEF StackInv
<1> QED BY <1>8, <1>9, <1>10, <1>11, <1>12 DEF StackInv

\* A Task that begins becomes the youngest.
LEMMA PushStack ==
  ASSUME TranscriptInv, NEW e \in TurnEvents, Hears(e), IsTask(e), Unused(e), NEW s,
         stack' = Append(stack, [id |-> e.id, segment |-> s])
  PROVE  StackInv'
<1>1. PICK n : n = Len(heard) OBVIOUS
<1>2. heard \in Seq(TurnEvents) /\ StackInv BY DEF TranscriptInv
<1>3. /\ DOMAIN heard = 1 .. n /\ DOMAIN heard' = 1 .. n + 1 /\ heard'[n + 1] = e /\ n \in Nat
      /\ \A j \in 1 .. n : heard'[j] = heard[j]
      /\ Len(heard') = n + 1
  BY <1>1, <1>2, HeardBefore
<1>4. PICK m : m = Len(stack) OBVIOUS
<1>5. /\ m \in Nat /\ DOMAIN stack = 1 .. m /\ DOMAIN stack' = 1 .. m + 1
      /\ \A d \in 1 .. m : stack'[d] = stack[d]
      /\ stack'[m + 1].id = e.id
  BY <1>4 DEF TranscriptInv, TranscriptTypes
<1>6. e.type # "result"
  BY EventShape DEF IsTask
<1>7. ASSUME NEW j \in 1 .. n, Known(j) PROVE heard[j].id # e.id
  BY <1>3, <1>7 DEF Known, Task, IsTask, Unused
<1>8. ASSUME NEW d \in 1 .. m, stack[d].id # NoId PROVE stack[d].id # e.id
  BY <1>2, <1>3, <1>5, <1>7, <1>8 DEF StackInv, Known
<1>9. \A j \in 1 .. n : Unheard(j, Len(heard))' <=> Unheard(j, Len(heard))
  BY <1>1, <1>2, <1>6, UnheardLater
<1>10. \A j \in 1 .. n : Tasks(j)' = Tasks(j) /\ (Task(j)' <=> Task(j)) /\ (Known(j)' <=> Known(j))
  BY <1>1, <1>2, <1>3, TasksBefore
<1>11. \A j \in 1 .. n : \A i \in Tasks(j) :
         AnsweredIn(i, j + 1, Len(heard))' <=> AnsweredIn(i, j + 1, Len(heard))
  BY <1>1, <1>2, <1>6, UnheardLater
<1>12. Task(n + 1)' BY <1>3 DEF Task
<1>13. \A j \in 1 .. n + 1 : Known(j)' => heard'[j].id # NoId BY DEF Known
<1>14. (\A i, j \in DOMAIN heard : Known(i) /\ Known(j) /\ heard[i].id = heard[j].id => i = j)'
  <2> SUFFICES ASSUME NEW i \in 1 .. n + 1, NEW j \in 1 .. n + 1, Known(i)', Known(j)',
                      heard'[i].id = heard'[j].id
               PROVE  i = j
    BY <1>3
  <2>1. CASE i \in 1 .. n /\ j \in 1 .. n BY <1>2, <1>3, <1>10, <2>1 DEF StackInv
  <2>2. CASE i = n + 1 /\ j \in 1 .. n BY <1>3, <1>7, <1>10, <2>2
  <2>3. CASE j = n + 1 /\ i \in 1 .. n BY <1>3, <1>7, <1>10, <2>3
  <2> QED BY <1>3, <2>1, <2>2, <2>3
<1>15. (\A d \in DOMAIN stack : \E j \in DOMAIN heard : Task(j) /\ heard[j].id = stack[d].id)'
  <2> SUFFICES ASSUME NEW d \in 1 .. m + 1
               PROVE  \E j \in 1 .. n + 1 : Task(j)' /\ heard'[j].id = stack'[d].id
    BY <1>3, <1>5
  <2>1. CASE d = m + 1 BY <1>3, <1>5, <1>12, <2>1
  <2>2. CASE d \in 1 .. m
    <3>1. PICK j \in 1 .. n : Task(j) /\ heard[j].id = stack[d].id BY <1>2, <1>3, <1>5, <2>2 DEF StackInv
    <3> QED BY <1>3, <1>5, <1>10, <2>2, <3>1
  <2> QED BY <1>5, <2>1, <2>2
<1>16. (\A d \in DOMAIN stack : \A j \in DOMAIN heard :
           Known(j) /\ heard[j].id = stack[d].id => Unheard(j, Len(heard)))'
  <2> SUFFICES ASSUME NEW d \in 1 .. m + 1, NEW j \in 1 .. n + 1, Known(j)', heard'[j].id = stack'[d].id
               PROVE  Unheard(j, Len(heard))'
    BY <1>3, <1>5
  <2>1. CASE j = n + 1
    <3>1. (n + 1) + 1 .. n + 1 = {} BY <1>3
    <3> QED BY <1>3, <2>1, <3>1 DEF Unheard, AnsweredIn
  <2>2. CASE j \in 1 .. n
    <3>1. Known(j) /\ heard'[j].id = heard[j].id BY <1>3, <1>10, <2>2
    <3>2. d \in 1 .. m BY <1>5, <1>7, <2>2, <3>1
    <3> QED BY <1>2, <1>3, <1>5, <1>9, <2>2, <3>1, <3>2 DEF StackInv
  <2> QED BY <1>3, <2>1, <2>2
<1>17. (\A c, d \in DOMAIN stack : \A i, j \in DOMAIN heard :
          c < d /\ Known(i) /\ Known(j) /\ heard[i].id = stack[c].id /\ heard[j].id = stack[d].id => i < j)'
  <2> SUFFICES ASSUME NEW c \in 1 .. m + 1, NEW d \in 1 .. m + 1, NEW i \in 1 .. n + 1, NEW j \in 1 .. n + 1,
                      c < d, Known(i)', Known(j)', heard'[i].id = stack'[c].id,
                      heard'[j].id = stack'[d].id
               PROVE  i < j
    BY <1>3, <1>5
  <2>1. c \in 1 .. m /\ stack'[c] = stack[c] BY <1>5
  <2>2. heard'[i].id # NoId BY <1>13
  <2>3. i # n + 1 BY <1>3, <1>8, <2>1, <2>2
  <2>4. i \in 1 .. n /\ heard'[i] = heard[i] /\ Known(i) BY <1>3, <1>10, <2>3
  <2>5. CASE j = n + 1 BY <1>3, <2>4, <2>5
  <2>6. CASE j \in 1 .. n
    <3>1. Known(j) /\ heard'[j] = heard[j] BY <1>3, <1>10, <2>6
    <3>2. d \in 1 .. m BY <1>5, <1>7, <2>6, <3>1
    <3> QED BY <1>2, <1>3, <1>5, <2>1, <2>4, <2>6, <3>1, <3>2 DEF StackInv
  <2> QED BY <1>3, <2>5, <2>6
<1>18. (\A j \in DOMAIN heard :
          Known(j) /\ Unheard(j, Len(heard)) /\ (\A i \in Tasks(j) : ~AnsweredIn(i, j + 1, Len(heard)))
             => \E d \in DOMAIN stack : stack[d].id = heard[j].id)'
  <2> SUFFICES ASSUME NEW j \in 1 .. n + 1, Known(j)', Unheard(j, Len(heard))',
                      \A i \in Tasks(j)' : ~AnsweredIn(i, j + 1, Len(heard))'
               PROVE  \E d \in 1 .. m + 1 : stack'[d].id = heard'[j].id
    BY <1>3, <1>5
  <2>1. CASE j = n + 1 BY <1>3, <1>5, <2>1
  <2>2. CASE j \in 1 .. n
    <3>1. Known(j) /\ Unheard(j, Len(heard)) BY <1>9, <1>10, <2>2
    <3>2. \A i \in Tasks(j) : ~AnsweredIn(i, j + 1, Len(heard)) BY <1>10, <1>11, <2>2
    <3>3. PICK d \in 1 .. m : stack[d].id = heard[j].id
      BY <1>2, <1>3, <1>5, <2>2, <3>1, <3>2 DEF StackInv
    <3> QED BY <1>3, <1>5, <2>2, <3>3
  <2>3. j = n + 1 \/ j \in 1 .. n BY <1>3
  <2> QED BY <2>1, <2>2, <2>3, Zenon
<1> QED BY <1>14, <1>15, <1>16, <1>17, <1>18 DEF StackInv

\* What stays active after a result, and that what it ends begins with a match.
LEMMA DepthCloses ==
  ASSUME NEW id, NEW name, NEW m \in Nat, m = Len(stack), DOMAIN stack = 1 .. m
  PROVE  LET k == Depth(id, name) IN
         /\ k \in 0 .. m
         /\ \A d \in 1 .. k : Same(stack[d].id, id) => k < m /\ Same(stack[k + 1].id, id)
         /\ \A d \in k + 1 .. m : Same(stack[k + 1].id, id) \/ stack[d].id = NoId
<1> DEFINE matching == { d \in DOMAIN stack : Same(stack[d].id, id) }
           untold   == m > 0 /\ stack[m].id = NoId
                       /\ (id = NoId \/ (id \in TaskLike /\ name \in {"unknown", "Task"}))
<1>1. Depth(id, name) = IF matching # {} THEN Max(matching) - 1 ELSE IF untold THEN m - 1 ELSE m
  BY DEF Depth
<1>2. matching \in SUBSET (1 .. m) /\ \A d \in 1 .. m : d \in matching <=> Same(stack[d].id, id) OBVIOUS
<1>3. CASE matching # {}
  <2>1. Max(matching) \in matching /\ \A x \in matching : x <= Max(matching) BY <1>2, <1>3, MaxIsGreatest
  <2> DEFINE top == Max(matching)
  <2>2. Depth(id, name) = top - 1 BY <1>1, <1>3
  <2> HIDE DEF matching, top
  <2>3. top \in matching /\ \A x \in matching : x <= top BY <2>1 DEF top
  <2>4. top \in 1 .. m /\ (top - 1) + 1 = top /\ Same(stack[top].id, id) BY <1>2, <2>3
  <2> QED BY <1>2, <2>2, <2>3, <2>4
<1>4. CASE matching = {} /\ untold
  <2>1. Depth(id, name) = m - 1 BY <1>1, <1>4
  <2> HIDE DEF matching
  <2> QED BY <1>2, <1>4, <2>1
<1>5. CASE matching = {} /\ ~untold
  <2>1. Depth(id, name) = m BY <1>1, <1>5
  <2> HIDE DEF matching
  <2> QED BY <1>2, <1>5, <2>1
<1> QED BY <1>3, <1>4, <1>5

\* The Tasks whose ids look like a result have one id.
LEMMA OneMatch ==
  ASSUME TasksApart, NEW f \in TurnEvents, NEW g \in TurnEvents, IsTask(f), IsTask(g),
         NEW r \in ResultIds, Same(f.id, r), Same(g.id, r)
  PROVE  f.id = g.id
<1>1. PICK u \in Streamed \cup Given : f.id = u.id /\ f.name = u.name BY EventShape DEF IsTask
<1>2. PICK v \in Streamed \cup Given : g.id = v.id /\ g.name = v.name BY EventShape DEF IsTask
<1>3. u.name = "Task" /\ v.name = "Task" BY <1>1, <1>2 DEF IsTask
<1> QED BY <1>1, <1>2, <1>3 DEF TasksApart

\* A result ends the Task it matches and the younger ones.
LEMMA PopStack ==
  ASSUME TasksApart, TranscriptInv, NEW e \in TurnEvents, Hears(e), e.type = "result", NEW name,
         stack' = SubSeq(stack, 1, Depth(e.id, name))
  PROVE  StackInv'
<1>1. PICK n : n = Len(heard) OBVIOUS
<1>2. heard \in Seq(TurnEvents) /\ StackInv BY DEF TranscriptInv
<1>3. /\ DOMAIN heard = 1 .. n /\ DOMAIN heard' = 1 .. n + 1 /\ heard'[n + 1] = e /\ n \in Nat
      /\ \A j \in 1 .. n : heard'[j] = heard[j] /\ heard[j] \in TurnEvents
      /\ Len(heard') = n + 1
  BY <1>1, <1>2, HeardBefore
<1>4. PICK m : m = Len(stack) OBVIOUS
<1>5. m \in Nat /\ DOMAIN stack = 1 .. m /\ stack \in Seq([id : Ids, segment : 1 .. Len(segments)])
  BY <1>4 DEF TranscriptInv, TranscriptTypes
<1>6. PICK k : k = Depth(e.id, name) OBVIOUS
<1>7. /\ k \in 0 .. m
      /\ \A d \in 1 .. k : Same(stack[d].id, e.id) => k < m /\ Same(stack[k + 1].id, e.id)
      /\ \A d \in k + 1 .. m : Same(stack[k + 1].id, e.id) \/ stack[d].id = NoId
  BY <1>4, <1>5, <1>6, DepthCloses
<1>8. stack' = SubSeq(stack, 1, k) BY <1>6
<1>9. DOMAIN stack' = 1 .. k /\ \A d \in 1 .. k : stack'[d] = stack[d] /\ d \in 1 .. m
  <2>1. k \in Nat /\ k <= m BY <1>5, <1>7
  <2> HIDE <1>7
  <2>2. Len(SubSeq(stack, 1, k)) = k /\ DOMAIN SubSeq(stack, 1, k) = 1 .. k
        /\ \A d \in 1 .. k : SubSeq(stack, 1, k)[d] = stack[d]
    BY <1>4, <1>5, <2>1
  <2>3. \A d \in 1 .. k : d \in 1 .. m BY <1>5, <2>1
  <2> QED BY <1>8, <2>2, <2>3, Zenon
<1>10. ~IsTask(e) /\ e.id \in ResultIds BY EventShape DEF IsTask
<1>11. ASSUME NEW j \in 1 .. n + 1, Known(j)' PROVE j \in 1 .. n /\ Known(j)
  BY <1>3, <1>10, <1>11 DEF Known, Task, IsTask
<1>12. \A j \in 1 .. n : Unheard(j, Len(heard))' <=> Unheard(j, Len(heard)) /\ ~Same(heard[j].id, e.id)
  BY <1>1, <1>2, UnheardLater
<1>13. \A j \in 1 .. n : Tasks(j)' = Tasks(j) /\ (Task(j)' <=> Task(j)) /\ (Known(j)' <=> Known(j))
  BY <1>1, <1>2, <1>3, TasksBefore
<1>14. \A j \in 1 .. n : \A i \in Tasks(j) : AnsweredIn(i, j + 1, Len(heard))' <=>
          AnsweredIn(i, j + 1, Len(heard)) \/ Same(heard[i].id, e.id)
  BY <1>1, <1>2, UnheardLater
<1>15. (\A i, j \in DOMAIN heard : Known(i) /\ Known(j) /\ heard[i].id = heard[j].id => i = j)'
  BY <1>2, <1>3, <1>11 DEF StackInv
<1>16. (\A d \in DOMAIN stack : \E j \in DOMAIN heard : Task(j) /\ heard[j].id = stack[d].id)'
  <2> SUFFICES ASSUME NEW d \in 1 .. k
               PROVE  \E j \in 1 .. n + 1 : Task(j)' /\ heard'[j].id = stack'[d].id
    BY <1>3, <1>9
  <2>1. d \in 1 .. m /\ stack'[d] = stack[d] BY <1>9
  <2>2. PICK j \in 1 .. n : Task(j) /\ heard[j].id = stack[d].id BY <1>2, <1>3, <1>5, <2>1 DEF StackInv
  <2>3. j \in 1 .. n + 1 /\ Task(j)' /\ heard'[j] = heard[j] BY <1>3, <1>13, <2>2
  <2> QED BY <2>1, <2>2, <2>3
\* The first one ended is the youngest that matches.
<1>17. ASSUME Same(stack[k + 1].id, e.id), k < m
       PROVE  \E i \in 1 .. n : Known(i) /\ heard[i].id = stack[k + 1].id
  <2>1. k + 1 \in 1 .. m BY <1>5, <1>7, <1>17
  <2>2. PICK i \in 1 .. n : Task(i) /\ heard[i].id = stack[k + 1].id BY <1>2, <1>3, <1>5, <2>1 DEF StackInv
  <2>3. heard[i].id # NoId BY <1>17, <2>2 DEF Same
  <2> QED BY <2>2, <2>3 DEF Known
<1>18. (\A d \in DOMAIN stack : \A j \in DOMAIN heard :
           Known(j) /\ heard[j].id = stack[d].id => Unheard(j, Len(heard)))'
  <2> SUFFICES ASSUME NEW d \in 1 .. k, NEW j \in 1 .. n, Known(j), heard[j].id = stack[d].id
               PROVE  Unheard(j, Len(heard)) /\ ~Same(heard[j].id, e.id)
    <3>1. ASSUME NEW d \in 1 .. k, NEW j \in 1 .. n + 1, Known(j)', heard'[j].id = stack'[d].id
          PROVE  j \in 1 .. n /\ Known(j) /\ heard[j].id = stack[d].id
      BY <1>3, <1>9, <1>11, <3>1
    <3>2. ASSUME NEW d \in 1 .. k, NEW j \in 1 .. n + 1, Known(j)', heard'[j].id = stack'[d].id
          PROVE  Unheard(j, Len(heard))'
      BY <1>12, <3>1, <3>2
    <3> QED BY <1>3, <1>9, <3>2
  <2>1. Unheard(j, Len(heard)) BY <1>2, <1>3, <1>5, <1>9 DEF StackInv
  <2>2. ASSUME Same(heard[j].id, e.id) PROVE FALSE
    <3>1. k < m /\ Same(stack[k + 1].id, e.id) BY <1>7, <2>2
    <3>2. PICK i \in 1 .. n : Known(i) /\ heard[i].id = stack[k + 1].id BY <1>17, <3>1
    <3>3. heard[i].id = heard[j].id
      <4>1. IsTask(heard[i]) /\ IsTask(heard[j]) BY <3>2 DEF Known, Task
      <4>2. heard[i] \in TurnEvents /\ heard[j] \in TurnEvents BY <1>3
      <4> QED BY <1>10, <2>2, <3>1, <3>2, <4>1, <4>2, OneMatch
    <3>4. d \in 1 .. m /\ k + 1 \in 1 .. m /\ d < k + 1 BY <1>5, <1>7, <1>9, <3>1
    <3>5. i < i BY <1>2, <1>3, <1>5, <3>2, <3>3, <3>4 DEF StackInv
    <3> QED BY <1>3, <3>5
  <2> QED BY <2>1, <2>2
<1>19. (\A c, d \in DOMAIN stack : \A i, j \in DOMAIN heard :
          c < d /\ Known(i) /\ Known(j) /\ heard[i].id = stack[c].id /\ heard[j].id = stack[d].id => i < j)'
  <2> SUFFICES ASSUME NEW c \in 1 .. k, NEW d \in 1 .. k, NEW i \in 1 .. n + 1, NEW j \in 1 .. n + 1,
                      c < d, Known(i)', Known(j)', heard'[i].id = stack'[c].id,
                      heard'[j].id = stack'[d].id
               PROVE  i < j
    BY <1>3, <1>9
  <2>1. i \in 1 .. n /\ j \in 1 .. n /\ Known(i) /\ Known(j) BY <1>11
  <2>2. heard[i].id = stack[c].id /\ heard[j].id = stack[d].id BY <1>3, <1>9, <2>1
  <2>3. c \in 1 .. m /\ d \in 1 .. m BY <1>9
  <2> QED BY <1>2, <1>3, <1>5, <2>1, <2>2, <2>3 DEF StackInv
<1>20. (\A j \in DOMAIN heard :
          Known(j) /\ Unheard(j, Len(heard)) /\ (\A i \in Tasks(j) : ~AnsweredIn(i, j + 1, Len(heard)))
             => \E d \in DOMAIN stack : stack[d].id = heard[j].id)'
  <2> SUFFICES ASSUME NEW j \in 1 .. n + 1, Known(j)', Unheard(j, Len(heard))',
                      \A i \in Tasks(j)' : ~AnsweredIn(i, j + 1, Len(heard))'
               PROVE  \E d \in 1 .. k : stack'[d].id = heard'[j].id
    BY <1>3, <1>9
  <2>1. j \in 1 .. n /\ Known(j) BY <1>11
  <2>2. Unheard(j, Len(heard)) /\ ~Same(heard[j].id, e.id) BY <1>12, <2>1
  <2>3. \A i \in Tasks(j) : ~AnsweredIn(i, j + 1, Len(heard)) /\ ~Same(heard[i].id, e.id)
    BY <1>13, <1>14, <2>1
  <2>4. PICK d \in 1 .. m : stack[d].id = heard[j].id BY <1>2, <1>3, <1>5, <2>1, <2>2, <2>3 DEF StackInv
  <2>5. d \in 1 .. k
    <3> SUFFICES ASSUME d \in k + 1 .. m PROVE FALSE BY <1>5, <1>7
    <3>1. Same(stack[k + 1].id, e.id) BY <1>7, <2>1, <2>4 DEF Known
    <3>2. k < m /\ k + 1 \in 1 .. m BY <1>5, <1>7
    <3>3. k + 1 # d BY <2>2, <2>4, <3>1
    <3>4. PICK i \in 1 .. n : Known(i) /\ heard[i].id = stack[k + 1].id BY <1>17, <3>1, <3>2
    <3>5. k + 1 < d BY <1>5, <1>7, <3>3
    <3>6. i < j BY <1>2, <1>3, <1>5, <2>1, <2>4, <3>2, <3>4, <3>5 DEF StackInv
    <3>7. i \in Tasks(j) BY <1>3, <2>1, <3>4, <3>6 DEF Tasks, Known, Task
    <3> QED BY <2>3, <3>1, <3>4, <3>7
  <2> QED BY <1>3, <1>9, <2>1, <2>4, <2>5
<1> QED BY <1>15, <1>16, <1>18, <1>19, <1>20 DEF StackInv

\* The end of a block closes at most one segment.
LEMMA ClosedBlocks ==
  ASSUME NEW m, NEW l, open \in [tool : 0 .. m, thinking : 0 .. l, text : 0 .. l], m \in Nat, l \in Nat
  PROVE  /\ Closed(open) \in [tool : 0 .. m, thinking : 0 .. l, text : 0 .. l]
         /\ \A k \in Prose : Closed(open)[k] \in {0, open[k]}
<1>1. CASE open.tool # 0 BY <1>1 DEF Closed, Prose
<1>2. CASE open.tool = 0 /\ open.thinking # 0 BY <1>2 DEF Closed, Prose
<1>3. CASE open.tool = 0 /\ open.thinking = 0 BY <1>3 DEF Closed, Prose
<1> QED BY <1>1, <1>2, <1>3

\* The transcript when n events were heard before this one and l segments made.
LEMMA NewSegment ==
  ASSUME TranscriptInv, NEW e \in TurnEvents, Hears(e), NEW n, n = Len(heard), NEW l, l = Len(segments),
         NEW kind \in Kinds, NEW parts \in Seq({n + 1}),
         segments' = Append(segments, Segment(kind, parts))
  PROVE  /\ SegmentsTyped' /\ PartsHeard' /\ l \in Nat /\ Len(segments') = l + 1
         /\ DOMAIN segments = 1 .. l /\ DOMAIN segments' = 1 .. l + 1
         /\ segments'[l + 1] = Segment(kind, parts)
         /\ \A i \in 1 .. l : segments'[i] = segments[i]
<1>1. n \in Nat /\ Len(heard') = n + 1 BY HeardBefore DEF TranscriptInv
<1>2. segments \in Seq(SegmentSet) /\ l \in Nat /\ PartsHeard
  BY DEF TranscriptInv, TranscriptTypes, SegmentsTyped
<1>3. parts \in Seq(Nat) BY <1>1
<1>4. Segment(kind, parts) \in SegmentSet BY <1>3 DEF Segment, SegmentSet
<1>5. SegmentsTyped' BY <1>2, <1>4 DEF SegmentsTyped
<1>6. /\ Len(segments') = l + 1 /\ DOMAIN segments = 1 .. l /\ DOMAIN segments' = 1 .. l + 1
      /\ segments'[l + 1] = Segment(kind, parts)
      /\ \A i \in 1 .. l : segments'[i] = segments[i]
  BY <1>2, <1>4
<1>7. PartsHeard'
  <2> SUFFICES ASSUME NEW i \in 1 .. l + 1, NEW p \in DOMAIN segments'[i].parts
               PROVE  segments'[i].parts[p] \in 1 .. n + 1
    BY <1>1, <1>6 DEF PartsHeard
  <2>1. CASE i \in 1 .. l
    <3>1. segments[i].parts[p] \in 1 .. n BY <1>2, <1>6, <2>1 DEF PartsHeard
    <3> QED BY <1>1, <1>6, <2>1, <3>1
  <2>2. CASE i = l + 1
    <3>1. segments'[i].parts = parts BY <1>6, <2>2 DEF Segment
    <3>2. parts[p] = n + 1 BY <3>1
    <3> QED BY <1>1, <3>1, <3>2
  <2> QED BY <1>2, <2>1, <2>2
<1> QED BY <1>2, <1>5, <1>6, <1>7

\* The segments when the event at p goes on in the one at a place.
Lengthened(at, p) == [segments EXCEPT ![at].parts = Append(@, p)]

\* And when a segment goes on.
LEMMA LongerSegment ==
  ASSUME TranscriptInv, NEW e \in TurnEvents, Hears(e), NEW n, n = Len(heard), NEW l, l = Len(segments),
         NEW at \in 1 .. l, segments' = Lengthened(at, n + 1)
  PROVE  /\ SegmentsTyped' /\ PartsHeard' /\ l \in Nat /\ Len(segments') = l
         /\ DOMAIN segments = 1 .. l /\ DOMAIN segments' = 1 .. l
         /\ \A i \in 1 .. l : segments'[i].kind = segments[i].kind
         /\ \A i \in 1 .. l \ {at} : segments'[i] = segments[i]
         /\ \E p \in DOMAIN segments'[at].parts : segments'[at].parts[p] = n + 1
<1>1. n \in Nat /\ Len(heard') = n + 1 BY HeardBefore DEF TranscriptInv
<1>2. segments \in Seq(SegmentSet) /\ l \in Nat /\ DOMAIN segments = 1 .. l /\ PartsHeard
  BY DEF TranscriptInv, TranscriptTypes, SegmentsTyped
<1>3. segments[at] \in SegmentSet BY <1>2
<1> DEFINE parts == Append(segments[at].parts, n + 1)
           new   == [segments[at] EXCEPT !.parts = parts]
<1>4. segments' = [segments EXCEPT ![at] = new] BY DEF Lengthened
<1>6. segments[at].parts \in Seq(Nat) /\ segments[at].kind \in Kinds BY <1>3 DEF SegmentSet
<1>7. /\ parts \in Seq(Nat) /\ Len(parts) = Len(segments[at].parts) + 1 /\ parts[Len(parts)] = n + 1
      /\ \A p \in 1 .. Len(parts) : p # Len(parts) =>
            p \in DOMAIN segments[at].parts /\ parts[p] = segments[at].parts[p]
      /\ DOMAIN parts = 1 .. Len(parts) /\ Len(parts) \in 1 .. Len(parts)
  BY <1>1, <1>6
<1> HIDE DEF parts
<1>5. new \in SegmentSet /\ new.kind = segments[at].kind /\ new.parts = parts
  BY <1>3, <1>7 DEF SegmentSet
<1> HIDE DEF new
<1>8. new.kind = segments[at].kind /\ new.parts = parts BY <1>5
<1>9. /\ segments' \in Seq(SegmentSet) /\ Len(segments') = l /\ DOMAIN segments' = 1 .. l
      /\ segments'[at] = new
      /\ \A i \in 1 .. l \ {at} : segments'[i] = segments[i]
  <2>1. at \in 1 .. Len(segments) OBVIOUS
  <2> DEFINE t == [segments EXCEPT ![at] = new]
  <2>2. /\ t \in Seq(SegmentSet) /\ Len(t) = Len(segments)
        /\ \A j \in 1 .. Len(segments) : t[j] = IF j = at THEN new ELSE segments[j]
    BY <1>2, <1>5, <2>1, ExceptSeq
  <2>3. segments' = t BY <1>4
  <2> HIDE DEF t
  <2>4. DOMAIN t = 1 .. l BY <2>2
  <2> QED BY <2>1, <2>2, <2>3, <2>4
<1>10. PartsHeard'
  <2> SUFFICES ASSUME NEW i \in 1 .. l, NEW p \in DOMAIN segments'[i].parts
               PROVE  segments'[i].parts[p] \in 1 .. n + 1
    BY <1>1, <1>9 DEF PartsHeard
  <2>1. CASE i # at
    <3>1. segments[i].parts[p] \in 1 .. n BY <1>2, <1>9, <2>1 DEF PartsHeard
    <3> QED BY <1>1, <1>9, <2>1, <3>1
  <2>2. CASE i = at
    <3>1. segments'[i].parts = parts /\ p \in 1 .. Len(parts) BY <1>7, <1>8, <1>9, <2>2
    <3>2. CASE p = Len(parts) BY <1>1, <1>7, <3>1, <3>2
    <3>3. CASE p # Len(parts)
      <4>1. segments[at].parts[p] \in 1 .. n BY <1>2, <1>7, <3>1, <3>3 DEF PartsHeard
      <4> QED BY <1>1, <1>7, <3>1, <3>3, <4>1
    <3> QED BY <3>2, <3>3
  <2> QED BY <2>1, <2>2
<1>11. \E p \in DOMAIN segments'[at].parts : segments'[at].parts[p] = n + 1 BY <1>7, <1>8, <1>9
<1>12. \A i \in 1 .. l : segments'[i].kind = segments[i].kind BY <1>8, <1>9
<1> QED BY <1>2, <1>9, <1>10, <1>11, <1>12 DEF SegmentsTyped

\* The events shown in segments of some kinds.
Shows(i, p) == \E q \in DOMAIN segments[i].parts : segments[i].parts[q] = p

LEMMA ShownPositions ==
  ASSUME NEW p, NEW kinds
  PROVE  p \in Positions(kinds) <=> \E i \in DOMAIN segments : segments[i].kind \in kinds /\ Shows(i, p)
BY DEF Positions, Shows, Range

\* What has to be shown of a new event, from whether a Task is active.
LEMMA InsideStays ==
  ASSUME TranscriptInv, NEW e \in TurnEvents, Hears(e), NEW n, n = Len(heard),
         e.type = "chunk" => IF stack = << >> THEN (n + 1 \in Positions(Prose))'
                             ELSE (n + 1 \notin Positions(Prose))',
         e.kind = "tool" /\ ~IsTask(e) =>
             /\ (Cardinality({ i \in DOMAIN segments : n + 1 \in Range(segments[i].parts) }) = 1)'
             /\ stack = << >> => (n + 1 \in Positions({"tool"}))'
  PROVE  SubagentsStayInside'
<1>1. heard \in Seq(TurnEvents) /\ TranscriptTypes /\ StackInv BY DEF TranscriptInv
<1>2. n \in Nat /\ Len(heard') = n + 1 /\ heard'[n + 1] = e BY <1>1, HeardBefore
<1>3. (\E j \in Tasks(n + 1) : RunsAlone(j, n + 1))' => stack # << >>
  <2>1. Tasks(n + 1)' = Tasks(n + 1) /\ \A j \in Tasks(n + 1) : RunsAlone(j, n + 1)' <=> RunsAlone(j, n + 1)
    BY <1>1, <1>2, TasksBefore
  <2>2. (\E j \in Tasks(n + 1) : RunsAlone(j, n + 1)) => stack # << >> BY <1>1, ActiveTasks
  <2> QED BY <2>1, <2>2
<1>4. (\A j \in Tasks(n + 1) : heard[j].id # NoId /\ Answered(j, n + 1))' => stack = << >>
  <2>1. /\ Tasks(n + 1)' = Tasks(n + 1) /\ Tasks(n + 1) \subseteq 1 .. n
        /\ \A j \in Tasks(n + 1) : Answered(j, n + 1)' <=> Answered(j, n + 1)
        /\ \A j \in 1 .. n : heard'[j] = heard[j]
    BY <1>1, <1>2, TasksBefore
  <2>2. (\A j \in Tasks(n + 1) : heard[j].id # NoId /\ Answered(j, n + 1)) => stack = << >>
    BY <1>1, ActiveTasks
  <2> QED BY <2>1, <2>2
<1> DEFINE Alone    == \E j \in Tasks(n + 1) : RunsAlone(j, n + 1)
           answered == \A j \in Tasks(n + 1) : heard[j].id # NoId /\ Answered(j, n + 1)
<1>5. (heard # << >> =>
          /\ heard[n + 1].type = "chunk" =>
                /\ Alone => n + 1 \notin Positions(Prose)
                /\ answered => n + 1 \in Positions(Prose)
          /\ heard[n + 1].kind = "tool" /\ ~IsTask(heard[n + 1]) =>
                /\ Cardinality({ i \in DOMAIN segments : n + 1 \in Range(segments[i].parts) }) = 1
                /\ answered => n + 1 \in Positions({"tool"}))'
  <2>1. Alone' => stack # << >> BY <1>3
  <2>2. answered' => stack = << >> BY <1>4
  <2> HIDE DEF Alone, answered
  <2>3. IsTask(heard[n + 1])' <=> IsTask(e) BY <1>2 DEF IsTask
  <2> QED BY <1>2, <2>1, <2>2, <2>3
<1> QED BY <1>2, <1>5 DEF SubagentsStayInside

\* What does not touch the transcript.
LEMMA TypesStay ==
  ASSUME TranscriptInv, NEW e \in TurnEvents, Hears(e), UNCHANGED << segments, stack >>,
         open' = open \/ open' = Closed(open)
  PROVE  TranscriptTypes' /\ \A kinds : (Len(heard) + 1 \notin Positions(kinds)')
<1>1. PICK n : n = Len(heard) OBVIOUS
<1>2. PICK l : l = Len(segments) OBVIOUS
<1>3. n \in Nat /\ Len(heard') = n + 1 BY <1>1, HeardBefore DEF TranscriptInv
<1>4. TranscriptTypes BY DEF TranscriptInv
<1>5. l \in Nat /\ open \in [tool : 0 .. n, thinking : 0 .. l, text : 0 .. l]
  BY <1>1, <1>2, <1>4 DEF TranscriptTypes, SegmentsTyped
<1>6. /\ open' \in [tool : 0 .. n, thinking : 0 .. l, text : 0 .. l]
      /\ \A k \in Prose : open'[k] \in {0, open[k]}
  BY <1>3, <1>5, ClosedBlocks
<1>7. open' \in [tool : 0 .. n + 1, thinking : 0 .. l, text : 0 .. l] BY <1>3, <1>5, <1>6
<1>8. PartsHeard' BY <1>1, <1>3, <1>4 DEF TranscriptTypes, PartsHeard
<1>9. TranscriptTypes' BY <1>2, <1>3, <1>4, <1>6, <1>7, <1>8 DEF TranscriptTypes, SegmentsTyped
<1>10. ASSUME NEW kinds PROVE n + 1 \notin Positions(kinds)'
  <2>1. Positions(kinds)' = Positions(kinds) BY DEF Positions
  <2>2. ASSUME NEW i \in DOMAIN segments PROVE ~Shows(i, n + 1)
    <3>1. \A p \in DOMAIN segments[i].parts : segments[i].parts[p] \in 1 .. n
      BY <1>1, <1>4 DEF TranscriptTypes, PartsHeard
    <3> QED BY <1>3, <3>1 DEF Shows
  <2> QED BY <2>1, <2>2, ShownPositions
<1> QED BY <1>1, <1>9, <1>10

LEMMA SuppressedInv ==
  ASSUME TranscriptInv, NEW e \in TurnEvents, Hears(e), Suppressed(e), UNCHANGED transcript
  PROVE  TranscriptTypes' /\ StackInv' /\ SubagentsStayInside'
<1>1. UNCHANGED << segments, stack, open >> BY DEF transcript
<1>2. e.kind \in Prose /\ stack # << >> BY DEF Suppressed
<1>3. ~IsTask(e) /\ e.type # "result" /\ e.kind # "tool" BY <1>2, EventShape DEF Prose, IsTask
<1>4. StackInv' BY <1>1, <1>3, StackStays
<1>5. PICK n : n = Len(heard) OBVIOUS
<1>6. TranscriptTypes' /\ n + 1 \notin Positions(Prose)' BY <1>1, <1>5, TypesStay
<1> QED BY <1>2, <1>3, <1>4, <1>5, <1>6, InsideStays

LEMMA EndBlockInv ==
  ASSUME TranscriptInv, NEW e \in TurnEvents, Hears(e), e.type = "stop", open' = Closed(open),
         UNCHANGED << segments, stack >>
  PROVE  TranscriptTypes' /\ StackInv' /\ SubagentsStayInside'
<1>1. ~IsTask(e) /\ e.type # "result" /\ e.kind # "tool" /\ e.type # "chunk"
  BY EventShape DEF Prose, IsTask
<1>2. StackInv' BY <1>1, StackStays
<1>3. TranscriptTypes' BY TypesStay
<1> QED BY <1>1, <1>2, <1>3, InsideStays

LEMMA TakeResultInv ==
  ASSUME TasksApart, TranscriptInv, NEW e \in TurnEvents, Hears(e), NEW n, TakeResult(e, n)
  PROVE  TranscriptTypes' /\ StackInv' /\ SubagentsStayInside'
<1>1. /\ e.type = "result" /\ stack' = SubSeq(stack, 1, Depth(e.id, NameOf(e.id, n)))
      /\ UNCHANGED << segments, open >>
  BY DEF TakeResult
<1>2. StackInv' BY <1>1, PopStack
<1>3. e.kind # "tool" /\ e.type # "chunk" BY <1>1, EventShape
<1>4. PICK l : l = Len(segments) OBVIOUS
<1>5. PICK m : m = Len(stack) OBVIOUS
<1>6. TranscriptTypes BY DEF TranscriptInv
<1>7. stack \in Seq([id : Ids, segment : 1 .. l]) /\ m \in Nat /\ DOMAIN stack = 1 .. m
  BY <1>4, <1>5, <1>6 DEF TranscriptTypes
<1>8. Depth(e.id, NameOf(e.id, n)) \in 0 .. m BY <1>5, <1>7, DepthCloses
<1>9. stack' \in Seq([id : Ids, segment : 1 .. l])
  <2> DEFINE k == Depth(e.id, NameOf(e.id, n))
  <2>1. k \in Nat /\ k <= m BY <1>7, <1>8
  <2> HIDE DEF k
  <2> DEFINE S == [id : Ids, segment : 1 .. l]
  <2>2. stack \in Seq(S) BY <1>7
  <2> HIDE DEF S
  <2>3. SubSeq(stack, 1, k) \in Seq(S) BY <1>5, <1>7, <2>1, <2>2
  <2> QED BY <1>1, <2>3 DEF k, S
<1>10. PICK n0 : n0 = Len(heard) OBVIOUS
<1>11. n0 \in Nat /\ Len(heard') = n0 + 1 BY <1>10, HeardBefore DEF TranscriptInv
<1>12. l \in Nat BY <1>4, <1>6 DEF TranscriptTypes, SegmentsTyped
<1>13. open' \in [tool : 0 .. n0 + 1, thinking : 0 .. l, text : 0 .. l]
  <2>1. open \in [tool : 0 .. n0, thinking : 0 .. l, text : 0 .. l] BY <1>4, <1>6, <1>10 DEF TranscriptTypes
  <2> QED BY <1>1, <1>11, <1>12, <2>1
<1>14. PartsHeard' BY <1>1, <1>6, <1>10, <1>11 DEF TranscriptTypes, PartsHeard
<1>15. TranscriptTypes' BY <1>1, <1>4, <1>6, <1>9, <1>11, <1>13, <1>14 DEF TranscriptTypes, SegmentsTyped
<1> QED BY <1>2, <1>3, <1>15, InsideStays

\* The open segments among l, when m events were heard.
Opens(m, l) == [tool : 0 .. m, thinking : 0 .. l, text : 0 .. l]

\* A block in progress stays one of its kind when the transcript grows.
LEMMA GrownTypes ==
  ASSUME TranscriptInv, NEW e \in TurnEvents, Hears(e), NEW n, n = Len(heard), NEW l, l = Len(segments),
         NEW k \in {l, l + 1}, SegmentsTyped', PartsHeard', Len(segments') = k,
         \A i \in 1 .. l : segments'[i].kind = segments[i].kind,
         open' \in Opens(n + 1, k),
         \A kind \in Prose : open'[kind] # 0 =>
             open'[kind] = open[kind] \/ segments'[open'[kind]].kind = kind,
         stack' \in Seq([id : Ids, segment : 1 .. k])
  PROVE  TranscriptTypes'
<1>1. n \in Nat /\ Len(heard') = n + 1 BY HeardBefore DEF TranscriptInv
<1>2. TranscriptTypes BY DEF TranscriptInv
<1>3. open \in Opens(n, l) BY <1>2 DEF TranscriptTypes, Opens
<1>4. ASSUME NEW kind \in Prose, open'[kind] # 0 PROVE segments'[open'[kind]].kind = kind
  <2>1. CASE open'[kind] = open[kind]
    <3>1. segments[open[kind]].kind = kind BY <1>2, <1>4, <2>1 DEF TranscriptTypes
    <3>2. l \in Nat BY <1>2 DEF TranscriptTypes, SegmentsTyped
    <3>3. open[kind] \in 0 .. l BY <1>3 DEF Opens, Prose
    <3> QED BY <1>4, <2>1, <3>1, <3>2, <3>3
  <2> QED BY <1>4, <2>1
<1> QED BY <1>1, <1>4 DEF TranscriptTypes, Opens

LEMMA BlocksKept ==
  ASSUME TranscriptInv, NEW n, n = Len(heard), NEW l, l = Len(segments)
  PROVE  /\ n \in Nat /\ l \in Nat
         /\ \A m \in {n, n + 1}, k \in {l, l + 1} : open \in Opens(m, k) /\ Closed(open) \in Opens(m, k)
         /\ \A kind \in Prose : Closed(open)[kind] \in {0, open[kind]}
<1>1. n \in Nat /\ l \in Nat BY DEF TranscriptInv, TranscriptTypes, SegmentsTyped
<1>2. open \in Opens(n, l) BY DEF TranscriptInv, TranscriptTypes, Opens
<1>3. Closed(open) \in Opens(n, l) /\ \A kind \in Prose : Closed(open)[kind] \in {0, open[kind]}
  BY <1>1, <1>2, ClosedBlocks DEF Opens
<1>4. \A o \in Opens(n, l) : \A m \in {n, n + 1}, k \in {l, l + 1} : o \in Opens(m, k)
  BY <1>1 DEF Opens
<1> QED BY <1>1, <1>2, <1>3, <1>4

LEMMA StackKept ==
  ASSUME TranscriptInv, NEW l, l = Len(segments), NEW k \in {l, l + 1}
  PROVE  stack \in Seq([id : Ids, segment : 1 .. k])
<1>1. l \in Nat BY DEF TranscriptInv, TranscriptTypes, SegmentsTyped
<1>2. stack \in Seq([id : Ids, segment : 1 .. l]) BY DEF TranscriptInv, TranscriptTypes
<1>3. [id : Ids, segment : 1 .. l] \subseteq [id : Ids, segment : 1 .. k] BY <1>1
<1> DEFINE S == [id : Ids, segment : 1 .. l]
           T == [id : Ids, segment : 1 .. k]
<1> HIDE DEF S, T
<1>4. stack \in Seq(S) /\ S \subseteq T BY <1>2, <1>3 DEF S, T
<1>5. stack \in Seq(T) BY <1>4
<1> QED BY <1>5 DEF T

LEMMA ErrorInv ==
  ASSUME TranscriptInv, NEW e \in TurnEvents, Hears(e), NEW n, n = Len(heard), e.kind = "error",
         segments' = Append(segments, Segment("error", << n + 1 >>)), UNCHANGED << open, stack >>
  PROVE  TranscriptTypes' /\ StackInv' /\ SubagentsStayInside'
<1>1. ~IsTask(e) /\ e.type # "result" /\ e.kind # "tool" /\ e.type # "chunk"
  BY EventShape DEF Prose, IsTask
<1>2. StackInv' BY <1>1, StackStays
<1>3. PICK l : l = Len(segments) OBVIOUS
<1>4. << n + 1 >> \in Seq({n + 1}) /\ "error" \in Kinds BY DEF Kinds
<1>5. /\ SegmentsTyped' /\ PartsHeard' /\ Len(segments') = l + 1
      /\ \A i \in 1 .. l : segments'[i] = segments[i]
  BY <1>3, <1>4, NewSegment
<1>6. open' \in Opens(n + 1, l + 1) BY <1>3, BlocksKept
<1>7. stack' \in Seq([id : Ids, segment : 1 .. l + 1]) BY <1>3, StackKept
<1>8. TranscriptTypes' BY <1>3, <1>5, <1>6, <1>7, GrownTypes
<1> QED BY <1>1, <1>2, <1>8, InsideStays

LEMMA StartProseInv ==
  ASSUME TranscriptInv, NEW e \in TurnEvents, Hears(e), StartProse(e)
  PROVE  TranscriptTypes' /\ StackInv' /\ SubagentsStayInside'
<1>1. /\ e.type = "start" /\ e.kind \in Prose
      /\ segments' = Append(segments, Segment(e.kind, << >>))
      /\ open' = [Closed(open) EXCEPT ![e.kind] = Len(segments')]
      /\ UNCHANGED stack
  BY DEF StartProse
<1>2. ~IsTask(e) /\ e.type # "result" /\ e.kind # "tool" /\ e.type # "chunk"
  BY <1>1, EventShape DEF Prose, IsTask
<1>3. StackInv' BY <1>1, <1>2, StackStays
<1>4. PICK l : l = Len(segments) OBVIOUS
<1>5. PICK n : n = Len(heard) OBVIOUS
<1>6. PICK parts : parts = << >> OBVIOUS
<1>7. /\ SegmentsTyped' /\ PartsHeard' /\ Len(segments') = l + 1
      /\ segments'[l + 1] = Segment(e.kind, parts)
      /\ \A i \in 1 .. l : segments'[i] = segments[i]
  <2>1. parts \in Seq({n + 1}) /\ e.kind \in Kinds BY <1>1, <1>6 DEF Kinds, Prose
  <2>2. segments' = Append(segments, Segment(e.kind, parts)) BY <1>1, <1>6
  <2> QED BY <1>4, <1>5, <2>1, <2>2, NewSegment
<1>8. /\ Closed(open) \in Opens(n + 1, l + 1) /\ l \in Nat /\ n \in Nat
      /\ \A kind \in Prose : Closed(open)[kind] \in {0, open[kind]}
  BY <1>4, <1>5, BlocksKept
<1>9. open' \in Opens(n + 1, l + 1) BY <1>1, <1>7, <1>8 DEF Opens, Prose
<1>10. ASSUME NEW kind \in Prose, open'[kind] # 0
       PROVE  open'[kind] = open[kind] \/ segments'[open'[kind]].kind = kind
  <2>1. CASE kind = e.kind
    <3>1. open'[kind] = l + 1 BY <1>1, <1>7, <1>8, <2>1 DEF Opens, Prose
    <3> QED BY <1>7, <2>1, <3>1 DEF Segment
  <2>2. CASE kind # e.kind
    <3>1. open'[kind] = Closed(open)[kind] BY <1>1, <1>8, <2>2 DEF Opens, Prose
    <3> QED BY <1>8, <1>10, <3>1
  <2> QED BY <2>1, <2>2
<1>11. stack' \in Seq([id : Ids, segment : 1 .. l + 1]) BY <1>1, <1>4, StackKept
<1>12. TranscriptTypes' BY <1>4, <1>5, <1>7, <1>9, <1>10, <1>11, GrownTypes
<1> QED BY <1>2, <1>3, <1>5, <1>12, InsideStays

LEMMA AppendProseInv ==
  ASSUME TranscriptInv, NEW e \in TurnEvents, Hears(e), NEW n, n = Len(heard), AppendProse(e, n + 1)
  PROVE  TranscriptTypes' /\ StackInv' /\ SubagentsStayInside'
<1>1. e.type = "chunk" /\ ~Suppressed(e) /\ UNCHANGED stack BY DEF AppendProse
<1>2. ~IsTask(e) /\ e.type # "result" /\ e.kind # "tool" /\ e.kind \in Prose
  BY <1>1, EventShape DEF Prose, IsTask
<1>3. stack = << >> BY <1>1, <1>2 DEF Suppressed
<1>4. StackInv' BY <1>1, <1>2, StackStays
<1>5. PICK l : l = Len(segments) OBVIOUS
<1>6. PICK at : at = IF Streams(e) THEN open[e.kind] ELSE 0 OBVIOUS
<1>7. /\ segments' = IF at # 0 THEN [segments EXCEPT ![at].parts = Append(@, n + 1)]
                     ELSE Append(segments, Segment(e.kind, << n + 1 >>))
      /\ open' = IF at = 0 /\ Streams(e) THEN [open EXCEPT ![e.kind] = Len(segments')] ELSE open
  BY <1>6 DEF AppendProse
<1>8. /\ \A k \in {l, l + 1} : open \in Opens(n + 1, k)
      /\ l \in Nat /\ n \in Nat
  BY <1>5, BlocksKept
<1>9. \A k \in {l, l + 1} : stack' \in Seq([id : Ids, segment : 1 .. k]) BY <1>1, <1>5, StackKept
<1>10. CASE at # 0
  <2>1. at = open[e.kind] /\ open' = open BY <1>6, <1>7, <1>10
  <2>2. at \in 1 .. l BY <1>2, <1>8, <1>10, <2>1 DEF Opens, Prose
  <2>3. segments[at].kind = e.kind BY <1>2, <1>10, <2>1 DEF TranscriptInv, TranscriptTypes
  <2>4. segments' = Lengthened(at, n + 1) BY <1>7, <1>10 DEF Lengthened
  <2>5. /\ SegmentsTyped' /\ PartsHeard' /\ Len(segments') = l /\ DOMAIN segments' = 1 .. l
        /\ \A i \in 1 .. l : segments'[i].kind = segments[i].kind
        /\ \E p \in DOMAIN segments'[at].parts : segments'[at].parts[p] = n + 1
    BY <1>5, <2>2, <2>4, LongerSegment
  <2>6. TranscriptTypes' BY <1>5, <1>8, <1>9, <2>1, <2>5, GrownTypes
  <2>7. (n + 1 \in Positions(Prose))'
    <3>1. (\E i \in DOMAIN segments : segments[i].kind \in Prose /\ Shows(i, n + 1))'
      BY <1>2, <2>2, <2>3, <2>5 DEF Shows
    <3> QED BY <3>1 DEF Positions, Shows, Range
  <2> QED BY <1>2, <1>3, <1>4, <2>6, <2>7, InsideStays
<1>11. CASE at = 0
  <2>0. PICK parts : parts = << n + 1 >> OBVIOUS
  <2>1. segments' = Append(segments, Segment(e.kind, parts)) BY <1>7, <1>11, <2>0
  <2>2. parts \in Seq({n + 1}) /\ e.kind \in Kinds BY <1>2, <2>0 DEF Kinds, Prose
  <2>3. /\ SegmentsTyped' /\ PartsHeard' /\ Len(segments') = l + 1 /\ DOMAIN segments' = 1 .. l + 1
        /\ segments'[l + 1] = Segment(e.kind, parts)
        /\ \A i \in 1 .. l : segments'[i] = segments[i]
    BY <1>5, <2>1, <2>2, NewSegment
  <2>4. open' = open \/ open' = [open EXCEPT ![e.kind] = l + 1] BY <1>7, <2>3
  <2>5. open' \in Opens(n + 1, l + 1) BY <1>2, <1>8, <2>4 DEF Opens, Prose
  <2>6. ASSUME NEW kind \in Prose, open'[kind] # 0
        PROVE  open'[kind] = open[kind] \/ segments'[open'[kind]].kind = kind
    <3>1. CASE open' = open BY <3>1
    <3>2. CASE open' = [open EXCEPT ![e.kind] = l + 1] /\ kind = e.kind
      <4>1. open'[kind] = l + 1 BY <1>2, <1>8, <3>2 DEF Opens, Prose
      <4> QED BY <2>3, <3>2, <4>1 DEF Segment
    <3>3. CASE open' = [open EXCEPT ![e.kind] = l + 1] /\ kind # e.kind
      BY <1>8, <3>3 DEF Opens, Prose
    <3> QED BY <2>4, <3>1, <3>2, <3>3
  <2>7. TranscriptTypes' BY <1>5, <1>9, <2>3, <2>5, <2>6, GrownTypes
  <2>8. (n + 1 \in Positions(Prose))'
    <3>1. (\E i \in DOMAIN segments : segments[i].kind \in Prose /\ Shows(i, n + 1))'
      BY <1>2, <1>8, <2>0, <2>3 DEF Shows, Segment
    <3> QED BY <3>1 DEF Positions, Shows, Range
  <2> QED BY <1>2, <1>3, <1>4, <2>7, <2>8, InsideStays
<1> QED BY <1>10, <1>11

LEMMA StartTaskInv ==
  ASSUME TranscriptInv, NEW e \in TurnEvents, Hears(e), Unused(e), StartTask(e)
  PROVE  TranscriptTypes' /\ StackInv' /\ SubagentsStayInside'
<1>1. /\ IsTask(e)
      /\ segments' = Append(segments, Segment("subagent", << >>))
      /\ stack' = Append(stack, [id |-> e.id, segment |-> Len(segments')])
      /\ open' = IF Streams(e) THEN Closed(open) ELSE open
  BY DEF StartTask
<1>2. e.type # "chunk" /\ e.id \in Ids BY <1>1, EventShape DEF IsTask
<1>3. PICK s : s = Len(segments') OBVIOUS
<1>4. stack' = Append(stack, [id |-> e.id, segment |-> s]) BY <1>1, <1>3
<1>5. StackInv' BY <1>1, <1>4, PushStack
<1>6. PICK l : l = Len(segments) OBVIOUS
<1>7. PICK n : n = Len(heard) OBVIOUS
<1>8. << >> \in Seq({n + 1}) /\ "subagent" \in Kinds BY DEF Kinds
<1>9. /\ SegmentsTyped' /\ PartsHeard' /\ Len(segments') = l + 1 /\ l \in Nat
      /\ \A i \in 1 .. l : segments'[i] = segments[i]
  BY <1>1, <1>6, <1>7, <1>8, NewSegment
<1>10. /\ open' \in Opens(n + 1, l + 1)
       /\ \A kind \in Prose : open'[kind] \in {0, open[kind]}
  BY <1>1, <1>6, <1>7, BlocksKept
<1>11. stack' \in Seq([id : Ids, segment : 1 .. l + 1])
  <2> DEFINE T == [id : Ids, segment : 1 .. l + 1]
             top == [id |-> e.id, segment |-> s]
  <2>1. stack \in Seq(T) BY <1>6, StackKept
  <2>2. top \in T BY <1>2, <1>3, <1>9
  <2> HIDE DEF T, top
  <2>3. Append(stack, top) \in Seq(T) BY <2>1, <2>2
  <2> QED BY <1>4, <2>3 DEF T, top
<1>12. TranscriptTypes' BY <1>6, <1>7, <1>9, <1>10, <1>11, GrownTypes
<1> QED BY <1>1, <1>2, <1>5, <1>7, <1>12, InsideStays

LEMMA CallToolInv ==
  ASSUME TranscriptInv, NEW e \in TurnEvents, Hears(e), NEW n, n = Len(heard), CallTool(e, n + 1)
  PROVE  TranscriptTypes' /\ StackInv' /\ SubagentsStayInside'
<1>1. /\ e.kind = "tool" /\ ~IsTask(e) /\ UNCHANGED stack
      /\ segments' = IF stack # << >>
                     THEN [segments EXCEPT ![CallHolder].parts = Append(@, n + 1)]
                     ELSE Append(segments, Segment("tool", << n + 1 >>))
      /\ open' = IF Streams(e) THEN [Closed(open) EXCEPT !.tool = n + 1] ELSE open
  BY DEF CallTool
<1>2. e.type # "result" /\ e.type # "chunk" BY <1>1, EventShape
<1>3. StackInv' BY <1>1, <1>2, StackStays
<1>4. PICK l : l = Len(segments) OBVIOUS
<1>5. /\ \A k \in {l, l + 1} : open \in Opens(n + 1, k) /\ Closed(open) \in Opens(n + 1, k)
      /\ l \in Nat /\ n \in Nat
      /\ \A kind \in Prose : Closed(open)[kind] \in {0, open[kind]}
  BY <1>4, BlocksKept
<1>6. \A k \in {l, l + 1} : stack' \in Seq([id : Ids, segment : 1 .. k]) BY <1>1, <1>4, StackKept
<1>7. \A k \in {l, l + 1} : open' \in Opens(n + 1, k) BY <1>1, <1>5 DEF Opens
<1>8. \A kind \in Prose : open'[kind] \in {0, open[kind]} BY <1>1, <1>5 DEF Opens, Prose
<1>9. TranscriptTypes /\ PartsHeard BY DEF TranscriptInv, TranscriptTypes
<1>10. CASE stack # << >>
  <2> DEFINE at == CallHolder
  <2>1. at \in 1 .. l
    <3>1. stack \in Seq([id : Ids, segment : 1 .. l]) BY <1>4, <1>9 DEF TranscriptTypes
    <3>2. Len(stack) \in DOMAIN stack BY <1>10, <3>1
    <3> DEFINE T == [id : Ids, segment : 1 .. l]
    <3> HIDE DEF T
    <3>3. stack \in Seq(T) BY <3>1 DEF T
    <3>4. stack[Len(stack)] \in T BY <3>2, <3>3
    <3> QED BY <3>4 DEF T, CallHolder, Last
  <2>2. segments' = Lengthened(at, n + 1) BY <1>1, <1>10 DEF Lengthened
  <2> HIDE DEF at
  <2>3. PICK c : c = at OBVIOUS
  <2>4. segments' = Lengthened(c, n + 1) /\ c \in 1 .. l BY <2>1, <2>2, <2>3
  <2>5. /\ SegmentsTyped' /\ PartsHeard' /\ Len(segments') = l
        /\ DOMAIN segments = 1 .. l /\ DOMAIN segments' = 1 .. l
        /\ \A i \in 1 .. l : segments'[i].kind = segments[i].kind
        /\ \A i \in 1 .. l \ {c} : segments'[i] = segments[i]
        /\ \E p \in DOMAIN segments'[c].parts : segments'[c].parts[p] = n + 1
    BY <1>4, <2>4, LongerSegment
  <2>6. TranscriptTypes' BY <1>4, <1>6, <1>7, <1>8, <2>5, GrownTypes
  <2>7. { i \in DOMAIN segments' : n + 1 \in Range(segments'[i].parts) } = {c}
    <3>1. \A i \in 1 .. l : i # c => i \in DOMAIN segments /\ segments'[i] = segments[i] BY <2>5
    <3>2. DOMAIN segments \subseteq 1 .. l BY <2>5
    <3>3. PICK s : s = segments' OBVIOUS
    <3>4. /\ DOMAIN s = 1 .. l
          /\ \A i \in 1 .. l : i # c => i \in DOMAIN segments /\ s[i] = segments[i]
          /\ \E p \in DOMAIN s[c].parts : s[c].parts[p] = n + 1
      BY <2>5, <3>1, <3>3
    <3>5. n \in Nat /\ n = Len(heard) /\ l \in Nat /\ c \in 1 .. l /\ PartsHeard BY <1>5, <1>9, <2>4
    <3>6. ASSUME NEW i \in 1 .. l, i # c PROVE n + 1 \notin Range(s[i].parts)
      <4>1. s[i] = segments[i] /\ i \in DOMAIN segments BY <3>4, <3>6
      <4>2. \A p \in DOMAIN segments[i].parts : segments[i].parts[p] \in 1 .. n
        BY <3>5, <4>1 DEF PartsHeard
      <4> QED BY <3>5, <4>1, <4>2 DEF Range
    <3>7. n + 1 \in Range(s[c].parts) BY <3>4 DEF Range
    <3> QED BY <3>3, <3>4, <3>5, <3>6, <3>7
  <2>8. (Cardinality({ i \in DOMAIN segments : n + 1 \in Range(segments[i].parts) }) = 1)'
    BY <2>7, FS_Singleton
  <2> QED BY <1>2, <1>3, <1>10, <2>6, <2>8, InsideStays
<1>11. CASE stack = << >>
  <2>0. PICK parts : parts = << n + 1 >> OBVIOUS
  <2>1. segments' = Append(segments, Segment("tool", parts)) BY <1>1, <1>11, <2>0
  <2>2. parts \in Seq({n + 1}) /\ "tool" \in Kinds BY <2>0 DEF Kinds
  <2>3. /\ SegmentsTyped' /\ PartsHeard' /\ Len(segments') = l + 1 
        /\ DOMAIN segments = 1 .. l /\ DOMAIN segments' = 1 .. l + 1
        /\ segments'[l + 1] = Segment("tool", parts)
        /\ \A i \in 1 .. l : segments'[i] = segments[i]
    BY <1>4, <2>1, <2>2, NewSegment
  <2>4. TranscriptTypes' BY <1>4, <1>6, <1>7, <1>8, <2>3, GrownTypes
  <2>5. \E p \in DOMAIN segments'[l + 1].parts : segments'[l + 1].parts[p] = n + 1
    BY <2>0, <2>3 DEF Segment
  <2>6. { i \in DOMAIN segments' : n + 1 \in Range(segments'[i].parts) } = {l + 1}
    <3>1. ASSUME NEW i \in 1 .. l PROVE n + 1 \notin Range(segments'[i].parts)
      <4>1. \A p \in DOMAIN segments[i].parts : segments[i].parts[p] \in 1 .. n
        BY <1>9, <2>3 DEF PartsHeard
      <4> QED BY <1>5, <2>3, <4>1 DEF Range
    <3>2. n + 1 \in Range(segments'[l + 1].parts) BY <2>5 DEF Range
    <3> QED BY <1>5, <2>3, <3>1, <3>2
  <2>7. (Cardinality({ i \in DOMAIN segments : n + 1 \in Range(segments[i].parts) }) = 1)'
    BY <2>6, FS_Singleton
  <2>8. (n + 1 \in Positions({"tool"}))'
    <3>1. (\E i \in DOMAIN segments : segments[i].kind \in {"tool"} /\ Shows(i, n + 1))'
      BY <1>5, <2>3, <2>5 DEF Shows, Segment
    <3> QED BY <3>1 DEF Positions, Shows, Range
  <2> QED BY <1>2, <1>3, <2>4, <2>7, <2>8, InsideStays
<1> QED BY <1>10, <1>11

\* What one more event does to the transcript, whichever it is.
LEMMA HearInv ==
  ASSUME TasksApart, TranscriptInv, NEW e \in TurnEvents, Unused(e), Hears(e)
  PROVE  TranscriptInv'
<1>1. PICK n : n = Len(heard) OBVIOUS
<1>2. heard' \in Seq(TurnEvents) /\ Len(heard') = n + 1 BY <1>1, HeardBefore DEF TranscriptInv
<1>3. Apply(e, n + 1) BY <1>2 DEF Hears
<1>4. CASE Suppressed(e) /\ UNCHANGED transcript BY <1>2, <1>4, SuppressedInv DEF TranscriptInv
<1>5. CASE StartProse(e) BY <1>2, <1>5, StartProseInv DEF TranscriptInv
<1>6. CASE AppendProse(e, n + 1) BY <1>1, <1>2, <1>6, AppendProseInv DEF TranscriptInv
<1>7. CASE StartTask(e) BY <1>2, <1>7, StartTaskInv DEF TranscriptInv
<1>8. CASE CallTool(e, n + 1) BY <1>1, <1>2, <1>8, CallToolInv DEF TranscriptInv
<1>9. CASE TakeResult(e, n + 1) BY <1>2, <1>9, TakeResultInv DEF TranscriptInv
<1>10. CASE e.type = "stop" /\ open' = Closed(open) /\ UNCHANGED << segments, stack >>
  BY <1>2, <1>10, EndBlockInv DEF TranscriptInv
<1>11. CASE e.kind = "error" /\ segments' = Append(segments, Segment("error", << n + 1 >>))
            /\ UNCHANGED << open, stack >>
  BY <1>1, <1>2, <1>11, ErrorInv DEF TranscriptInv
<1> QED BY <1>3, <1>4, <1>5, <1>6, <1>7, <1>8, <1>9, <1>10, <1>11 DEF Apply

LEMMA TranscriptStays == ASSUME TranscriptInv, UNCHANGED << heard, transcript >> PROVE TranscriptInv'
<1>1. UNCHANGED << heard, segments, open, stack >> BY DEF transcript
<1>2. TranscriptTypes' BY <1>1 DEF TranscriptInv, TranscriptTypes, SegmentsTyped, PartsHeard
<1>3. StackInv'
  BY <1>1 DEF TranscriptInv, StackInv, Known, Task, IsTask, Unheard, AnsweredIn, Tasks
<1>4. SubagentsStayInside'
  BY <1>1 DEF TranscriptInv, SubagentsStayInside, Tasks, IsTask, Answered, AnsweredIn, RunsAlone, Positions
<1> QED BY <1>1, <1>2, <1>3, <1>4 DEF TranscriptInv

LEMMA TranscriptInitInv == TurnInit => TranscriptInv
<1> SUFFICES ASSUME TurnInit PROVE TranscriptInv OBVIOUS
<1>1. /\ heard = << >> /\ segments = << >> /\ stack = << >>
      /\ open = [tool |-> 0, thinking |-> 0, text |-> 0]
  BY DEF TurnInit
<1>2. TranscriptTypes
  <2>1. SegmentsTyped /\ PartsHeard BY <1>1 DEF SegmentsTyped, PartsHeard
  <2>2. open \in [tool : 0 .. Len(heard), thinking : 0 .. Len(segments), text : 0 .. Len(segments)]
    BY <1>1
  <2>3. \A k \in Prose : open[k] = 0 BY <1>1 DEF Prose
  <2>4. stack \in Seq([id : Ids, segment : 1 .. Len(segments)]) BY <1>1
  <2> QED BY <2>1, <2>2, <2>3, <2>4 DEF TranscriptTypes
<1>3. StackInv BY <1>1 DEF StackInv
<1>4. SubagentsStayInside BY <1>1 DEF SubagentsStayInside
<1> QED BY <1>1, <1>2, <1>3, <1>4 DEF TranscriptInv

LEMMA TranscriptStepInv == TasksApart /\ TranscriptInv /\ [TurnNext]_turnVars => TranscriptInv'
<1> SUFFICES ASSUME TasksApart, TranscriptInv, [TurnNext]_turnVars PROVE TranscriptInv' OBVIOUS
<1>1. Error \in TurnEvents /\ Done \in TurnEvents BY DEF TurnEvents
<1>2. Unused(Error) /\ Unused(Done) BY DEF Unused, Error, Done, CliEvent
<1>3. ASSUME NEW status, ShowEnd(Error, status) PROVE TranscriptInv'
  BY <1>1, <1>2, <1>3, HearInv DEF ShowEnd
<1>4. CASE GetSession BY <1>4, TranscriptStays DEF GetSession
<1>5. CASE HearError BY <1>3, <1>5 DEF HearError
<1>6. CASE ExitWell BY <1>1, <1>2, <1>6, HearInv, TranscriptStays DEF ExitWell
<1>7. CASE ExitBadly BY <1>3, <1>7, TranscriptStays DEF ExitBadly
<1>8. CASE EndSilently BY <1>3, <1>8, TranscriptStays DEF EndSilently
<1>9. CASE Refused BY <1>3, <1>9 DEF Refused
<1>10. CASE Breaks BY <1>3, <1>10 DEF Breaks
<1>11. CASE Settle BY <1>11, TranscriptStays DEF Settle
<1>12. CASE RemoveSession BY <1>12, TranscriptStays DEF RemoveSession
<1>13. CASE Elapse BY <1>13, TranscriptStays DEF Elapse
<1>14. CASE \E e \in BlockEvents : HearBlock(e) BY <1>14, HearInv DEF HearBlock, TurnEvents
<1>15. CASE \E reason \in {"stop", "clear", "none"} : Cancel(reason)
  <2>1. PICK reason \in {"stop", "clear", "none"} : Cancel(reason) BY <1>15
  <2>2. ShowCancelled(reason) \/ UNCHANGED << heard, transcript, recent, message >> BY <2>1 DEF Cancel
  <2>3. CASE ShowCancelled(reason)
    <3>1. UNCHANGED << heard, transcript >> \/ ShowEnd(Error, "cancelled")
      BY <2>1, <2>3 DEF ShowCancelled
    <3> QED BY <1>3, <3>1, TranscriptStays
  <2> QED BY <2>2, <2>3, TranscriptStays
<1>16. CASE UNCHANGED turnVars BY <1>16, TranscriptStays DEF turnVars, transcript
<1> QED
  BY <1>4, <1>5, <1>6, <1>7, <1>8, <1>9, <1>10, <1>11, <1>12, <1>13, <1>14, <1>15, <1>16 DEF TurnNext

LEMMA TurnTyped == ASSUME EndInv, TranscriptInv PROVE TurnTypeOK
<1>1. /\ TurnTypes /\ TranscriptTypes BY DEF EndInv, TranscriptInv
<1>2. /\ turn.at \in {"starting", "reading", "settling", "removing", "done"}
      /\ turn.status \in Statuses /\ turn.failed \in BOOLEAN /\ turn.guarded \in BOOLEAN
      /\ claim.state \in {"in_progress", "completed", "error"}
      /\ claim.cancel \in {"none", "stop", "clear"} /\ recent \in BOOLEAN
  BY <1>1 DEF TurnTypes
<1>3. message.status \in Statuses \cup Verdicts /\ message.all \in BOOLEAN
  BY <1>1 DEF TurnTypes, Messages
<1>4. open.tool \in 0 .. Len(heard) /\ {open.text, open.thinking} \subseteq 0 .. Len(segments)
  BY <1>1 DEF TranscriptTypes
<1>5. \A d \in DOMAIN stack : stack[d].segment \in DOMAIN segments
  <2> DEFINE T == [id : Ids, segment : 1 .. Len(segments)]
  <2>1. stack \in Seq(T) BY <1>1 DEF TranscriptTypes
  <2>2. DOMAIN segments = 1 .. Len(segments) BY <1>1 DEF TranscriptTypes, SegmentsTyped
  <2>3. \A t \in T : t.segment \in DOMAIN segments BY <2>2
  <2> HIDE DEF T
  <2>4. \A d \in DOMAIN stack : stack[d] \in T BY <2>1
  <2> QED BY <2>3, <2>4
<1> QED BY <1>2, <1>3, <1>4, <1>5 DEF TurnTypeOK

\* Whatever the CLI says and whenever a turn is cancelled, if no result looks like
\* one of two Tasks: subagents stay inside, displays fit the platform with the
\* newest that fits, and the message of a turn that is over says how it ended
\* (node_runner.py, transcript/subagents.py, transcript/renderer.py).
THEOREM ToldTurns == ASSUME TasksApart PROVE TurnSpec => []TurnIsTold
<1> DEFINE TurnInv == EndInv /\ TranscriptInv
<1>1. TurnInit => TurnInv BY EndInitInv, TranscriptInitInv
<1>2. TurnInv /\ [TurnNext]_turnVars => TurnInv' BY EndStepInv, TranscriptStepInv
<1>3. TurnInv => TurnIsTold
  <2> SUFFICES ASSUME EndInv, TranscriptInv PROVE TurnIsTold OBVIOUS
  <2>1. DisplayFits BY DisplaysFit DEF TranscriptInv, TranscriptTypes
  <2>2. EndIsTold BY DEF EndInv, EndedInv, EndIsTold, TellsFailure, Bad
  <2> QED BY <2>1, <2>2, TurnTyped DEF TurnIsTold, TranscriptInv
<1> QED BY <1>1, <1>2, <1>3, PTL DEF TurnSpec
=============================================================================
