------------------------------ MODULE Branches ------------------------------
(***************************************************************************)
(* The versions of one conversation: ConversationVersionService of         *)
(* core/services/v5_service.py, the message rows it links, the routes that *)
(* post, edit and move, and the turns that answer.                         *)
(*                                                                         *)
(* A message row points to its parent; a branch and the thread point to a  *)
(* leaf, and the visible history is the chain of parents of the thread's   *)
(* leaf.  A row is created and attached to the active branch in two        *)
(* transactions with no await between them: only a failure separates them. *)
(* A reply is attached when its turn completes, to whatever is active then.*)
(***************************************************************************)
EXTENDS Naturals, Sequences, FiniteSets

CONSTANTS
    Keys,           \* endpoint_message_ids
    noKey,          \* a message posted without one
    MaxMessages,    \* bound on the message rows
    MaxBranches,    \* bound on the branches
    MaxManual,      \* bound on the manual checkpoints
    MaxFailed       \* bound on the messages that were not attached

ASSUME BranchesAssumption ==
    /\ noKey \notin Keys
    /\ MaxMessages \in Nat
    /\ MaxBranches \in Nat \ {0}

VARIABLES
    messages,       \* the message rows, in order of creation
    branches,       \* the branch rows: parent branch and leaf
    active,         \* Thread.active_branch_id, 0 when null
    leaf,           \* Thread.current_leaf_message_id, 0 when null
    checkpoints,    \* the checkpoints: kind, branch and message
    asked,          \* user messages whose turn is queued or running
    moved           \* history: those of asked whose branch has been left since

branchesVars == <<messages, branches, active, leaf, checkpoints, asked, moved>>

Rows  == 1..Len(messages)
Known == 1..Len(branches)

\* parent and branch are 0 for null.  History: answers is the question a reply
\* is for, strayed that the user left its branch before the reply came.
Row == [role : {"user", "assistant"}, key : Keys \cup {noKey}, branch : 0..MaxBranches,
        parent : 0..MaxMessages, revisionOf : 0..MaxMessages, answers : 0..MaxMessages,
        strayed : BOOLEAN]

BranchesTypeOK ==
    /\ messages \in Seq(Row) /\ Len(messages) <= MaxMessages
    /\ branches \in Seq([parent : 0..MaxBranches, leaf : 0..MaxMessages])
    /\ Len(branches) <= MaxBranches
    /\ active \in 0..Len(branches)
    /\ leaf \in 0..Len(messages)
    /\ checkpoints \subseteq [kind : {"auto", "manual"}, branch : Known, message : 0..Len(messages)]
    /\ asked \subseteq Rows
    /\ moved \subseteq asked

\* A new thread.
BranchesInit ==
    /\ messages = << >>
    /\ branches = << >>
    /\ active = 0
    /\ leaf = 0
    /\ checkpoints = {}
    /\ asked = {}
    /\ moved = {}

\* list_branch_path: parents up to the root, stopping at a row met before.
Path(m) ==
    LET up[x \in (0..Len(messages)) \X SUBSET Rows] ==
          IF x[1] = 0 \/ x[1] \in x[2] THEN << >>
          ELSE Append(up[<<messages[x[1]].parent, x[2] \cup {x[1]}>>], x[1])
    IN  up[<<m, {}>>]

OnPath(m) == {Path(m)[i] : i \in 1..Len(Path(m))}

\* list_messages_for_thread: without a leaf, every message of the thread,
\* whatever its branch.
Visible == IF leaf # 0 THEN OnPath(leaf) ELSE Rows

-----------------------------------------------------------------------------
(* Messages.                                                               *)

\* create_message: a row of no branch.
NewRow(role, key, question) ==
    [role |-> role, key |-> key, branch |-> 0, parent |-> 0, revisionOf |-> 0,
     answers |-> question, strayed |-> question \in moved]

\* The thread, the branches and the rows rs (the last one new) once
\* _ensure_default_branch_in_session is through: the first branch takes every
\* row and ends at the last one.
Ensured(rs) ==
    IF branches = << >>
    THEN [rows   |-> [i \in 1..Len(rs) |-> [rs[i] EXCEPT !.branch = 1]],
          known  |-> <<[parent |-> 0, leaf |-> Len(rs)]>>,
          active |-> 1,
          leaf   |-> Len(rs)]
    ELSE [rows |-> rs, known |-> branches, active |-> active, leaf |-> leaf]

\* Bug: the thread's pointer is left behind.
AttachWithoutPointer(rs) ==
    LET e == Ensured(rs)
        m == Len(rs)
    IN  /\ messages' = [e.rows EXCEPT ![m].branch = e.active,
                                      ![m].parent = IF e.leaf = m THEN 0 ELSE e.leaf]
        /\ branches' = [e.known EXCEPT ![e.active].leaf = m]
        /\ active' = e.active
        /\ leaf' = e.leaf
        /\ checkpoints' = checkpoints \cup {[kind |-> "auto", branch |-> e.active, message |-> m]}

\* attach_message_to_active_branch, for the last of rs: it goes below the
\* thread's leaf and becomes the leaf of the active branch and of the thread.
Attach(rs) ==
    LET e == Ensured(rs)
        m == Len(rs)
    IN  /\ messages' = [e.rows EXCEPT ![m].branch = e.active,
                                      ![m].parent = IF e.leaf = m THEN 0 ELSE e.leaf]
        /\ branches' = [e.known EXCEPT ![e.active].leaf = m]
        /\ active' = e.active
        /\ leaf' = m
        /\ checkpoints' = checkpoints \cup {[kind |-> "auto", branch |-> e.active, message |-> m]}

Room == Len(messages) < MaxMessages

\* Bug: a redelivered message is not recognised.
NewUnchecked(key) == Room

\* The idempotency check of POST /messages: a redelivery of a key is answered
\* with the row there is, and nothing is queued.
New(key) == Room /\ ~\E m \in Rows : key # noKey /\ messages[m].key = key

\* POST /messages: create, attach, queue the turn.
PostMessage(key) ==
    /\ New(key)
    /\ Attach(Append(messages, NewRow("user", key, 0)))
    /\ asked' = asked \cup {Len(messages) + 1}
    /\ UNCHANGED moved

\* The row is committed, the attachment is not: the process stops or the
\* second transaction fails.  The queue of the process may be lost with it.
PostFails(key) ==
    /\ New(key)
    /\ Cardinality(Rows \ {c.message : c \in checkpoints}) < MaxFailed
    /\ messages' = Append(messages, NewRow("user", key, 0))
    /\ asked' \in {asked, {}}
    /\ moved' = moved \cap asked'
    /\ UNCHANGED <<branches, active, leaf, checkpoints>>

\* persist_and_publish_assistant_message of the turn that answers q.
Reply(q) ==
    /\ q \in asked /\ Room
    /\ Attach(Append(messages, NewRow("assistant", noKey, q)))
    /\ asked' = asked \ {q}
    /\ moved' = moved \ {q}

\* A turn that ends without content persists nothing.
NoReply(q) ==
    /\ q \in asked
    /\ asked' = asked \ {q}
    /\ moved' = moved \ {q}
    /\ UNCHANGED <<messages, branches, active, leaf, checkpoints>>

\* A background turn, a research plan or report: an assistant message that no
\* user message of the thread asked for.
Notice ==
    /\ Room
    /\ Attach(Append(messages, NewRow("assistant", noKey, 0)))
    /\ UNCHANGED <<asked, moved>>

-----------------------------------------------------------------------------
(* Versions.                                                               *)

\* list_branches creates the default branch of a thread that has none.
ListBranches ==
    LET e == Ensured(messages)
    IN  /\ branches = << >>
        /\ messages' = e.rows
        /\ branches' = e.known
        /\ active' = e.active
        /\ leaf' = e.leaf
        /\ UNCHANGED <<checkpoints, asked, moved>>

\* create_checkpoint, by its route; the default branch is there afterwards.
CreateCheckpoint ==
    LET e == Ensured(messages)
        end == IF e.leaf # 0 THEN e.leaf ELSE e.known[e.active].leaf
    IN  /\ Cardinality({c \in checkpoints : c.kind = "manual"}) < MaxManual
        /\ messages' = e.rows
        /\ branches' = e.known
        /\ active' = e.active
        /\ leaf' = e.leaf
        /\ checkpoints' = checkpoints \cup
             {[kind |-> "manual", branch |-> e.active, message |-> end]}
        /\ UNCHANGED <<asked, moved>>

\* The history variable of a step that leaves the visible branch.
Moved == moved' = moved \cup asked

\* Bug: restoring rewinds the thread.
RestoreTruncates(c) ==
    /\ messages' = SubSeq(messages, 1, c.message)
    /\ branches' = [b \in Known |-> [branches[b] EXCEPT !.leaf = IF @ > c.message THEN c.message ELSE @]]
    /\ checkpoints' = {d \in checkpoints : d.message <= c.message}
    /\ active' = c.branch
    /\ leaf' = c.message
    /\ asked' = asked \cap 1..c.message
    /\ moved' = moved \cap 1..c.message

\* restore_checkpoint moves the thread's two pointers, nothing else.
Restore(c) ==
    /\ active' = c.branch
    /\ leaf' = c.message
    /\ Moved
    /\ UNCHANGED <<messages, branches, checkpoints, asked>>

\* checkout_checkpoint: a new branch that ends where the checkpoint is.
Checkout(c) ==
    /\ Len(branches) < MaxBranches
    /\ branches' = Append(branches, [parent |-> c.branch, leaf |-> c.message])
    /\ active' = Len(branches) + 1
    /\ leaf' = c.message
    /\ Moved
    /\ UNCHANGED <<messages, checkpoints, asked>>

\* activate_branch.
Activate(b) ==
    /\ active' = b
    /\ leaf' = branches[b].leaf
    /\ Moved
    /\ UNCHANGED <<messages, branches, checkpoints, asked>>

\* Bug: the revision is put below the message it revises.
ParentOfRevisionBelow(m) == m

\* edited.parent_message_id = message.parent_message_id
ParentOfRevision(m) == messages[m].parent

\* edit_retry and its route: a new branch with a revision of user message m,
\* whose turn is queued.  The revision inherits m's metadata, its key included.
EditRetry(m) ==
    LET e == Ensured(messages)
        n == Len(messages) + 1
        b == Len(e.known) + 1
    IN  /\ Room /\ b <= MaxBranches
        /\ messages[m].role = "user"
        /\ messages' = Append(e.rows,
             [NewRow("user", messages[m].key, 0) EXCEPT
                !.branch = b, !.parent = ParentOfRevision(m), !.revisionOf = m])
        /\ branches' = Append(e.known, [parent |-> e.rows[m].branch, leaf |-> n])
        /\ active' = b
        /\ leaf' = n
        /\ checkpoints' = checkpoints \cup {[kind |-> "auto", branch |-> b, message |-> n]}
        /\ asked' = asked \cup {n}
        /\ Moved

\* The inbound queue and the turns live in memory.
Restart ==
    /\ asked # {}
    /\ asked' = {}
    /\ moved' = {}
    /\ UNCHANGED <<messages, branches, active, leaf, checkpoints>>

-----------------------------------------------------------------------------
BranchesNext ==
    \/ \E key \in Keys \cup {noKey} : PostMessage(key) \/ PostFails(key)
    \/ \E q \in asked : Reply(q) \/ NoReply(q)
    \/ Notice
    \/ ListBranches
    \/ CreateCheckpoint
    \/ \E c \in checkpoints : Restore(c) \/ Checkout(c)
    \/ \E b \in Known : Activate(b)
    \/ \E m \in Rows : EditRetry(m)
    \/ Restart

BranchesSpec == BranchesInit /\ [][BranchesNext]_branchesVars

-----------------------------------------------------------------------------
(* Properties.                                                             *)

\* A message follows an older one: chains of parents end, and no history
\* shows a message twice or loses its beginning to a cycle.
HistoryIsATree == \A m \in Rows : messages[m].parent < m

\* The branches from b up to the default branch.
Lineage(b) ==
    LET up[x \in 0..Len(branches)] == IF x = 0 THEN {} ELSE {x} \cup up[branches[x].parent]
    IN  up[b]

\* Wherever a pointer leads (the thread's, a branch's, a checkpoint's), its
\* message was written on that branch or on one the branch descends from: a
\* version that has a message at its end is no history of another branch.
PointersKeepToBranch ==
    LET Fits(b, m) == m = 0 \/ messages[m].branch \in Lineage(b)
    IN  /\ active # 0 => Fits(active, leaf)
        /\ \A b \in Known : Fits(b, branches[b].leaf)
        /\ \A c \in checkpoints : Fits(c.branch, c.message)

\* An edited message replaces the original where it is visible and only there:
\* both follow the same history, and no chain of parents holds both.
EditReplaces ==
    \A e \in Rows : LET m == messages[e].revisionOf IN m # 0 =>
        /\ OnPath(e) \ {e} = OnPath(m) \ {m}
        /\ \A n \in Rows : ~({e, m} \subseteq OnPath(n))
        /\ messages[e].branch # messages[m].branch

\* A version without a message: the default branch or a manual checkpoint was
\* made before the first message, or a branch from such a checkpoint.
EmptyVersion ==
    \/ \E b \in Known : branches[b].leaf = 0
    \/ \E c \in checkpoints : c.message = 0

\* What a client is shown is one version: no message together with one that
\* revises it.  The exception is the thread that stands on an empty version:
\* its leaf is null, and list_messages_for_thread then shows the rows of all
\* branches.  No other way leads to a null leaf once there is a branch.
OneVersionShown ==
    leaf # 0 \/ ~EmptyVersion =>
        \A e \in Visible : messages[e].revisionOf \notin Visible

\* All four, and the type: a version that has a message is a history of its
\* own branch, and what is shown is one version unless an empty one is open.
VersionsAreSound ==
    /\ BranchesTypeOK
    /\ HistoryIsATree
    /\ PointersKeepToBranch
    /\ EditReplaces
    /\ OneVersionShown

\* A reply ends up below the question it answers, whatever other messages the
\* thread receives meanwhile, unless the user moved to another version.
ReplyFollowsQuestion ==
    \A a \in Rows : LET q == messages[a].answers IN
        q # 0 /\ ~messages[a].strayed => q \in OnPath(a)

\* A message that an endpoint delivers again, also after a failure or a
\* restart, is one message with at most one turn.
OneRunPerKey ==
    \A key \in Keys :
        LET Originals == {m \in Rows : messages[m].key = key /\ messages[m].revisionOf = 0}
            Replies   == {a \in Rows : messages[a].answers \in Originals}
        IN  Cardinality(Originals \cap asked) + Cardinality(Replies) <= 1

\* No operation changes what an attached message followed, or loses the
\* checkpoint that brings it back.
NothingRewritten ==
    [][/\ checkpoints \subseteq checkpoints'
       /\ \A c \in checkpoints : Path(c.message)' = Path(c.message)]_branchesVars
=============================================================================
