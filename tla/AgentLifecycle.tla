---------------------------- MODULE AgentLifecycle ----------------------------
(***************************************************************************)
(* How agents come and go (src/internal/budget/manager.go): discovery,     *)
(* spend and kill state kept in memory, the flushes that copy them to the  *)
(* agents table, RenameAgent and DeleteAgent, and the task row that points *)
(* at the agent which last drove it (tasks.go).                            *)
(*                                                                         *)
(* A critical section of BudgetManager.mu is one action and so is one      *)
(* statement of the store, which serves one connection at a time.  A       *)
(* flush takes its copies under mu and writes them afterwards; flushMu is  *)
(* held for reading from the copy to the last write, and DeleteAgent holds *)
(* it for writing.  RenameAgent takes flushMu only in the Flush it ends    *)
(* with.                                                                   *)
(*                                                                         *)
(* The content of an agent's state is a version, drawn from one counter,   *)
(* and its killed flag; spend and policy go with the version.  One task    *)
(* stands for all: only its pointer to an agent matters here.              *)
(***************************************************************************)
EXTENDS Naturals, FiniteSets

CONSTANTS
  Names,        \* agent names, after normalizeAgent
  Configured,   \* the names declared in the gate configuration
  Clients,      \* goroutines serving proxied requests
  Operators,    \* management calls that kill or enable an agent
  Viewers,      \* management calls that list agents
  Tickers,      \* the goroutine of startFlushLoop
  Renamers,     \* management calls that rename an agent
  Deleters,     \* management calls that delete an agent
  StoreFails,   \* may a statement of the store fail?
  MaxVersion    \* bound on the changes made to agents

Processes == Clients \cup Operators \cup Viewers \cup Tickers \cup Renamers \cup Deleters

ASSUME ConstantsAssumption ==
  /\ Configured \subseteq Names
  /\ StoreFails \in BOOLEAN
  /\ MaxVersion \in Nat \ {0}
  /\ \A s, t \in {Clients, Operators, Viewers, Tickers, Renamers, Deleters} :
       s # t => s \cap t = {}

None == "none"
ASSUME NoneAssumption == None \notin Names

VARIABLES
  agent,      \* agentState of each name; version 0 = the name is not tracked
  row,        \* the agents table; version 0 = no row
  lastAgent,  \* the agent the task in memory points at
  taskDirty,  \* is that newer than the last copy taken?
  taskRow,    \* the pointer in the task_budgets row
  pc,         \* where each process stands
  copies,     \* agent records a flush has taken and not written yet
  taskCopy,   \* the pointer in the task record a process has taken
  saved,      \* what RenameAgent keeps to undo itself
  charged,    \* the agent a client has charged and whose task it has not settled
  listed,     \* names a process has yet to look up
  tick,       \* history: the last version drawn
  landed,     \* history: versions that were ever written
  gone,       \* history: names deleted and since then at most looked up
  erased      \* history: the last version drawn when a name was last deleted

task == <<lastAgent, taskDirty>>
local == <<copies, taskCopy, saved, charged, listed>>
history == <<tick, landed, gone, erased>>
vars == <<agent, row, task, taskRow, pc, local, history>>

Version == 0 .. MaxVersion
Entry   == [ver : Version, killed : BOOLEAN, dirty : BOOLEAN]
Row     == [ver : Version, killed : BOOLEAN]
Copy    == [name : Names, ver : Version, killed : BOOLEAN]
Undo    == [old : Names \cup {None}, new : Names \cup {None}, was : Entry, task : BOOLEAN]
Place   == {"idle", "flush", "agents", "settled", "task", "rename", "undo", "detach", "detachTask"}
Untracked == [ver |-> 0, killed |-> FALSE, dirty |-> FALSE]
NoRow     == [ver |-> 0, killed |-> FALSE]
NoUndo    == [old |-> None, new |-> None, was |-> Untracked, task |-> FALSE]

Known == {a \in Names : agent[a].ver > 0}

(* A state created or changed under mu.                                     *)
Fresh(killed) == [ver |-> tick + 1, killed |-> killed, dirty |-> TRUE]

FlushHeld  == \E p \in Processes : pc[p] \in {"agents", "task"}
DeleteHeld == \E p \in Processes : pc[p] \in {"detach", "detachTask"}

Goto(p, place) == pc' = [pc EXCEPT ![p] = place]

(* The rows SeedConfiguredAgents writes before the manager is created.      *)
Seeded(rows) ==
  [a \in Names |-> IF a \in Configured /\ rows[a].ver = 0
                   THEN [ver |-> 1, killed |-> FALSE] ELSE rows[a]]

(* loadPersistedAgents.                                                     *)
Loaded(rows) ==
  [a \in Names |-> [ver |-> rows[a].ver, killed |-> rows[a].killed, dirty |-> FALSE]]

Init ==
  /\ row = Seeded([a \in Names |-> NoRow])
  /\ agent = Loaded(row)
  /\ lastAgent = None /\ taskDirty = FALSE /\ taskRow = None
  /\ pc = [p \in Processes |-> "idle"]
  /\ copies = [p \in Processes |-> {}]
  /\ taskCopy = [p \in Processes |-> None]
  /\ saved = [p \in Processes |-> NoUndo]
  /\ charged = [p \in Processes |-> None]
  /\ listed = [p \in Processes |-> {}]
  /\ tick = 1
  /\ landed = {0, 1}
  /\ gone = {} /\ erased = [a \in Names |-> 0]

-----------------------------------------------------------------------------
(* Requests and management calls that change one agent.  A client serves    *)
(* one request after the other.                                             *)

Free(p) == pc[p] = "idle" /\ charged[p] = None /\ listed[p] = {}

(* CheckBudgetDetailed for a name seen for the first time: stateForAgent-   *)
(* Locked creates its state, which is then flushed.                         *)
Discover(p, a) ==
  /\ Free(p) /\ a \notin Known /\ tick < MaxVersion
  /\ agent' = [agent EXCEPT ![a] = Fresh(FALSE)]
  /\ tick' = tick + 1
  /\ gone' = gone \ {a}
  /\ Goto(p, "flush")
  /\ UNCHANGED <<row, task, taskRow, local, landed, erased>>

(* RecordSpend: only a state it had to create is flushed at once.           *)
RecordSpend(p, a) ==
  /\ Free(p) /\ tick < MaxVersion
  /\ agent' = [agent EXCEPT ![a] = Fresh(@.killed)]
  /\ tick' = tick + 1
  /\ charged' = [charged EXCEPT ![p] = a]
  /\ gone' = gone \ {a}
  /\ Goto(p, IF a \in Known THEN "idle" ELSE "flush")
  /\ UNCHANGED <<row, task, taskRow, copies, taskCopy, saved, listed, landed, erased>>

(* TaskReservation.Settle, for a request that names a task: the task points *)
(* at the agent and its row is written next.                                *)
Settle(p, a) ==
  /\ pc[p] = "idle" /\ charged[p] = a
  /\ lastAgent' = a
  /\ taskDirty' = TRUE
  /\ charged' = [charged EXCEPT ![p] = None]
  /\ listed' = [listed EXCEPT ![p] = {a}]
  /\ gone' = gone \ {a}
  /\ Goto(p, "settled")
  /\ UNCHANGED <<agent, row, taskRow, copies, taskCopy, saved, tick, landed, erased>>

(* KillAgent and EnableAgent.                                               *)
SetKilled(p, a, killed) ==
  /\ pc[p] = "idle" /\ tick < MaxVersion
  /\ agent' = [agent EXCEPT ![a] = Fresh(killed)]
  /\ tick' = tick + 1
  /\ gone' = gone \ {a}
  /\ Goto(p, "flush")
  /\ UNCHANGED <<row, task, taskRow, local, landed, erased>>

(* handleAgents and handleBudgets: list the rows, then look each name up.   *)
ListAgents(p) ==
  /\ Free(p)
  /\ listed' = [listed EXCEPT ![p] = {a \in Names : row[a].ver > 0}]
  /\ UNCHANGED <<agent, row, task, taskRow, pc, copies, taskCopy, saved, charged, history>>

(* A lookup creates the state of a name it does not find, and flushes       *)
(* nothing.  A listing does it, and so does a request when it has charged   *)
(* its agent and settled its task, if it names one: PublishCostUpdate, in   *)
(* front of the cost writer, reads the spend of the agent.                  *)
GetBudget(p, a) ==
  /\ pc[p] = "idle" /\ a \in listed[p] \cup {charged[p]}
  /\ listed' = [listed EXCEPT ![p] = @ \ {a}]
  /\ charged' = [charged EXCEPT ![p] = None]
  /\ IF a \in Known
     THEN UNCHANGED <<agent, tick>>
     ELSE /\ tick < MaxVersion
          /\ agent' = [agent EXCEPT ![a] = Fresh(FALSE)]
          /\ tick' = tick + 1
  /\ UNCHANGED <<row, task, taskRow, pc, copies, taskCopy, saved, landed, gone, erased>>

-----------------------------------------------------------------------------
(* Flush and flushTaskIfNeeded.                                             *)

Tick(p) ==
  /\ pc[p] = "idle"
  /\ Goto(p, "flush")
  /\ UNCHANGED <<agent, row, task, taskRow, local, history>>

CopyOf(a) == [name |-> a, ver |-> agent[a].ver, killed |-> agent[a].killed]

(* snapshotDirtyAgentRecords.                                               *)
TakeAgents(p) ==
  /\ pc[p] = "flush" /\ ~DeleteHeld
  /\ copies' = [copies EXCEPT ![p] = {CopyOf(a) : a \in {b \in Known : agent[b].dirty}}]
  /\ agent' = [a \in Names |-> [agent[a] EXCEPT !.dirty = FALSE]]
  /\ Goto(p, "agents")
  /\ UNCHANGED <<row, task, taskRow, taskCopy, saved, charged, listed, history>>

StoreAgent(p, c) ==
  /\ pc[p] = "agents" /\ c \in copies[p]
  /\ row' = [row EXCEPT ![c.name] = [ver |-> c.ver, killed |-> c.killed]]
  /\ landed' = landed \cup {c.ver}
  /\ copies' = [copies EXCEPT ![p] = @ \ {c}]
  /\ UNCHANGED <<agent, task, taskRow, pc, taskCopy, saved, charged, listed, tick, gone, erased>>

(* The first error ends the flush and drops the other copies.               *)
FailStoreAgent(p) ==
  /\ pc[p] = "agents" /\ copies[p] # {} /\ StoreFails
  /\ copies' = [copies EXCEPT ![p] = {}]
  /\ Goto(p, "idle")
  /\ UNCHANGED <<agent, row, task, taskRow, taskCopy, saved, charged, listed, history>>

(* takeDirtyTaskRecord and snapshotDirtyTaskRecords: leave with a copy of   *)
(* the task, or finish when it is not dirty.                                *)
TakeTaskThen(p, writing) ==
  /\ taskCopy' = [taskCopy EXCEPT ![p] = IF taskDirty THEN lastAgent ELSE None]
  /\ taskDirty' = FALSE
  /\ Goto(p, IF taskDirty THEN writing ELSE "idle")
  /\ UNCHANGED <<agent, row, lastAgent, taskRow, copies, saved, charged, listed, history>>

TakeTask(p) ==
  \/ pc[p] = "agents" /\ copies[p] = {} /\ TakeTaskThen(p, "task")
  \/ pc[p] = "settled" /\ ~DeleteHeld /\ TakeTaskThen(p, "task")
  \/ pc[p] = "detach" /\ TakeTaskThen(p, "detachTask")

StoreTask(p) ==
  /\ pc[p] \in {"task", "detachTask"}
  /\ taskRow' = taskCopy[p]
  /\ taskCopy' = [taskCopy EXCEPT ![p] = None]
  /\ Goto(p, "idle")
  /\ UNCHANGED <<agent, row, task, copies, saved, charged, listed, history>>

FailStoreTask(p) ==
  /\ pc[p] \in {"task", "detachTask"} /\ StoreFails
  /\ taskDirty' = TRUE
  /\ taskCopy' = [taskCopy EXCEPT ![p] = None]
  /\ Goto(p, "idle")
  /\ UNCHANGED <<agent, row, lastAgent, taskRow, copies, saved, charged, listed, history>>

-----------------------------------------------------------------------------
(* RenameAgent.                                                             *)

(* Mutant: the moved state keeps neither its flag nor a fresh one.          *)
MoveClean(p, a, b) ==
  LET was == IF a \in Known THEN agent[a] ELSE Fresh(FALSE)
  IN /\ pc[p] = "idle" /\ a # b /\ b \notin Known
     /\ tick < MaxVersion
     /\ agent' = [agent EXCEPT ![a] = Untracked, ![b] = [was EXCEPT !.dirty = FALSE]]
     /\ tick' = IF a \in Known THEN tick ELSE tick + 1
     /\ saved' = [saved EXCEPT ![p] = [old |-> a, new |-> b, was |-> was, task |-> lastAgent = a]]
     /\ lastAgent' = IF lastAgent = a THEN b ELSE lastAgent
     /\ taskDirty' = (taskDirty \/ lastAgent = a)
     /\ gone' = gone \ {b}
     /\ erased' = [erased EXCEPT ![b] = 0]
     /\ Goto(p, "rename")
     /\ UNCHANGED <<row, taskRow, copies, taskCopy, charged, listed, landed>>

(* The memory half: the state moves to the new name; a name that is not     *)
(* tracked is created first.                                                *)
MoveAgent(p, a, b) ==
  LET was == IF a \in Known THEN agent[a] ELSE Fresh(FALSE)
  IN /\ pc[p] = "idle" /\ a # b /\ b \notin Known
     /\ tick < MaxVersion
     /\ agent' = [agent EXCEPT ![a] = Untracked, ![b] = [was EXCEPT !.dirty = TRUE]]
     /\ tick' = IF a \in Known THEN tick ELSE tick + 1
     /\ saved' = [saved EXCEPT ![p] = [old |-> a, new |-> b, was |-> was, task |-> lastAgent = a]]
     /\ lastAgent' = IF lastAgent = a THEN b ELSE lastAgent
     /\ taskDirty' = (taskDirty \/ lastAgent = a)
     /\ gone' = gone \ {b}
     /\ erased' = [erased EXCEPT ![b] = 0]
     /\ Goto(p, "rename")
     /\ UNCHANGED <<row, taskRow, copies, taskCopy, charged, listed, landed>>

(* SQLiteStore.RenameAgent moves the row, and Flush follows.                *)
MoveRow(p) ==
  LET old == saved[p].old
      new == saved[p].new
  IN /\ pc[p] = "rename"
     /\ row[old].ver > 0 /\ row[new].ver = 0
     /\ row' = [row EXCEPT ![old] = NoRow, ![new] = row[old]]
     /\ saved' = [saved EXCEPT ![p] = NoUndo]
     /\ Goto(p, "flush")
     /\ UNCHANGED <<agent, task, taskRow, copies, taskCopy, charged, listed, history>>

(* It refuses: no row of the old name (ErrAgentNotFound), a row of the new  *)
(* name (ErrAgentExists), or a failing statement.                           *)
RefuseMove(p) ==
  /\ pc[p] = "rename"
  /\ row[saved[p].old].ver = 0 \/ row[saved[p].new].ver > 0 \/ StoreFails
  /\ Goto(p, "undo")
  /\ UNCHANGED <<agent, row, task, taskRow, local, history>>

(* The rollback of RenameAgent.  The policy, state and task pointers saved  *)
(* at the start replace whatever is there now.                              *)
UndoMove(p) ==
  LET u == saved[p]
  IN /\ pc[p] = "undo"
     /\ agent' = [agent EXCEPT ![u.new] = Untracked, ![u.old] = u.was]
     /\ lastAgent' = IF u.task THEN u.old ELSE lastAgent
     /\ saved' = [saved EXCEPT ![p] = NoUndo]
     /\ Goto(p, "idle")
     /\ UNCHANGED <<row, taskDirty, taskRow, copies, taskCopy, charged, listed, history>>

-----------------------------------------------------------------------------
(* DeleteAgent.                                                             *)

(* Mutant: the delete does not wait for the flushes under way.              *)
DeleteAmidFlush(p, a) ==
  /\ pc[p] = "idle" /\ a \notin Configured
  /\ a \in Known \/ row[a].ver > 0
  /\ agent' = [agent EXCEPT ![a] = Untracked]
  /\ row' = [row EXCEPT ![a] = NoRow]
  /\ taskRow' = IF taskRow = a /\ row[a].ver > 0 THEN None ELSE taskRow
  /\ lastAgent' = IF lastAgent = a THEN None ELSE lastAgent
  /\ taskDirty' = (taskDirty \/ lastAgent = a)
  /\ gone' = gone \cup {a}
  /\ erased' = [erased EXCEPT ![a] = tick]
  /\ Goto(p, "detach")
  /\ UNCHANGED <<local, tick, landed>>

(* Under flushMu and mu: the rows and the state go together.  A name that   *)
(* was never flushed has no row, and then the store transaction does not    *)
(* touch task_budgets.  The guards are ErrAgentProtected, ErrAgentNotFound  *)
(* and flushMu; a failing statement leaves everything as it is.             *)
DeleteAgent(p, a) ==
  /\ pc[p] = "idle" /\ ~FlushHeld /\ ~DeleteHeld
  /\ a \notin Configured
  /\ a \in Known \/ row[a].ver > 0
  /\ agent' = [agent EXCEPT ![a] = Untracked]
  /\ row' = [row EXCEPT ![a] = NoRow]
  /\ taskRow' = IF taskRow = a /\ row[a].ver > 0 THEN None ELSE taskRow
  /\ lastAgent' = IF lastAgent = a THEN None ELSE lastAgent
  /\ taskDirty' = (taskDirty \/ lastAgent = a)
  /\ gone' = gone \cup {a}
  /\ erased' = [erased EXCEPT ![a] = tick]
  /\ Goto(p, "detach")
  /\ UNCHANGED <<local, tick, landed>>

-----------------------------------------------------------------------------

(* The process stops at any point; the store is all that is left.           *)
Restart ==
  /\ row' = Seeded(row)
  /\ agent' = Loaded(row')
  /\ lastAgent' = taskRow /\ taskDirty' = FALSE
  /\ pc' = [p \in Processes |-> "idle"]
  /\ copies' = [p \in Processes |-> {}]
  /\ taskCopy' = [p \in Processes |-> None]
  /\ saved' = [p \in Processes |-> NoUndo]
  /\ charged' = [p \in Processes |-> None]
  /\ listed' = [p \in Processes |-> {}]
  /\ gone' = {}
  /\ UNCHANGED <<taskRow, tick, landed, erased>>

Next ==
  \/ \E p \in Clients, a \in Names :
       Discover(p, a) \/ RecordSpend(p, a) \/ Settle(p, a) \/ GetBudget(p, a)
  \/ \E p \in Operators, a \in Names, k \in BOOLEAN : SetKilled(p, a, k)
  \/ \E p \in Viewers : ListAgents(p) \/ \E a \in Names : GetBudget(p, a)
  \/ \E p \in Tickers : Tick(p)
  \/ \E p \in Renamers : \/ \E a, b \in Names : MoveAgent(p, a, b)
                         \/ MoveRow(p) \/ RefuseMove(p) \/ UndoMove(p)
  \/ \E p \in Deleters, a \in Names : DeleteAgent(p, a)
  \/ \E p \in Processes : \/ TakeAgents(p) \/ \E c \in copies[p] : StoreAgent(p, c)
                          \/ FailStoreAgent(p)
                          \/ TakeTask(p) \/ StoreTask(p) \/ FailStoreTask(p)
  \/ Restart

Spec == Init /\ [][Next]_vars

-----------------------------------------------------------------------------

(* Types; a process is only at the places its own calls lead to, and a name *)
(* that is not tracked is neither killed nor dirty.                         *)
TypeOK ==
  /\ agent \in [Names -> Entry]
  /\ row \in [Names -> Row]
  /\ lastAgent \in Names \cup {None}
  /\ taskDirty \in BOOLEAN
  /\ taskRow \in Names \cup {None}
  /\ pc \in [Processes -> Place]
  /\ copies \in [Processes -> SUBSET Copy]
  /\ taskCopy \in [Processes -> Names \cup {None}]
  /\ saved \in [Processes -> Undo]
  /\ charged \in [Processes -> Names \cup {None}]
  /\ listed \in [Processes -> SUBSET Names]
  /\ tick \in Version
  /\ landed \subseteq Version
  /\ gone \subseteq Names
  /\ erased \in [Names -> Version]
  /\ \A p \in Processes : pc[p] \in {"rename", "undo"} =>
       p \in Renamers /\ saved[p].old \in Names /\ saved[p].new \in Names

Copied(a) == \E p \in Processes : \E c \in copies[p] : c.name = a

(* What DeleteAgent promises (manager.go:181-187, 1147-1158, server.go:     *)
(* 1009-1013): until someone uses the name again nothing is left of it, in  *)
(* memory, in the agents table, or in a write still under way, be it of the *)
(* agent or of a task that points at it.                                    *)
DeletedLeavesNothing ==
  \A a \in gone :
    /\ a \notin Known /\ row[a].ver = 0 /\ ~Copied(a)
    /\ lastAgent # a /\ \A p \in Processes : taskCopy[p] # a

(* A version of a deleted agent that was drawn after the delete.            *)
Newer(a, v) == v = 0 \/ v > erased[a]

(* What DeleteAgent does achieve (manager.go:181-187): nothing that an      *)
(* agent was before its delete comes back, from memory, a row or a write    *)
(* under way; and as long as the name is only looked up, what is found      *)
(* under it is not killed and no task points at it.                         *)
DeletedStateStaysGone ==
  /\ \A a \in Names : Newer(a, agent[a].ver) /\ Newer(a, row[a].ver)
  /\ \A p \in Processes : \A c \in copies[p] :
       Newer(c.name, c.ver) /\ (c.name \in gone => ~c.killed)
  /\ \A a \in gone :
       /\ ~agent[a].killed /\ ~row[a].killed
       /\ lastAgent # a /\ \A p \in Processes : taskCopy[p] # a

(* What Flush promises (manager.go:1062) as long as the store works: the    *)
(* latest state of every tracked agent is dirty, in a copy under way, or    *)
(* was written, through renames, deletions, rollbacks and restarts.  The    *)
(* state after a rollback is the one the rename saved; what it discards     *)
(* (manager.go:1126-1131) is no longer anyone's latest state.               *)
ChangesLand ==
  /\ TypeOK
  /\ \A a \in Known :
       \/ agent[a].dirty
       \/ \E p \in Processes : \E c \in copies[p] : c.ver = agent[a].ver
       \/ agent[a].ver \in landed

(* "persistent kill state for manual and runaway kills" (README.md:167):    *)
(* once no write of an agent is due, its row says whether it is killed.     *)
KillsPersist ==
  \A a \in Known : ~agent[a].dirty /\ ~Copied(a) => row[a].killed = agent[a].killed

(* RenameAgent "changes the runtime and persisted name" (manager.go:1080):  *)
(* between renames a restart finds no agent the process did not know.       *)
RowsAreTracked ==
  (\A p \in Processes : pc[p] \notin {"rename", "undo"}) =>
    \A a \in Names : row[a].ver > 0 => a \in Known

=============================================================================
