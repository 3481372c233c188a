------------------------- MODULE AgentLifecycleProofs -------------------------
(***************************************************************************)
(* Theorems about AgentLifecycle, for any number of agents, requests and   *)
(* management calls: what a change, a rename or a restart leaves to be     *)
(* written, and what a delete leaves behind.                               *)
(***************************************************************************)
EXTENDS AgentLifecycle, TLAPS

(* Lemmas about the records.                                                *)

LEMMA Records ==
  /\ Untracked \in Entry /\ NoRow \in Row /\ NoUndo \in Undo
  /\ Untracked.ver = 0 /\ NoRow.ver = 0
  /\ \A v \in Version, k \in BOOLEAN : [ver |-> v, killed |-> k] \in Row
  /\ \A v \in Version, k, d \in BOOLEAN : [ver |-> v, killed |-> k, dirty |-> d] \in Entry
  /\ \A e \in Entry, d \in BOOLEAN : [e EXCEPT !.dirty = d] \in Entry
BY ConstantsAssumption DEF Untracked, NoRow, NoUndo, Entry, Row, Undo, Version

LEMMA FreshIsTyped ==
  ASSUME TypeOK, tick < MaxVersion, NEW k \in BOOLEAN
  PROVE  /\ Fresh(k) \in Entry /\ tick + 1 \in Version
         /\ Fresh(k).ver = tick + 1 /\ Fresh(k).dirty = TRUE
BY ConstantsAssumption DEF TypeOK, Fresh, Entry, Version

LEMMA RowsAreTyped ==
  ASSUME NEW rows \in [Names -> Row]
  PROVE  /\ Seeded(rows) \in [Names -> Row] /\ Loaded(rows) \in [Names -> Entry]
         /\ \A a \in Names : Loaded(rows)[a].ver = rows[a].ver /\ Loaded(rows)[a].dirty = FALSE
         /\ \A a \in Names : Seeded(rows)[a] = rows[a] \/ Seeded(rows)[a].ver = 1
<1>1. [ver |-> 1, killed |-> FALSE] \in Row
  <2>1. 1 \in Version
    BY ConstantsAssumption DEF Version
  <2> QED BY <2>1, Records
<1>2. \A a \in Names : rows[a].ver \in Version /\ rows[a].killed \in BOOLEAN
  BY DEF Row
<1>3. Seeded(rows) \in [Names -> Row] /\ \A a \in Names : Seeded(rows)[a] = rows[a] \/ Seeded(rows)[a].ver = 1
  BY <1>1 DEF Seeded
<1>4. \A a \in Names : [ver |-> rows[a].ver, killed |-> rows[a].killed, dirty |-> FALSE] \in Entry
  BY <1>2, Records
<1> QED
  BY <1>3, <1>4 DEF Loaded

LEMMA CopyIsTyped ==
  ASSUME TypeOK, NEW a \in Names
  PROVE  CopyOf(a) \in Copy
<1>1. agent[a] \in Entry
  BY DEF TypeOK
<1> QED
  BY <1>1 DEF Entry, Copy, CopyOf

(* A process that goes anywhere but into a rename.                          *)
LEMMA GotoIsTyped ==
  ASSUME TypeOK, NEW p \in Processes, NEW place \in Place \ {"rename", "undo"}, Goto(p, place),
         \A q \in Processes : q # p => saved'[q] = saved[q]
  PROVE  /\ pc' \in [Processes -> Place]
         /\ \A q \in Processes : pc'[q] \in {"rename", "undo"} =>
              q \in Renamers /\ saved'[q].old \in Names /\ saved'[q].new \in Names
BY DEF TypeOK, Goto

-----------------------------------------------------------------------------
(* Types.                                                                   *)

LEMMA TypeInit == Init => TypeOK
<1> SUFFICES ASSUME Init PROVE TypeOK
  OBVIOUS
<1>1. row \in [Names -> Row] /\ agent \in [Names -> Entry]
  <2>1. [a \in Names |-> NoRow] \in [Names -> Row]
    BY Records
  <2> QED BY <2>1, RowsAreTyped DEF Init
<1>2. tick \in Version /\ landed \subseteq Version /\ erased \in [Names -> Version]
  BY ConstantsAssumption DEF Init, Version
<1> QED
  BY <1>1, <1>2, Records DEF Init, TypeOK, Place

LEMMA RequestKeepsTypes ==
  ASSUME TypeOK, NEW p \in Processes, NEW a \in Names,
         \/ Discover(p, a) \/ RecordSpend(p, a) \/ Settle(p, a)
         \/ (\E k \in BOOLEAN : SetKilled(p, a, k)) \/ Tick(p)
         \/ ListAgents(p) \/ GetBudget(p, a)
  PROVE  TypeOK'
<1>1. CASE Discover(p, a)
  <2>1. agent' \in [Names -> Entry] /\ tick' \in Version /\ gone' \subseteq Names
    BY <1>1, FreshIsTyped DEF Discover, TypeOK
  <2> QED BY <1>1, <2>1, GotoIsTyped DEF Discover, TypeOK, task, local, Place
<1>2. CASE RecordSpend(p, a)
  <2>1. agent[a].killed \in BOOLEAN
    BY DEF TypeOK, Entry
  <2>2. agent' \in [Names -> Entry] /\ tick' \in Version /\ gone' \subseteq Names
    BY <1>2, <2>1, FreshIsTyped DEF RecordSpend, TypeOK
  <2> QED BY <1>2, <2>2, GotoIsTyped DEF RecordSpend, TypeOK, task, Place
<1>3. CASE Settle(p, a)
  BY <1>3, GotoIsTyped DEF Settle, TypeOK, Place
<1>4. ASSUME NEW k \in BOOLEAN, SetKilled(p, a, k) PROVE TypeOK'
  <2>1. agent' \in [Names -> Entry] /\ tick' \in Version /\ gone' \subseteq Names
    BY <1>4, FreshIsTyped DEF SetKilled, TypeOK
  <2> QED BY <1>4, <2>1, GotoIsTyped DEF SetKilled, TypeOK, task, local, Place
<1>5. CASE Tick(p)
  BY <1>5, GotoIsTyped DEF Tick, TypeOK, task, local, history, Place
<1>6. CASE ListAgents(p)
  BY <1>6 DEF ListAgents, TypeOK, task, history
<1>7. CASE GetBudget(p, a)
  <2>1. agent' \in [Names -> Entry] /\ tick' \in Version
    BY <1>7, FreshIsTyped DEF GetBudget, TypeOK
  <2> QED BY <1>7, <2>1 DEF GetBudget, TypeOK, task
<1> QED
  BY <1>1, <1>2, <1>3, <1>4, <1>5, <1>6, <1>7

LEMMA FlushKeepsTypes ==
  ASSUME TypeOK, NEW p \in Processes,
         \/ TakeAgents(p) \/ (\E c \in copies[p] : StoreAgent(p, c)) \/ FailStoreAgent(p)
         \/ TakeTask(p) \/ StoreTask(p) \/ FailStoreTask(p)
  PROVE  TypeOK'
<1>1. CASE TakeAgents(p)
  <2>1. agent' \in [Names -> Entry]
    BY <1>1, Records DEF TakeAgents, TypeOK
  <2>2. copies' \in [Processes -> SUBSET Copy]
    BY <1>1, CopyIsTyped DEF TakeAgents, TypeOK, Known
  <2> QED BY <1>1, <2>1, <2>2, GotoIsTyped DEF TakeAgents, TypeOK, task, history, Place
<1>2. ASSUME NEW c \in copies[p], StoreAgent(p, c) PROVE TypeOK'
  <2>1. c.name \in Names /\ c.ver \in Version /\ c.killed \in BOOLEAN
    BY DEF TypeOK, Copy
  <2>2. row' \in [Names -> Row]
    BY <1>2, <2>1, Records DEF StoreAgent, TypeOK
  <2>3. copies' \in [Processes -> SUBSET Copy] /\ landed' \subseteq Version
    BY <1>2, <2>1 DEF StoreAgent, TypeOK
  <2> QED BY <1>2, <2>2, <2>3 DEF StoreAgent, TypeOK, task
<1>3. CASE FailStoreAgent(p)
  BY <1>3, GotoIsTyped DEF FailStoreAgent, TypeOK, task, history, Place
<1>4. ASSUME NEW writing \in {"task", "detachTask"}, TakeTaskThen(p, writing) PROVE TypeOK'
  BY <1>4, GotoIsTyped DEF TakeTaskThen, TypeOK, history, Place
<1>5. CASE TakeTask(p)
  BY <1>4, <1>5 DEF TakeTask
<1>6. CASE StoreTask(p)
  BY <1>6, GotoIsTyped DEF StoreTask, TypeOK, task, history, Place
<1>7. CASE FailStoreTask(p)
  BY <1>7, GotoIsTyped DEF FailStoreTask, TypeOK, history, Place
<1> QED
  BY <1>1, <1>2, <1>3, <1>5, <1>6, <1>7

LEMMA RenameKeepsTypes ==
  ASSUME TypeOK, NEW p \in Renamers,
         \/ (\E a, b \in Names : MoveAgent(p, a, b)) \/ MoveRow(p) \/ RefuseMove(p) \/ UndoMove(p)
  PROVE  TypeOK'
<1>1. p \in Processes
  BY DEF Processes
<1>2. ASSUME NEW a \in Names, NEW b \in Names, MoveAgent(p, a, b) PROVE TypeOK'
  <2> DEFINE was == IF a \in Known THEN agent[a] ELSE Fresh(FALSE)
  <2>1. was \in Entry /\ [was EXCEPT !.dirty = TRUE] \in Entry /\ tick' \in Version
    BY <1>2, FreshIsTyped, Records DEF MoveAgent, TypeOK
  <2>2. agent' \in [Names -> Entry]
    <3>1. agent' = [agent EXCEPT ![a] = Untracked, ![b] = [was EXCEPT !.dirty = TRUE]]
      BY <1>2 DEF MoveAgent
    <3> QED BY <2>1, <3>1, Records DEF TypeOK
  <2>3. saved'[p].old \in Names /\ saved'[p].new \in Names /\ saved' \in [Processes -> Undo]
    <3>1. saved' = [saved EXCEPT ![p] = [old |-> a, new |-> b, was |-> was, task |-> lastAgent = a]]
      BY <1>2 DEF MoveAgent
    <3>2. [old |-> a, new |-> b, was |-> was, task |-> lastAgent = a] \in Undo
      BY <2>1 DEF Undo
    <3> QED BY <1>1, <3>1, <3>2 DEF TypeOK
  <2>4. \A q \in Processes : q # p => saved'[q] = saved[q]
    BY <1>2 DEF MoveAgent, TypeOK
  <2>5. pc' = [pc EXCEPT ![p] = "rename"]
    BY <1>2 DEF MoveAgent, Goto
  <2>6. erased' \in [Names -> Version]
    BY <1>2, ConstantsAssumption DEF MoveAgent, TypeOK, Version
  <2> QED BY <1>1, <1>2, <2>1, <2>2, <2>3, <2>4, <2>5, <2>6 DEF MoveAgent, TypeOK, Place
<1>3. CASE MoveRow(p)
  <2>1. row' \in [Names -> Row] /\ saved' \in [Processes -> Undo] /\ \A q \in Processes : q # p => saved'[q] = saved[q]
    BY <1>1, <1>3, Records DEF MoveRow, TypeOK
  <2> QED BY <1>1, <1>3, <2>1, GotoIsTyped DEF MoveRow, TypeOK, task, history, Place
<1>4. CASE RefuseMove(p)
  BY <1>1, <1>4 DEF RefuseMove, TypeOK, task, local, history, Place, Goto
<1>5. CASE UndoMove(p)
  <2>1. saved[p].old \in Names /\ saved[p].new \in Names /\ saved[p].was \in Entry
    BY <1>1, <1>5 DEF UndoMove, TypeOK, Undo
  <2>2. agent' \in [Names -> Entry]
    BY <1>5, <2>1, Records DEF UndoMove, TypeOK
  <2>3. saved' \in [Processes -> Undo] /\ \A q \in Processes : q # p => saved'[q] = saved[q]
    BY <1>1, <1>5, Records DEF UndoMove, TypeOK
  <2> QED BY <1>1, <1>5, <2>1, <2>2, <2>3, GotoIsTyped DEF UndoMove, TypeOK, history, Place
<1> QED
  BY <1>2, <1>3, <1>4, <1>5

LEMMA DeleteKeepsTypes ==
  ASSUME TypeOK, NEW p \in Processes, NEW a \in Names, DeleteAgent(p, a)
  PROVE  TypeOK'
<1>1. agent' \in [Names -> Entry] /\ row' \in [Names -> Row]
  BY Records DEF DeleteAgent, TypeOK
<1> QED
  BY <1>1, GotoIsTyped DEF DeleteAgent, TypeOK, local, Place

LEMMA RestartKeepsTypes ==
  ASSUME TypeOK, Restart
  PROVE  TypeOK'
<1>1. row' \in [Names -> Row] /\ agent' \in [Names -> Entry]
  BY RowsAreTyped DEF Restart, TypeOK
<1> QED
  BY <1>1, Records DEF Restart, TypeOK, Place

(* Who takes the steps.                                                     *)
LEMMA Actors ==
  Clients \cup Operators \cup Viewers \cup Tickers \cup Renamers \cup Deleters = Processes
BY DEF Processes

LEMMA TypeStep ==
  ASSUME TypeOK, [Next]_vars
  PROVE  TypeOK'
<1>1. CASE UNCHANGED vars
  BY <1>1 DEF vars, TypeOK, task, local, history
<1>2. CASE \E p \in Clients, a \in Names :
             Discover(p, a) \/ RecordSpend(p, a) \/ Settle(p, a) \/ GetBudget(p, a)
  BY <1>2, Actors, RequestKeepsTypes
<1>3. CASE \E p \in Operators, a \in Names, k \in BOOLEAN : SetKilled(p, a, k)
  BY <1>3, Actors, RequestKeepsTypes
<1>4. CASE \E p \in Viewers : ListAgents(p) \/ \E a \in Names : GetBudget(p, a)
  BY <1>4, Actors, RequestKeepsTypes DEF ListAgents, TypeOK, task, history
<1>5. CASE \E p \in Tickers : Tick(p)
  BY <1>5, Actors, GotoIsTyped DEF Tick, TypeOK, task, local, history, Place
<1>6. CASE \E p \in Renamers : \/ \E a, b \in Names : MoveAgent(p, a, b)
                               \/ MoveRow(p) \/ RefuseMove(p) \/ UndoMove(p)
  BY <1>6, RenameKeepsTypes
<1>7. CASE \E p \in Deleters, a \in Names : DeleteAgent(p, a)
  BY <1>7, Actors, DeleteKeepsTypes
<1>8. CASE \E p \in Processes : \/ TakeAgents(p) \/ \E c \in copies[p] : StoreAgent(p, c)
                                \/ FailStoreAgent(p)
                                \/ TakeTask(p) \/ StoreTask(p) \/ FailStoreTask(p)
  BY <1>8, FlushKeepsTypes
<1>9. CASE Restart
  BY <1>9, RestartKeepsTypes
<1> QED
  BY <1>1, <1>2, <1>3, <1>4, <1>5, <1>6, <1>7, <1>8, <1>9 DEF Next

LEMMA TypesAlways == Spec => []TypeOK
BY TypeInit, TypeStep, PTL DEF Spec

-----------------------------------------------------------------------------
(* What a delete leaves behind.                                             *)

(* A process holds copies only while it holds flushMu (flushing, or as the  *)
(* delete itself).                                                          *)
HeldCopies ==
  /\ \A p \in Processes : copies[p] # {} => pc[p] = "agents"
  /\ \A p \in Processes : taskCopy[p] # None => pc[p] \in {"task", "detachTask"}

DeleteInv ==
  /\ TypeOK /\ HeldCopies /\ DeletedStateStaysGone
  /\ \A a \in Names : erased[a] <= tick /\ (a \in Configured => erased[a] = 0)

LEMMA HeldInit == Init => HeldCopies
BY DEF Init, HeldCopies

LEMMA HeldStep ==
  ASSUME TypeOK, HeldCopies, [Next]_vars
  PROVE  HeldCopies'
<1> USE DEF HeldCopies, TypeOK
<1>1. CASE UNCHANGED vars
  BY <1>1 DEF vars, local
<1>2. ASSUME NEW p \in Processes, UNCHANGED <<copies, taskCopy>>, NEW place, Goto(p, place),
             pc[p] \notin {"agents", "task", "detachTask"}
      PROVE  HeldCopies'
  BY <1>2 DEF Goto
<1>3. CASE \E p \in Clients, a \in Names :
             Discover(p, a) \/ RecordSpend(p, a) \/ Settle(p, a) \/ GetBudget(p, a)
  <2>1. PICK p \in Clients, a \in Names :
               Discover(p, a) \/ RecordSpend(p, a) \/ Settle(p, a) \/ GetBudget(p, a)
    BY <1>3
  <2>2. CASE GetBudget(p, a)
    BY <2>2 DEF GetBudget
  <2>3. CASE Discover(p, a) \/ RecordSpend(p, a) \/ Settle(p, a)
    BY <1>2, <2>3, Actors DEF Discover, RecordSpend, Settle, Free, local
  <2> QED BY <2>1, <2>2, <2>3
<1>4. CASE \E p \in Operators, a \in Names, k \in BOOLEAN : SetKilled(p, a, k)
  BY <1>2, <1>4, Actors DEF SetKilled, local
<1>5. CASE \E p \in Viewers : ListAgents(p) \/ \E a \in Names : GetBudget(p, a)
  BY <1>5 DEF ListAgents, GetBudget
<1>6. CASE \E p \in Tickers : Tick(p)
  BY <1>2, <1>6, Actors DEF Tick, local
<1>7. CASE \E p \in Renamers : \/ \E a, b \in Names : MoveAgent(p, a, b)
                               \/ MoveRow(p) \/ RefuseMove(p) \/ UndoMove(p)
  <2>1. PICK p \in Renamers : \/ \E a, b \in Names : MoveAgent(p, a, b)
                              \/ MoveRow(p) \/ RefuseMove(p) \/ UndoMove(p)
    BY <1>7
  <2>2. /\ pc[p] \notin {"agents", "task", "detachTask"} /\ UNCHANGED <<copies, taskCopy>>
        /\ \A q \in Processes : q # p => pc'[q] = pc[q]
    BY <2>1, Actors DEF MoveAgent, MoveRow, RefuseMove, UndoMove, Goto, local
  <2> QED BY <2>2
<1>8. CASE \E p \in Deleters, a \in Names : DeleteAgent(p, a)
  BY <1>2, <1>8, Actors DEF DeleteAgent, local
<1>9. ASSUME NEW p \in Processes,
             \/ TakeAgents(p) \/ \E c \in copies[p] : StoreAgent(p, c)
             \/ FailStoreAgent(p)
             \/ TakeTask(p) \/ StoreTask(p) \/ FailStoreTask(p)
      PROVE  HeldCopies'
  <2>1. CASE TakeAgents(p)
    BY <2>1 DEF TakeAgents, Goto
  <2>2. CASE \E c \in copies[p] : StoreAgent(p, c)
    BY <2>2 DEF StoreAgent
  <2>3. CASE FailStoreAgent(p)
    BY <2>3 DEF FailStoreAgent, Goto
  <2>4. ASSUME NEW writing \in {"task", "detachTask"}, TakeTaskThen(p, writing), copies[p] = {}
        PROVE  HeldCopies'
    BY <2>4 DEF TakeTaskThen, Goto
  <2>5. CASE TakeTask(p)
    BY <2>4, <2>5 DEF TakeTask
  <2>6. CASE StoreTask(p) \/ FailStoreTask(p)
    BY <2>6 DEF StoreTask, FailStoreTask, Goto
  <2> QED BY <1>9, <2>1, <2>2, <2>3, <2>5, <2>6
<1>10. CASE Restart
  BY <1>10 DEF Restart
<1> QED
  BY <1>1, <1>3, <1>4, <1>5, <1>6, <1>7, <1>8, <1>9, <1>10 DEF Next

(* A step that leaves what is known of deleted names as it is.              *)
LEMMA GoneStays ==
  ASSUME DeleteInv, TypeOK', gone' \subseteq gone, UNCHANGED erased,
         \A a \in Names : agent'[a].ver = agent[a].ver \/ agent'[a].ver > tick,
         \A a \in Names : row'[a].ver = row[a].ver,
         \A a \in gone' : (agent'[a].killed => agent[a].killed) /\ (row'[a].killed => row[a].killed),
         \A p \in Processes : copies'[p] \subseteq copies[p],
         \A a \in gone' : lastAgent' # a \/ lastAgent' = lastAgent,
         \A p \in Processes : taskCopy'[p] \in {taskCopy[p], lastAgent, None}
  PROVE  DeletedStateStaysGone'
<1> USE DEF DeleteInv
<1>1. \A a \in Names : /\ erased[a] \in Nat /\ tick \in Nat /\ erased[a] <= tick
                       /\ agent'[a].ver \in Nat
  BY DEF TypeOK, Version, Entry
<1>2. \A a \in Names : Newer(a, agent[a].ver)' /\ Newer(a, row[a].ver)'
  <2> SUFFICES ASSUME NEW a \in Names PROVE Newer(a, agent[a].ver)' /\ Newer(a, row[a].ver)'
    OBVIOUS
  <2>1. agent'[a].ver > tick => agent'[a].ver > erased[a] \/ agent'[a].ver = agent[a].ver
    BY <1>1
  <2> QED BY <2>1 DEF Newer, DeletedStateStaysGone
<1>3. \A p \in Processes : \A c \in copies'[p] : Newer(c.name, c.ver)' /\ (c.name \in gone' => ~c.killed)
  BY DEF Newer, DeletedStateStaysGone
<1>4. \A a \in gone' : ~agent'[a].killed /\ ~row'[a].killed
  BY DEF DeletedStateStaysGone
<1>5. \A a \in gone' : lastAgent' # a /\ \A p \in Processes : taskCopy'[p] # a
  BY NoneAssumption DEF DeletedStateStaysGone, TypeOK
<1> QED
  BY <1>2, <1>3, <1>4, <1>5 DEF DeletedStateStaysGone

LEMMA DeleteStep ==
  ASSUME Renamers = {}, DeleteInv, TypeOK', [Next]_vars
  PROVE  DeletedStateStaysGone'
<1> USE DEF DeleteInv
<1>0. /\ tick \in Nat /\ tick + 1 > tick /\ gone \subseteq Names
      /\ \A a \in Names : agent[a].killed \in BOOLEAN
  BY DEF TypeOK, Version, Entry
<1>1. CASE UNCHANGED vars
  BY <1>0, <1>1, GoneStays DEF vars, task, local, history
<1>2. ASSUME NEW p \in Processes, NEW a \in Names, NEW k \in BOOLEAN,
             Discover(p, a) \/ RecordSpend(p, a) \/ SetKilled(p, a, k)
      PROVE  DeletedStateStaysGone'
  <2>1. /\ gone' = gone \ {a} /\ UNCHANGED <<row, task, copies, taskCopy, erased>>
        /\ tick < MaxVersion
        /\ \A b \in Names : b # a => agent'[b] = agent[b]
    BY <1>2 DEF Discover, RecordSpend, SetKilled, TypeOK, local, Free
  <2>2. \E j \in BOOLEAN : agent' = [agent EXCEPT ![a] = Fresh(j)]
    <3>1. agent[a].killed \in BOOLEAN
      BY <1>0
    <3> QED BY <1>2, <3>1 DEF Discover, RecordSpend, SetKilled, TypeOK
  <2>3. agent'[a].ver = tick + 1
    BY <2>1, <2>2, FreshIsTyped DEF TypeOK
  <2> QED BY <1>0, <2>1, <2>3, GoneStays DEF task
<1>3. ASSUME NEW p \in Clients, NEW a \in Names, Settle(p, a) PROVE DeletedStateStaysGone'
  BY <1>0, <1>3, GoneStays DEF Settle
<1>4. ASSUME NEW p \in Processes, NEW a \in Names, GetBudget(p, a) PROVE DeletedStateStaysGone'
  <2>1. CASE a \in Known
    BY <1>0, <1>4, <2>1, GoneStays DEF GetBudget, task
  <2>2. CASE a \notin Known
    <3>1. /\ agent' = [agent EXCEPT ![a] = Fresh(FALSE)] /\ tick < MaxVersion
          /\ UNCHANGED <<row, task, copies, taskCopy, gone, erased>>
      BY <1>4, <2>2 DEF GetBudget
    <3>2. agent'[a].ver = tick + 1 /\ agent'[a].killed = FALSE
      BY <3>1, FreshIsTyped DEF TypeOK, Fresh
    <3>3. \A b \in Names : b # a => agent'[b] = agent[b]
      BY <3>1 DEF TypeOK
    <3> QED BY <1>0, <3>1, <3>2, <3>3, GoneStays DEF task
  <2> QED BY <2>1, <2>2
<1>5. CASE \E p \in Viewers : ListAgents(p)
  BY <1>0, <1>5, GoneStays DEF ListAgents, task, history
<1>6. CASE \E p \in Tickers : Tick(p)
  BY <1>0, <1>6, GoneStays DEF Tick, task, local, history
<1>7. ASSUME NEW p \in Processes, NEW a \in Names, DeleteAgent(p, a) PROVE DeletedStateStaysGone'
  <2>1. /\ gone' = gone \cup {a} /\ erased' = [erased EXCEPT ![a] = tick] /\ UNCHANGED local
        /\ agent' = [agent EXCEPT ![a] = Untracked] /\ row' = [row EXCEPT ![a] = NoRow]
        /\ lastAgent' = IF lastAgent = a THEN None ELSE lastAgent
    BY <1>7 DEF DeleteAgent
  <2>2. \A q \in Processes : copies'[q] = {} /\ taskCopy'[q] = None
    BY <1>7 DEF DeleteAgent, FlushHeld, DeleteHeld, HeldCopies, local
  <2>3. /\ agent'[a].ver = 0 /\ row'[a].ver = 0 /\ ~agent'[a].killed /\ ~row'[a].killed
        /\ lastAgent' # a
    BY <2>1, NoneAssumption DEF TypeOK, Untracked, NoRow
  <2>4. \A b \in Names : b # a => /\ agent'[b] = agent[b] /\ row'[b] = row[b] /\ erased'[b] = erased[b]
                                  /\ (lastAgent' = b => lastAgent = b)
    BY <2>1, NoneAssumption DEF TypeOK
  <2>5. \A b \in Names : Newer(b, agent[b].ver)' /\ Newer(b, row[b].ver)'
    BY <2>3, <2>4 DEF Newer, DeletedStateStaysGone
  <2>6. \A b \in gone' : /\ ~agent'[b].killed /\ ~row'[b].killed
                         /\ lastAgent' # b /\ \A q \in Processes : taskCopy'[q] # b
    BY <1>0, <2>1, <2>2, <2>3, <2>4, NoneAssumption DEF DeletedStateStaysGone
  <2> QED BY <2>2, <2>5, <2>6 DEF DeletedStateStaysGone
<1>8. ASSUME NEW p \in Processes, TakeAgents(p) PROVE DeletedStateStaysGone'
  <2>1. /\ copies' = [copies EXCEPT ![p] = {CopyOf(b) : b \in {d \in Known : agent[d].dirty}}]
        /\ UNCHANGED <<row, task, taskCopy, gone, erased>>
        /\ agent' = [b \in Names |-> [agent[b] EXCEPT !.dirty = FALSE]]
    BY <1>8 DEF TakeAgents, history
  <2>2. \A b \in Names : agent'[b].ver = agent[b].ver /\ agent'[b].killed = agent[b].killed
    BY <2>1 DEF TypeOK, Entry
  <2>3. \A b \in Known : CopyOf(b).name = b /\ CopyOf(b).ver = agent[b].ver /\ CopyOf(b).killed = agent[b].killed
    BY DEF CopyOf
  <2>4. \A q \in Processes : \A c \in copies'[q] : c \in copies[q] \/ \E b \in Known : c = CopyOf(b)
    BY <2>1 DEF TypeOK
  <2>5. \A b \in Names : Newer(b, agent[b].ver)' /\ Newer(b, row[b].ver)'
    BY <2>1, <2>2 DEF Newer, DeletedStateStaysGone
  <2>6. \A q \in Processes : \A c \in copies'[q] : Newer(c.name, c.ver)' /\ (c.name \in gone' => ~c.killed)
    BY <2>1, <2>3, <2>4 DEF Newer, DeletedStateStaysGone, Known
  <2> QED BY <1>0, <2>1, <2>2, <2>5, <2>6 DEF DeletedStateStaysGone, task
<1>9. ASSUME NEW p \in Processes, NEW c \in copies[p], StoreAgent(p, c) PROVE DeletedStateStaysGone'
  <2>1. /\ row' = [row EXCEPT ![c.name] = [ver |-> c.ver, killed |-> c.killed]]
        /\ copies' = [copies EXCEPT ![p] = @ \ {c}] /\ UNCHANGED <<agent, task, taskCopy, gone, erased>>
    BY <1>9 DEF StoreAgent
  <2>2. Newer(c.name, c.ver) /\ (c.name \in gone => ~c.killed) /\ c.name \in Names
    BY DEF DeletedStateStaysGone, TypeOK, Copy
  <2>3. \A b \in Names : \/ row'[b] = row[b]
                         \/ b = c.name /\ row'[b].ver = c.ver /\ row'[b].killed = c.killed
    BY <2>1 DEF TypeOK
  <2>4. \A q \in Processes : copies'[q] \subseteq copies[q]
    BY <2>1 DEF TypeOK
  <2>5. \A b \in Names : Newer(b, agent[b].ver)' /\ Newer(b, row[b].ver)'
    BY <2>1, <2>2, <2>3 DEF Newer, DeletedStateStaysGone
  <2>6. \A q \in Processes : \A d \in copies'[q] : Newer(d.name, d.ver)' /\ (d.name \in gone' => ~d.killed)
    BY <2>1, <2>4 DEF Newer, DeletedStateStaysGone
  <2>7. \A b \in gone' : ~row'[b].killed
    BY <1>0, <2>1, <2>2, <2>3 DEF DeletedStateStaysGone
  <2> QED BY <2>1, <2>5, <2>6, <2>7 DEF DeletedStateStaysGone, task
<1>10. ASSUME NEW p \in Processes, FailStoreAgent(p) PROVE DeletedStateStaysGone'
  <2>1. \A q \in Processes : copies'[q] \subseteq copies[q]
    BY <1>10 DEF FailStoreAgent, TypeOK
  <2> QED BY <1>0, <1>10, <2>1, GoneStays DEF FailStoreAgent, task, history
<1>11. ASSUME NEW p \in Processes, TakeTask(p) \/ StoreTask(p) \/ FailStoreTask(p)
       PROVE  DeletedStateStaysGone'
  <2>1. /\ UNCHANGED <<agent, row, lastAgent, copies, gone, erased, tick>>
        /\ \A q \in Processes : taskCopy'[q] \in {taskCopy[q], lastAgent, None}
    BY <1>11 DEF TakeTask, TakeTaskThen, StoreTask, FailStoreTask, task, history, TypeOK
  <2> QED BY <1>0, <2>1, GoneStays
<1>12. CASE Restart
  <2>1. /\ row' = Seeded(row) /\ agent' = Loaded(row') /\ gone' = {} /\ UNCHANGED erased
        /\ \A p \in Processes : copies'[p] = {}
    BY <1>12 DEF Restart
  <2>2. \A a \in Names : Newer(a, row'[a].ver)
    <3>1. \A a \in Names : row'[a] = row[a] \/ (a \in Configured /\ row'[a].ver = 1)
      BY <2>1 DEF Seeded
    <3> QED BY <3>1 DEF Newer, DeletedStateStaysGone
  <2>3. \A a \in Names : agent'[a].ver = row'[a].ver
    BY <2>1, RowsAreTyped DEF TypeOK
  <2> QED BY <2>1, <2>2, <2>3 DEF Newer, DeletedStateStaysGone
<1> QED
  BY <1>1, <1>2, <1>3, <1>4, <1>5, <1>6, <1>7, <1>8, <1>9, <1>10, <1>11, <1>12, Actors DEF Next

(* How the last versions at the deletes stand to the last one drawn.        *)
LEMMA ErasedStep ==
  ASSUME Renamers = {}, DeleteInv, [Next]_vars
  PROVE  \A a \in Names : erased'[a] <= tick' /\ (a \in Configured => erased'[a] = 0)
<1> USE DEF DeleteInv
<1>1. tick \in Nat /\ \A a \in Names : erased[a] \in Nat
  BY DEF TypeOK, Version
<1>2. CASE UNCHANGED erased /\ tick' \in {tick, tick + 1}
  BY <1>1, <1>2
<1>3. CASE \E p \in Deleters, a \in Names : DeleteAgent(p, a)
  BY <1>1, <1>3 DEF DeleteAgent, TypeOK
<1>4. ASSUME NEW p, NEW a, NEW k,
             \/ Discover(p, a) \/ RecordSpend(p, a) \/ Settle(p, a) \/ SetKilled(p, a, k)
             \/ ListAgents(p) \/ GetBudget(p, a) \/ Tick(p)
      PROVE  UNCHANGED erased /\ tick' \in {tick, tick + 1}
  BY <1>4 DEF Discover, RecordSpend, Settle, SetKilled, ListAgents, GetBudget, Tick, history
<1>5. ASSUME NEW p, NEW c,
             \/ TakeAgents(p) \/ StoreAgent(p, c) \/ FailStoreAgent(p)
             \/ TakeTask(p) \/ StoreTask(p) \/ FailStoreTask(p)
      PROVE  UNCHANGED erased /\ tick' \in {tick, tick + 1}
  BY <1>5 DEF TakeAgents, StoreAgent, FailStoreAgent, TakeTask, TakeTaskThen, StoreTask, FailStoreTask, history
<1>6. Restart \/ UNCHANGED vars => UNCHANGED erased /\ tick' \in {tick, tick + 1}
  BY DEF Restart, vars, history
<1> QED
  BY <1>2, <1>3, <1>4, <1>5, <1>6 DEF Next

(* Where agents are not renamed, no request, kill, lookup or flush under    *)
(* way, failing statement or restart brings anything of a deleted agent     *)
(* back: DeleteAgent waits for flushMu, and holds it until the task pointer *)
(* is written.  What a late lookup creates under the name is a new state.   *)
(* The hypothesis is needed: a rollback restores the state it saved.        *)
THEOREM DeletesAreFinal ==
  ASSUME Renamers = {}
  PROVE  Spec => []DeletedStateStaysGone
<1>1. Init => DeleteInv
  <2> SUFFICES ASSUME Init PROVE DeleteInv
    OBVIOUS
  <2>1. TypeOK /\ HeldCopies
    BY TypeInit, HeldInit
  <2>2. erased = [a \in Names |-> 0] /\ gone = {} /\ tick = 1 /\ \A p \in Processes : copies[p] = {}
    BY DEF Init
  <2>3. \A a \in Names : Newer(a, agent[a].ver) /\ Newer(a, row[a].ver)
    BY <2>1, <2>2 DEF Newer, TypeOK, Entry, Row, Version
  <2> QED BY <2>1, <2>2, <2>3 DEF DeleteInv, DeletedStateStaysGone
<1>2. DeleteInv /\ [Next]_vars => DeleteInv'
  BY TypeStep, HeldStep, DeleteStep, ErasedStep DEF DeleteInv
<1>3. DeleteInv => DeletedStateStaysGone
  BY DEF DeleteInv
<1> QED
  BY <1>1, <1>2, <1>3, PTL DEF Spec

-----------------------------------------------------------------------------
(* What a change leaves to be written.                                      *)

(* A version is in the table or in a copy on its way there.                 *)
Lands(v) == v \in landed \/ \E p \in Processes : \E c \in copies[p] : c.ver = v

Due(state) == state.dirty \/ Lands(state.ver)

(* Every state is due to be written or was, and so is the state a rename    *)
(* may yet bring back; a restart reads back only what was written.          *)
LandInv ==
  /\ 0 \in landed /\ 1 \in landed
  /\ \A a \in Names : row[a].ver \in landed
  /\ \A a \in Names : Due(agent[a])
  /\ \A p \in Processes : Due(saved[p].was)

LEMMA LandInit == Init => LandInv
<1> SUFFICES ASSUME Init PROVE LandInv
  OBVIOUS
<1>1. 0 \in landed /\ 1 \in landed /\ \A a \in Names : row[a].ver \in landed
  <2>1. [a \in Names |-> NoRow] \in [Names -> Row]
    BY Records
  <2> QED BY <2>1, RowsAreTyped, Records DEF Init
<1>2. \A a \in Names : agent[a].ver = row[a].ver
  BY TypeInit, RowsAreTyped DEF Init, TypeOK
<1>3. \A p \in Processes : saved[p].was.ver = 0
  BY DEF Init, NoUndo, Untracked
<1> QED
  BY <1>1, <1>2, <1>3 DEF LandInv, Due, Lands

(* While nothing fails and the process runs, what lands keeps landing.      *)
LEMMA LandsOn ==
  ASSUME ~StoreFails, TypeOK, HeldCopies, [Next]_vars, ~Restart
  PROVE  landed \subseteq landed' /\ \A v : Lands(v) => Lands(v)'
<1>1. CASE UNCHANGED <<copies, landed>>
  BY <1>1 DEF Lands
<1>2. CASE \E p \in Processes : TakeAgents(p)
  <2>1. PICK p \in Processes : TakeAgents(p)
    BY <1>2
  <2>2. /\ copies[p] = {} /\ landed' = landed
        /\ \A q \in Processes : q # p => copies'[q] = copies[q]
    BY <2>1 DEF TakeAgents, HeldCopies, history, TypeOK
  <2> QED BY <2>2 DEF Lands
<1>3. CASE \E p \in Processes : \E c \in copies[p] : StoreAgent(p, c)
  <2>1. PICK p \in Processes : \E c \in copies[p] : StoreAgent(p, c)
    BY <1>3
  <2>2. PICK c \in copies[p] : StoreAgent(p, c)
    BY <2>1
  <2>3. landed' = landed \cup {c.ver} /\ copies' = [copies EXCEPT ![p] = @ \ {c}]
    BY <2>2 DEF StoreAgent
  <2> QED BY <2>3 DEF Lands, TypeOK
<1>4. \A p \in Processes : ~FailStoreAgent(p)
  BY DEF FailStoreAgent
<1>5. ASSUME NEW p, NEW a, NEW k,
             \/ Discover(p, a) \/ RecordSpend(p, a) \/ Settle(p, a) \/ SetKilled(p, a, k)
             \/ ListAgents(p) \/ GetBudget(p, a) \/ Tick(p) \/ DeleteAgent(p, a)
      PROVE  UNCHANGED <<copies, landed>>
  BY <1>5 DEF Discover, RecordSpend, Settle, SetKilled, ListAgents, GetBudget, Tick, DeleteAgent, local, history
<1>6. ASSUME NEW p, NEW a, NEW b,
             \/ MoveAgent(p, a, b) \/ MoveRow(p) \/ RefuseMove(p) \/ UndoMove(p)
             \/ TakeTask(p) \/ StoreTask(p) \/ FailStoreTask(p)
      PROVE  UNCHANGED <<copies, landed>>
  BY <1>6 DEF MoveAgent, MoveRow, RefuseMove, UndoMove, TakeTask, TakeTaskThen, StoreTask, FailStoreTask, local, history
<1>7. UNCHANGED vars => UNCHANGED <<copies, landed>>
  BY DEF vars, local, history
<1> QED
  BY <1>1, <1>2, <1>3, <1>4, <1>5, <1>6, <1>7 DEF Next

(* A step keeps the invariant when what it puts into a state is due.        *)
LEMMA LandKept ==
  ASSUME LandInv, landed \subseteq landed', \A v : Lands(v) => Lands(v)',
         \A a \in Names : agent'[a] = agent[a] \/ Due(agent[a])',
         \A a \in Names : row'[a].ver \in landed',
         \A p \in Processes : saved'[p] = saved[p] \/ Due(saved[p].was)'
  PROVE  LandInv'
<1>1. \A a \in Names : agent'[a] = agent[a] => Due(agent[a])'
  BY DEF LandInv, Due, Lands
<1>2. \A p \in Processes : saved'[p] = saved[p] => Due(saved[p].was)'
  BY DEF LandInv, Due, Lands
<1> QED
  BY <1>1, <1>2 DEF LandInv

LEMMA LandStep ==
  ASSUME ~StoreFails, TypeOK, HeldCopies, LandInv, [Next]_vars
  PROVE  LandInv'
<1> DEFINE Agents == \A a \in Names : agent'[a] = agent[a] \/ Due(agent[a])'
<1> DEFINE Rows   == \A a \in Names : row'[a].ver \in landed'
<1> DEFINE Saves  == \A p \in Processes : saved'[p] = saved[p] \/ Due(saved[p].was)'
<1>1. UNCHANGED row /\ ~Restart => Rows
  BY LandsOn DEF LandInv
<1>2. ASSUME ~Restart, Agents, Rows, Saves PROVE LandInv'
  BY <1>2, LandsOn, LandKept
<1> HIDE DEF Saves
<1>3. UNCHANGED saved => Saves
  BY DEF Saves
<1>4. CASE Restart
  <2>1. row' \in [Names -> Row] /\ \A a \in Names : row'[a].ver \in landed /\ agent'[a].ver = row'[a].ver
    BY <1>4, RowsAreTyped DEF Restart, TypeOK, LandInv
  <2>2. \A p \in Processes : saved'[p].was.ver = 0
    BY <1>4 DEF Restart, NoUndo, Untracked
  <2> QED BY <1>4, <2>1, <2>2 DEF Restart, LandInv, Due, Lands
<1>5. CASE UNCHANGED vars /\ ~Restart
  BY <1>1, <1>2, <1>3, <1>5 DEF vars, local
<1>6. ASSUME NEW p \in Processes, NEW a \in Names, NEW k \in BOOLEAN, ~Restart,
             Discover(p, a) \/ RecordSpend(p, a) \/ SetKilled(p, a, k) \/ GetBudget(p, a)
      PROVE  LandInv'
  <2>1. agent[a].killed \in BOOLEAN
    BY DEF TypeOK, Entry
  <2>2. Agents
    <3>1. \A b \in Names : agent'[b] = agent[b] \/ agent'[b].dirty
      BY <1>6, <2>1, FreshIsTyped DEF Discover, RecordSpend, SetKilled, GetBudget, TypeOK
    <3> QED BY <3>1 DEF Due
  <2>3. UNCHANGED <<row, saved>>
    BY <1>6 DEF Discover, RecordSpend, SetKilled, GetBudget, local
  <2> QED BY <1>1, <1>2, <1>3, <1>6, <2>2, <2>3
<1>7. ASSUME NEW p, NEW a, ~Restart, Settle(p, a) \/ ListAgents(p) \/ Tick(p) PROVE LandInv'
  <2>1. UNCHANGED <<agent, row, saved>>
    BY <1>7 DEF Settle, ListAgents, Tick, local
  <2> QED BY <1>1, <1>2, <1>3, <1>7, <2>1
<1>8. ASSUME NEW p \in Renamers, NEW a \in Names, NEW b \in Names, ~Restart, MoveAgent(p, a, b) PROVE LandInv'
  <2> DEFINE was == IF a \in Known THEN agent[a] ELSE Fresh(FALSE)
  <2>1. /\ agent' = [agent EXCEPT ![a] = Untracked, ![b] = [was EXCEPT !.dirty = TRUE]]
        /\ saved' = [saved EXCEPT ![p] = [old |-> a, new |-> b, was |-> was, task |-> lastAgent = a]]
        /\ UNCHANGED row /\ tick < MaxVersion /\ a # b
    BY <1>8 DEF MoveAgent
  <2>2. was \in Entry /\ (was = agent[a] \/ was.dirty)
    BY <2>1, FreshIsTyped DEF TypeOK
  <2>3. Agents
    <3>1. agent'[a].ver = 0 /\ 0 \in landed'
      BY <1>8, <2>1, Records, LandsOn DEF TypeOK, LandInv
    <3>2. agent'[b].dirty
      BY <2>1, <2>2 DEF TypeOK, Entry
    <3>3. \A d \in Names : d \notin {a, b} => agent'[d] = agent[d]
      BY <2>1 DEF TypeOK
    <3> QED BY <3>1, <3>2, <3>3 DEF Due, Lands
  <2>4. Saves
    <3>1. saved'[p] = [old |-> a, new |-> b, was |-> was, task |-> lastAgent = a]
      BY <2>1, Actors DEF TypeOK
    <3>2. saved'[p].was = was
      BY <3>1
    <3>3. Due(saved[p].was)'
      <4> HIDE DEF was
      <4> QED BY <1>8, <2>2, <3>2, LandsOn DEF LandInv, Due, Lands
    <3>4. \A q \in Processes : q # p => saved'[q] = saved[q]
      BY <2>1 DEF TypeOK
    <3> QED BY <3>3, <3>4 DEF Saves
  <2> QED BY <1>1, <1>2, <1>8, <2>1, <2>3, <2>4
<1>9. ASSUME NEW p \in Renamers, ~Restart, MoveRow(p) PROVE LandInv'
  <2>1. saved[p].old \in Names /\ saved[p].new \in Names
    BY <1>9, Actors DEF MoveRow, TypeOK
  <2>2. /\ row' = [row EXCEPT ![saved[p].old] = NoRow, ![saved[p].new] = row[saved[p].old]]
        /\ saved' = [saved EXCEPT ![p] = NoUndo] /\ UNCHANGED agent
    BY <1>9 DEF MoveRow
  <2>3. Rows
    BY <1>9, <2>1, <2>2, Records, LandsOn DEF LandInv, TypeOK
  <2>4. 0 \in landed' /\ NoUndo.was.ver = 0
    BY <1>9, LandsOn DEF LandInv, NoUndo, Untracked
  <2>5. Saves
    BY <2>2, <2>4, Actors DEF Saves, Due, Lands, TypeOK
  <2> QED BY <1>2, <1>9, <2>2, <2>3, <2>5
<1>10. ASSUME NEW p, ~Restart, RefuseMove(p) PROVE LandInv'
  BY <1>1, <1>2, <1>3, <1>10 DEF RefuseMove, local
<1>11. ASSUME NEW p \in Renamers, ~Restart, UndoMove(p) PROVE LandInv'
  <2>1. /\ agent' = [agent EXCEPT ![saved[p].new] = Untracked, ![saved[p].old] = saved[p].was]
        /\ saved' = [saved EXCEPT ![p] = NoUndo] /\ UNCHANGED row
    BY <1>11 DEF UndoMove
  <2>2. 0 \in landed' /\ NoUndo.was.ver = 0 /\ Untracked.ver = 0
    BY <1>11, LandsOn, Records DEF LandInv, NoUndo, Untracked
  <2>3. Due(saved[p].was)
    BY Actors DEF LandInv
  <2>4. Agents
    <3>1. \A d \in Names : agent'[d] \in {agent[d], Untracked, saved[p].was}
      BY <2>1 DEF TypeOK
    <3>2. \A d \in Names : agent'[d] = saved[p].was => Due(agent[d])'
      BY <1>11, <2>3, LandsOn DEF Due, Lands
    <3> QED BY <2>2, <3>1, <3>2 DEF Due, Lands
  <2>5. Saves
    BY <2>1, <2>2, Actors DEF Saves, Due, Lands, TypeOK
  <2> QED BY <1>1, <1>2, <1>11, <2>1, <2>4, <2>5
<1>12. ASSUME NEW p, NEW a \in Names, ~Restart, DeleteAgent(p, a) PROVE LandInv'
  <2>1. /\ agent' = [agent EXCEPT ![a] = Untracked] /\ row' = [row EXCEPT ![a] = NoRow] /\ UNCHANGED saved
    BY <1>12 DEF DeleteAgent, local
  <2>2. 0 \in landed'
    BY <1>12, LandsOn DEF LandInv
  <2>3. Agents
    BY <2>1, <2>2, Records DEF Due, Lands, TypeOK
  <2>4. Rows
    BY <1>12, <2>1, <2>2, Records, LandsOn DEF LandInv, TypeOK
  <2> QED BY <1>2, <1>3, <1>12, <2>1, <2>3, <2>4
<1>13. ASSUME NEW p \in Processes, ~Restart, TakeAgents(p) PROVE LandInv'
  <2>1. /\ copies' = [copies EXCEPT ![p] = {CopyOf(a) : a \in {b \in Known : agent[b].dirty}}]
        /\ agent' = [a \in Names |-> [agent[a] EXCEPT !.dirty = FALSE]]
        /\ UNCHANGED <<row, saved>>
    BY <1>13 DEF TakeAgents
  <2>2. \A a \in Names : agent'[a].ver = agent[a].ver /\ agent[a].ver \in Nat
    BY <2>1 DEF TypeOK, Entry, Version
  <2>3. ASSUME NEW a \in Names, agent[a].dirty PROVE Due(agent[a])'
    <3>1. CASE a \in Known
      <4>1. CopyOf(a) \in copies'[p] /\ CopyOf(a).ver = agent[a].ver
        BY <2>1, <2>3, <3>1 DEF TypeOK, CopyOf
      <4> QED BY <2>2, <4>1 DEF Due, Lands
    <3>2. CASE a \notin Known
      <4>1. agent'[a].ver = 0 /\ 0 \in landed'
        BY <1>13, <2>2, <3>2, LandsOn DEF Known, LandInv
      <4> QED BY <4>1 DEF Due, Lands
    <3> QED BY <3>1, <3>2
  <2>4. ASSUME NEW a \in Names, ~agent[a].dirty PROVE Due(agent[a])'
    <3>1. Lands(agent[a].ver)
      BY <2>4 DEF LandInv, Due
    <3> QED BY <1>13, <2>2, <3>1, LandsOn DEF Due, Lands
  <2> QED BY <1>1, <1>2, <1>3, <1>13, <2>1, <2>3, <2>4
<1>14. ASSUME NEW p \in Processes, NEW c \in copies[p], ~Restart, StoreAgent(p, c) PROVE LandInv'
  <2>1. /\ row' = [row EXCEPT ![c.name] = [ver |-> c.ver, killed |-> c.killed]]
        /\ landed' = landed \cup {c.ver} /\ UNCHANGED <<agent, saved>>
    BY <1>14 DEF StoreAgent
  <2>2. Rows
    BY <2>1 DEF LandInv, TypeOK
  <2> QED BY <1>2, <1>3, <1>14, <2>1, <2>2
<1>15. ASSUME NEW p, ~Restart, TakeTask(p) \/ StoreTask(p) \/ FailStoreTask(p) PROVE LandInv'
  <2>1. UNCHANGED <<agent, row, saved>>
    BY <1>15 DEF TakeTask, TakeTaskThen, StoreTask, FailStoreTask
  <2> QED BY <1>1, <1>2, <1>3, <1>15, <2>1
<1>16. \A p \in Processes : ~FailStoreAgent(p)
  BY DEF FailStoreAgent
<1> QED
  BY <1>4, <1>5, <1>6, <1>7, <1>8, <1>9, <1>10, <1>11, <1>12, <1>13, <1>14, <1>15, <1>16, Actors DEF Next

(* As long as the store works, the latest state of every tracked agent is   *)
(* due, on its way, or was written (Flush), while renames, rollbacks,       *)
(* deletes, flushes and restarts meet.  After a rollback that is the state  *)
(* the rename saved: what was done to the agent under its new name in       *)
(* between is thrown away there, and is not counted.                        *)
THEOREM LatestStatesLand ==
  ASSUME ~StoreFails
  PROVE  Spec => []ChangesLand
<1>1. Init => TypeOK /\ HeldCopies /\ LandInv
  BY TypeInit, HeldInit, LandInit
<1>2. (TypeOK /\ HeldCopies /\ LandInv) /\ [Next]_vars => (TypeOK /\ HeldCopies /\ LandInv)'
  BY TypeStep, HeldStep, LandStep
<1>3. TypeOK /\ LandInv => ChangesLand
  BY DEF LandInv, ChangesLand, Due, Lands, Known
<1> QED
  BY <1>1, <1>2, <1>3, PTL DEF Spec

=============================================================================
