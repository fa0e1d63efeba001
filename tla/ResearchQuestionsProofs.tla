------------------------ MODULE ResearchQuestionsProofs ------------------------
(***************************************************************************)
(* Theorems about ResearchQuestions, for any number of researchers, any     *)
(* tree of questions and any number of calls, stops and alterations.        *)
(***************************************************************************)
EXTENDS ResearchQuestions, TLAPS

RowShape(row) == row = Asked(row.parent, row.text, row.status)

TaskShape(t) ==
  t = [step |-> t.step, question |-> t.question, status |-> t.status, row |-> t.row, left |-> t.left,
       closing |-> t.closing, queue |-> t.queue, hash |-> t.hash, read |-> t.read, real |-> t.real]

QuestionTyped ==
  /\ questions = [q \in DOMAIN questions |-> questions[q]]
  /\ \A q \in DOMAIN questions : RowShape(questions[q])
  /\ task = [r \in Researchers |-> task[r]]
  /\ due = [r \in Researchers |-> due[r]]
  /\ \A r \in Researchers :
       /\ TaskShape(task[r])
       /\ task[r].closing \in BOOLEAN
       /\ task[r].step = "insert" => RowShape(task[r].row)

(* The walk over a branch. *)

\* The questions a walk has still to look below.
Ahead(t) == t.queue \cup (IF t.step \in {"update", "journal", "children"} THEN {t.question} ELSE {})

\* Whatever is still due lies below what is ahead of the walk.
Walking(t, open) ==
  /\ t.step \in {"visit", "update", "journal", "children"}
  /\ Ahead(t) \subseteq DOMAIN questions
  /\ \A S \in SUBSET DOMAIN questions : Downward(S) /\ Ahead(t) \subseteq S => open \subseteq S
  /\ open \subseteq DOMAIN questions
  /\ \A q \in open : questions[q].status # "CLOSED"
  /\ t.step = "update" => t.status = "CLOSED"
  /\ t.step \in {"journal", "children"} => t.question \notin open

NotWalking(t, open) == open = {} /\ t.step \notin {"visit", "children"}

Walk(t, open) == IF t.closing THEN Walking(t, open) ELSE NotWalking(t, open)

WalksKnow == \A r \in Researchers : Walk(task[r], due[r])

SweepInv == QuestionTyped /\ WalksKnow

-------------------------------------------------------------------------------
(* The tree. *)

\* Questions are added and change their status; none goes, and none moves.
Grows ==
  /\ DOMAIN questions \subseteq DOMAIN questions'
  /\ \A q \in DOMAIN questions : questions'[q].parent = questions[q].parent

\* A set of the tree as it grew holds one of the tree as it was.
LEMMA DownwardBefore ==
  ASSUME Grows, NEW S \in SUBSET DOMAIN questions', Downward(S)'
  PROVE  S \cap DOMAIN questions \in SUBSET DOMAIN questions /\ Downward(S \cap DOMAIN questions)
BY DEF Grows, Downward, ChildrenOf

\* What a walk knows survives the changes that leave its open questions open.
LEMMA HeldWalk ==
  ASSUME Grows, NEW r \in Researchers, Walk(task[r], due[r]), task'[r] = task[r], due'[r] \subseteq due[r],
         \A q \in due'[r] : questions'[q].status # "CLOSED"
  PROVE  Walk(task[r], due[r])'
  <1>1. CASE task[r].closing
    <2>1. ASSUME NEW S \in SUBSET DOMAIN questions', Downward(S)', Ahead(task[r])' \subseteq S
          PROVE  due'[r] \subseteq S
      <3>1. Ahead(task[r]) \subseteq S \cap DOMAIN questions
        BY <1>1, <2>1 DEF Walk, Walking, Ahead
      <3> QED BY <1>1, <2>1, <3>1, DownwardBefore DEF Walk, Walking
    <2> QED BY <1>1, <2>1 DEF Walk, Walking, Grows, Ahead
  <1>2. CASE ~task[r].closing
    BY <1>2 DEF Walk, NotWalking
  <1> QED BY <1>1, <1>2

\* A step of one researcher that changes no question and no other's walk.
LEMMA OneWalk ==
  ASSUME SweepInv, questions' = questions, NEW r \in Researchers, NEW t, NEW open,
         task' = [task EXCEPT ![r] = t], due' = [due EXCEPT ![r] = open],
         TaskShape(t), t.closing \in BOOLEAN, t.step = "insert" => RowShape(t.row), Walk(t, open)
  PROVE  SweepInv'
  <1>1. \A s \in Researchers : task'[s] = (IF s = r THEN t ELSE task[s]) /\ due'[s] = (IF s = r THEN open ELSE due[s])
    BY DEF SweepInv, QuestionTyped
  <1>2. QuestionTyped'
    BY <1>1 DEF SweepInv, QuestionTyped
  <1>3. ASSUME NEW s \in Researchers PROVE Walk(task[s], due[s])'
    <2>1. Walk(task'[s], due'[s])
      BY <1>1 DEF SweepInv, WalksKnow
    <2> QED BY <2>1 DEF Walk, Walking, NotWalking, Ahead, Downward, ChildrenOf
  <1> QED BY <1>2, <1>3 DEF SweepInv, WalksKnow

\* The same when nothing of the walk's history changes.
LEMMA OneTask ==
  ASSUME SweepInv, UNCHANGED <<questions, due>>, NEW r \in Researchers, NEW t,
         task' = [task EXCEPT ![r] = t],
         TaskShape(t), t.closing \in BOOLEAN, t.step = "insert" => RowShape(t.row), Walk(t, due[r])
  PROVE  SweepInv'
  <1>1. due' = [due EXCEPT ![r] = due[r]]
    BY DEF SweepInv, QuestionTyped
  <1> QED BY <1>1, OneWalk

LEMMA AtRest ==
  ASSUME SweepInv, NEW r \in Researchers, ~task[r].closing
  PROVE  due[r] = {} /\ task[r].step \notin {"visit", "children"}
BY DEF SweepInv, WalksKnow, Walk, NotWalking

LEMMA IdleRests ==
  ASSUME SweepInv, NEW r \in Researchers, task[r].step = "idle"
  PROVE  ~task[r].closing /\ due[r] = {}
BY DEF SweepInv, QuestionTyped, WalksKnow, Walk, Walking, NotWalking

\* A task that is not the closing of a branch.
Resting(t) ==
  /\ TaskShape(t) /\ t.closing = FALSE /\ t.step \notin {"visit", "children"}
  /\ t.step = "insert" => RowShape(t.row)

\* Any call but the closing of a branch begins, and every call ends, at rest.
LEMMA RestingTask ==
  ASSUME SweepInv, UNCHANGED <<questions, due>>, NEW r \in Researchers, NEW t, due[r] = {},
         task' = [task EXCEPT ![r] = t], Resting(t)
  PROVE  SweepInv'
  <1>1. Walk(t, due[r])
    BY DEF Walk, NotWalking, Resting
  <1> QED BY <1>1, OneTask DEF Resting

-------------------------------------------------------------------------------
(* The steps, for the walks. *)

LEMMA SweepUnchanged ==
  ASSUME SweepInv, UNCHANGED <<questions, task, due>>
  PROVE  SweepInv'
  <1>1. QuestionTyped'
    BY DEF SweepInv, QuestionTyped
  <1>2. WalksKnow'
    BY DEF SweepInv, WalksKnow, Walk, Walking, NotWalking, Ahead, Downward, ChildrenOf
  <1> QED BY <1>1, <1>2 DEF SweepInv

\* Any call but the closing of a branch.
LEMMA CallSweeps ==
  ASSUME SweepInv, UNCHANGED <<questions, due>>, NEW r \in Researchers, NEW t, BeginCall(r, t), Resting(t)
  PROVE  SweepInv'
BY IdleRests, RestingTask DEF BeginCall, AtStep, Become

\* The tasks that begin a call.
JournalTask(left) == [Quiet EXCEPT !.step = "journal", !.left = left]
InsertTask(q, row, left) == [Quiet EXCEPT !.step = "insert", !.question = q, !.row = row, !.left = left]
UpdateTask(q, status) == [Quiet EXCEPT !.step = "update", !.question = q, !.status = status]
ReopenTask(q) == [Quiet EXCEPT !.step = "update", !.question = q]
HeadTask(left, hash, read, real) ==
  [Quiet EXCEPT !.step = "head", !.left = left, !.hash = hash, !.read = read, !.real = real]

LEMMA QuietIs ==
  ASSUME NEW t, t = Quiet
  PROVE  Resting(t) /\ t.step # "head"
  <1>1. t = [step |-> "idle", question |-> NoParent, status |-> "OPEN", row |-> NoParent, left |-> 0,
             closing |-> FALSE, queue |-> {}, hash |-> <<>>, read |-> <<>>, real |-> <<>>]
    BY DEF Quiet
  <1>2. TaskShape(t)
    BY <1>1 DEF TaskShape
  <1> QED BY <1>1, <1>2 DEF Resting

LEMMA JournalTaskIs ==
  ASSUME NEW left, NEW t, t = JournalTask(left)
  PROVE  Resting(t) /\ t.step # "head"
  <1>1. t = [step |-> "journal", question |-> NoParent, status |-> "OPEN", row |-> NoParent, left |-> left,
             closing |-> FALSE, queue |-> {}, hash |-> <<>>, read |-> <<>>, real |-> <<>>]
    BY DEF Quiet, JournalTask
  <1>2. TaskShape(t)
    BY <1>1 DEF TaskShape
  <1> QED BY <1>1, <1>2 DEF Resting

LEMMA InsertTaskIs ==
  ASSUME NEW q, NEW row, NEW left, NEW t, t = InsertTask(q, row, left), RowShape(row)
  PROVE  Resting(t) /\ t.step # "head"
  <1>1. t = [step |-> "insert", question |-> q, status |-> "OPEN", row |-> row, left |-> left,
             closing |-> FALSE, queue |-> {}, hash |-> <<>>, read |-> <<>>, real |-> <<>>]
    BY DEF Quiet, InsertTask
  <1>2. TaskShape(t)
    BY <1>1 DEF TaskShape
  <1> QED BY <1>1, <1>2 DEF Resting

LEMMA UpdateTaskIs ==
  ASSUME NEW q, NEW status, NEW t, t = UpdateTask(q, status)
  PROVE  Resting(t) /\ t.step # "head"
  <1>1. t = [step |-> "update", question |-> q, status |-> status, row |-> NoParent, left |-> 0,
             closing |-> FALSE, queue |-> {}, hash |-> <<>>, read |-> <<>>, real |-> <<>>]
    BY DEF Quiet, UpdateTask
  <1>2. TaskShape(t)
    BY <1>1 DEF TaskShape
  <1> QED BY <1>1, <1>2 DEF Resting

LEMMA ReopenTaskIs ==
  ASSUME NEW q, NEW t, t = ReopenTask(q)
  PROVE  Resting(t) /\ t.step # "head"
  <1>1. t = [step |-> "update", question |-> q, status |-> "OPEN", row |-> NoParent, left |-> 0,
             closing |-> FALSE, queue |-> {}, hash |-> <<>>, read |-> <<>>, real |-> <<>>]
    BY DEF Quiet, ReopenTask
  <1>2. TaskShape(t)
    BY <1>1 DEF TaskShape
  <1> QED BY <1>1, <1>2 DEF Resting

LEMMA HeadTaskIs ==
  ASSUME NEW left, NEW hash, NEW read, NEW real, NEW t, t = HeadTask(left, hash, read, real)
  PROVE  Resting(t)
  <1>1. t = [step |-> "head", question |-> NoParent, status |-> "OPEN", row |-> NoParent, left |-> left,
             closing |-> FALSE, queue |-> {}, hash |-> hash, read |-> read, real |-> real]
    BY DEF Quiet, HeadTask
  <1>2. TaskShape(t)
    BY <1>1 DEF TaskShape
  <1> QED BY <1>1, <1>2 DEF Resting

LEMMA CreateSweeps ==
  ASSUME SweepInv, NEW r \in Researchers, CreateQuestion(r)
  PROVE  SweepInv'
  <1>1. PICK q, row, left, t :
          /\ BeginCall(r, t) /\ RowShape(row)
          /\ t = JournalTask(1) \/ t = InsertTask(q, row, left)
    BY DEF CreateQuestion, RowShape, Asked, JournalTask, InsertTask
  <1>2. Resting(t)
    BY <1>1, JournalTaskIs, InsertTaskIs
  <1> QED BY <1>1, <1>2, CallSweeps DEF CreateQuestion

\* A question that is added lies in no branch that is being closed.
LEMMA InsertSweeps ==
  ASSUME SweepInv, NEW r \in Researchers, InsertQuestion(r)
  PROVE  SweepInv'
  <1> DEFINE q == task[r].question
  <1>1. ~task[r].closing /\ due[r] = {}
    BY DEF SweepInv, QuestionTyped, WalksKnow, Walk, Walking, NotWalking, InsertQuestion, AtStep
  <1>2. CASE q \in DOMAIN questions
    <2>1. UNCHANGED <<questions, due>> /\ task' = [task EXCEPT ![r] = Quiet]
      BY <1>2 DEF InsertQuestion, Become
    <2> QED BY <1>1, <2>1, QuietIs, RestingTask
  <1>3. CASE q \notin DOMAIN questions
    <2>1. PICK t : /\ t = JournalTask(task[r].left)
                   /\ task' = [task EXCEPT ![r] = t] /\ due' = due
      BY <1>3 DEF InsertQuestion, Become, JournalTask
    <2>2. Resting(t)
      BY <2>1, JournalTaskIs
    <2>3. RowShape(task[r].row)
      BY DEF SweepInv, QuestionTyped, InsertQuestion, AtStep
    <2>4. /\ questions' = [x \in DOMAIN questions' |-> questions'[x]]
          /\ DOMAIN questions' = DOMAIN questions \cup {q}
          /\ \A x \in DOMAIN questions : questions'[x] = questions[x]
          /\ questions'[q] = task[r].row
      BY <1>3 DEF InsertQuestion
    <2>5. \A s \in Researchers : task'[s] = IF s = r THEN t ELSE task[s]
      BY <2>1 DEF SweepInv, QuestionTyped
    <2>6. QuestionTyped'
      BY <2>1, <2>2, <2>3, <2>4, <2>5 DEF SweepInv, QuestionTyped, Resting
    <2>7. Grows
      BY <2>4 DEF Grows
    <2>8. ASSUME NEW s \in Researchers PROVE Walk(task[s], due[s])'
      <3>1. Walk(task[s], due[s]) /\ \A x \in due[s] : questions'[x].status # "CLOSED"
        BY <2>4 DEF SweepInv, WalksKnow, Walk, Walking, NotWalking
      <3>2. CASE s = r
        BY <1>1, <2>1, <2>2, <2>5, <3>2 DEF Walk, NotWalking, Resting
      <3>3. CASE s # r
        <4>1. task'[s] = task[s] /\ due'[s] = due[s]
          BY <2>1, <2>5, <3>3
        <4> QED BY <2>7, <3>1, <4>1, HeldWalk
      <3> QED BY <3>2, <3>3
    <2> QED BY <2>6, <2>8 DEF SweepInv, WalksKnow
  <1> QED BY <1>2, <1>3
LEMMA SetStatusSweeps ==
  ASSUME SweepInv, NEW r \in Researchers, SetQuestionStatus(r)
  PROVE  SweepInv'
  <1>1. PICK q, status, t : BeginCall(r, t) /\ t = UpdateTask(q, status)
    BY DEF SetQuestionStatus, UpdateTask
  <1> QED BY <1>1, UpdateTaskIs, CallSweeps DEF SetQuestionStatus

LEMMA ReopenSweeps ==
  ASSUME SweepInv, NEW r \in Researchers, ReopenQuestion(r)
  PROVE  SweepInv'
  <1>1. PICK q, t : BeginCall(r, t) /\ t = ReopenTask(q)
    BY DEF ReopenQuestion, ReopenTask
  <1> QED BY <1>1, ReopenTaskIs, CallSweeps DEF ReopenQuestion

LEMMA ReadSweeps ==
  ASSUME SweepInv, NEW r \in Researchers, ReadEntries(r)
  PROVE  SweepInv'
  <1>1. PICK left, hash, read, t : BeginCall(r, t) /\ t = HeadTask(left, hash, read, appended)
    BY DEF ReadEntries, HeadTask
  <1> QED BY <1>1, HeadTaskIs, CallSweeps DEF ReadEntries

LEMMA CheckSweeps ==
  ASSUME SweepInv, NEW r \in Researchers, CheckHead(r)
  PROVE  SweepInv'
  <1>1. due[r] = {}
    BY DEF SweepInv, QuestionTyped, WalksKnow, Walk, Walking, NotWalking, CheckHead, AtStep
  <1> QED BY <1>1, QuietIs, RestingTask DEF CheckHead, Become

\* Whatever a researcher was at, it is at rest when its walk is forgotten.
LEMMA ForgetSweeps ==
  ASSUME SweepInv, questions' = questions, NEW r \in Researchers, NEW t, Resting(t),
         task' = [task EXCEPT ![r] = t], due' = [due EXCEPT ![r] = {}]
  PROVE  SweepInv'
  <1>1. Walk(t, {})
    BY DEF Walk, NotWalking, Resting
  <1> QED BY <1>1, OneWalk DEF Resting

LEMMA StopSweeps ==
  ASSUME SweepInv, NEW r \in Researchers, StopResearcher(r)
  PROVE  SweepInv'
BY QuietIs, ForgetSweeps DEF StopResearcher, Become

LEMMA BranchClosedSweeps ==
  ASSUME SweepInv, NEW r \in Researchers, BranchClosed(r)
  PROVE  SweepInv'
BY JournalTaskIs, ForgetSweeps DEF BranchClosed, Become, JournalTask

\* The walk begins with the question whose branch is due.
LEMMA CloseSweeps ==
  ASSUME SweepInv, NEW r \in Researchers, CloseBranch(r)
  PROVE  SweepInv'
  <1>0. PICK q \in DOMAIN questions :
          /\ BeginCall(r, [Quiet EXCEPT !.step = "visit", !.closing = TRUE, !.queue = {q}])
          /\ due' = [due EXCEPT ![r] = {d \in Descendants(q) : questions[d].status # "CLOSED"}]
    BY DEF CloseBranch
  <1>1. PICK t :
          /\ task' = [task EXCEPT ![r] = t]
          /\ t = [Quiet EXCEPT !.step = "visit", !.closing = TRUE, !.queue = {q}]
    BY <1>0 DEF BeginCall, Become
  <1> DEFINE open == {d \in Descendants(q) : questions[d].status # "CLOSED"}
  <1>2. t = [step |-> "visit", question |-> NoParent, status |-> "OPEN", row |-> NoParent, left |-> 0,
             closing |-> TRUE, queue |-> {q}, hash |-> <<>>, read |-> <<>>, real |-> <<>>]
    BY <1>1 DEF Quiet
  <1>3. TaskShape(t)
    BY <1>2 DEF TaskShape
  <1>4. t.step = "visit" /\ t.closing = TRUE /\ t.queue = {q}
    BY <1>2
  <1>5. Walk(t, open)
    BY <1>4 DEF Walk, Walking, Ahead, Descendants
  <1> HIDE DEF open
  <1> QED BY <1>0, <1>1, <1>3, <1>4, <1>5, OneWalk DEF CloseBranch, open

LEMMA VisitSweeps ==
  ASSUME SweepInv, NEW r \in Researchers, Visit(r)
  PROVE  SweepInv'
  <1> DEFINE old == task[r]
  <1>1. PICK q, step, t :
          /\ q \in old.queue
          /\ task' = [task EXCEPT ![r] = t]
          /\ t = [old EXCEPT !.queue = @ \ {q}, !.question = q, !.status = "CLOSED", !.step = step]
          /\ step = IF questions[q].status = "CLOSED" THEN "children" ELSE "update"
    BY DEF Visit, Become
  <1>2. TaskShape(old) /\ old.step = "visit" /\ old.closing = TRUE /\ Walking(old, due[r])
    BY DEF SweepInv, QuestionTyped, WalksKnow, Walk, NotWalking, Visit, AtStep
  <1> HIDE DEF old
  <1>3. t = [step |-> step, question |-> q, status |-> "CLOSED", row |-> old.row, left |-> old.left,
             closing |-> TRUE, queue |-> old.queue \ {q}, hash |-> old.hash, read |-> old.read, real |-> old.real]
    BY <1>1, <1>2 DEF TaskShape
  <1>4. TaskShape(t)
    BY <1>3 DEF TaskShape
  <1>5. t.step = step /\ t.question = q /\ t.status = "CLOSED" /\ t.closing = TRUE /\ t.queue = old.queue \ {q}
    BY <1>3
  <1>6. step \in {"children", "update"} /\ (step = "children" => questions[q].status = "CLOSED")
    BY <1>1
  <1>7. Ahead(t) = Ahead(old)
    BY <1>1, <1>2, <1>5, <1>6 DEF Ahead
  <1>8. Walk(t, due[r])
    BY <1>2, <1>5, <1>6, <1>7 DEF Walk, Walking
  <1> QED BY <1>1, <1>4, <1>5, <1>6, <1>8, OneTask DEF Visit

\* A closed question leaves its children to be visited instead.
LEMMA ChildrenSweeps ==
  ASSUME SweepInv, NEW r \in Researchers, ReadChildren(r)
  PROVE  SweepInv'
  <1> DEFINE old == task[r]
             q == old.question
  <1>1. PICK t : /\ task' = [task EXCEPT ![r] = t]
                 /\ t = [old EXCEPT !.queue = @ \cup ChildrenOf(q), !.step = "visit"]
    BY DEF ReadChildren, Become
  <1>2. TaskShape(old) /\ old.step = "children" /\ old.closing = TRUE /\ Walking(old, due[r])
    BY DEF SweepInv, QuestionTyped, WalksKnow, Walk, NotWalking, ReadChildren, AtStep
  <1> HIDE DEF old
  <1>3. t = [step |-> "visit", question |-> old.question, status |-> old.status, row |-> old.row,
             left |-> old.left, closing |-> TRUE, queue |-> old.queue \cup ChildrenOf(q),
             hash |-> old.hash, read |-> old.read, real |-> old.real]
    BY <1>1, <1>2 DEF TaskShape
  <1>4. TaskShape(t)
    BY <1>3 DEF TaskShape
  <1>5. t.step = "visit" /\ t.closing = TRUE /\ t.queue = old.queue \cup ChildrenOf(q)
    BY <1>3
  <1>6. q \in DOMAIN questions /\ old.queue \subseteq DOMAIN questions /\ q \notin due[r]
    BY <1>2 DEF Walking, Ahead
  <1>7. ASSUME NEW S \in SUBSET DOMAIN questions, Downward(S), Ahead(t) \subseteq S
        PROVE  due[r] \subseteq S
    <2>1. Downward(S \cup {q}) /\ Ahead(old) \subseteq S \cup {q}
      BY <1>2, <1>5, <1>7 DEF Ahead, Downward
    <2>2. due[r] \subseteq S \cup {q}
      BY <1>2, <1>6, <2>1 DEF Walking
    <2> QED BY <1>6, <2>2
  <1>8. Walk(t, due[r])
    BY <1>2, <1>5, <1>6, <1>7 DEF Walk, Walking, Ahead, ChildrenOf
  <1> QED BY <1>1, <1>4, <1>5, <1>8, OneTask DEF ReadChildren
\* The status is written; a question that is closed is due to nobody.
LEMMA UpdateSweeps ==
  ASSUME SweepInv, NEW r \in Researchers, UpdateQuestion(r)
  PROVE  SweepInv'
  <1> DEFINE old == task[r]
             q == old.question
  <1>1. PICK t : /\ task' = [task EXCEPT ![r] = t]
                 /\ t = [old EXCEPT !.step = "journal", !.left = 1]
    BY DEF UpdateQuestion, Become
  <1>2. TaskShape(old) /\ old.step = "update" /\ old.closing \in BOOLEAN /\ Walk(old, due[r])
    BY DEF SweepInv, QuestionTyped, WalksKnow, UpdateQuestion, AtStep
  <1>3. /\ questions' = [x \in DOMAIN questions |-> questions'[x]]
        /\ DOMAIN questions' = DOMAIN questions
        /\ \A x \in DOMAIN questions :
             questions'[x] = Asked(questions[x].parent, questions[x].text,
                                   IF x = q THEN old.status ELSE questions[x].status)
    <2>1. questions' = [questions EXCEPT ![q].status = old.status]
      BY DEF UpdateQuestion
    <2>2. questions = [x \in DOMAIN questions |-> questions[x]] /\ \A x \in DOMAIN questions : RowShape(questions[x])
      BY DEF SweepInv, QuestionTyped
    <2>3. /\ questions' = [x \in DOMAIN questions |-> questions'[x]]
          /\ DOMAIN questions' = DOMAIN questions
          /\ \A x \in DOMAIN questions :
               questions'[x] = IF x = q THEN [questions[x] EXCEPT !.status = old.status] ELSE questions[x]
      BY <2>1, <2>2
    <2>4. ASSUME NEW x \in DOMAIN questions
          PROVE  [questions[x] EXCEPT !.status = old.status] = Asked(questions[x].parent, questions[x].text, old.status)
      BY <2>2 DEF RowShape, Asked
    <2> HIDE DEF old
    <2>5. \A x \in DOMAIN questions : questions[x] = Asked(questions[x].parent, questions[x].text, questions[x].status)
      BY <2>2 DEF RowShape
    <2> QED BY <2>3, <2>4, <2>5
  <1>4. /\ due' = [s \in Researchers |-> due'[s]]
        /\ \A s \in Researchers : due'[s] = IF old.status = "CLOSED" THEN due[s] \ {q} ELSE due[s]
    BY DEF UpdateQuestion, SweepInv, QuestionTyped
  <1> HIDE DEF old
  <1>5. t = [step |-> "journal", question |-> old.question, status |-> old.status, row |-> old.row,
             left |-> 1, closing |-> old.closing, queue |-> old.queue,
             hash |-> old.hash, read |-> old.read, real |-> old.real]
    BY <1>1, <1>2 DEF TaskShape
  <1>6. TaskShape(t)
    BY <1>5 DEF TaskShape
  <1>7. t.step = "journal" /\ t.question = q /\ t.closing = old.closing /\ t.queue = old.queue
    BY <1>5
  <1>8. Grows /\ \A x \in DOMAIN questions : RowShape(questions'[x])
    BY <1>3 DEF Grows, RowShape, Asked
  <1>9. \A s \in Researchers : task'[s] = IF s = r THEN t ELSE task[s]
    BY <1>1 DEF SweepInv, QuestionTyped
  <1>10. QuestionTyped'
    BY <1>1, <1>2, <1>3, <1>4, <1>6, <1>7, <1>8, <1>9 DEF SweepInv, QuestionTyped
  <1>11. ASSUME NEW s \in Researchers PROVE \A x \in due'[s] : questions'[x].status # "CLOSED"
    <2>1. Walk(task[s], due[s])
      BY DEF SweepInv, WalksKnow
    <2>2. \A x \in due[s] : x \in DOMAIN questions /\ questions[x].status # "CLOSED"
      BY <2>1 DEF Walk, Walking, NotWalking
    <2> QED BY <1>3, <1>4, <2>2 DEF Asked
  <1>12. ASSUME NEW s \in Researchers PROVE Walk(task[s], due[s])'
    <2>1. CASE s # r
      <3>1. Walk(task[s], due[s]) /\ task'[s] = task[s] /\ due'[s] \subseteq due[s]
        BY <1>4, <1>9, <2>1 DEF SweepInv, WalksKnow
      <3> QED BY <1>8, <1>11, <3>1, HeldWalk
    <2>2. CASE s = r /\ ~old.closing
      BY <1>2, <1>4, <1>7, <1>9, <2>2 DEF Walk, NotWalking
    <2>3. CASE s = r /\ old.closing
      <3>1. Walking(old, due[r]) /\ old.status = "CLOSED" /\ due'[r] = due[r] \ {q}
        BY <1>2, <1>4, <2>3 DEF Walk, Walking
      <3>2. Ahead(t) = Ahead(old)
        BY <1>2, <1>7 DEF Ahead
      <3>3. ASSUME NEW S \in SUBSET DOMAIN questions', Downward(S)', Ahead(t) \subseteq S
            PROVE  due'[r] \subseteq S
        <4>1. S \in SUBSET DOMAIN questions /\ Downward(S)
          BY <1>3, <3>3 DEF Asked, Downward, ChildrenOf
        <4> QED BY <3>1, <3>2, <3>3, <4>1 DEF Walking
      <3>4. task'[r] = t
        BY <1>9
      <3>5. /\ Ahead(t) \subseteq DOMAIN questions' /\ due'[r] \subseteq DOMAIN questions'
            /\ q \notin due'[r]
        BY <1>3, <3>1, <3>2 DEF Walking
      <3>6. Ahead(task[r])' = Ahead(t)
        BY <3>4 DEF Ahead
      <3>7. Walking(task[r], due[r])'
        BY <1>7, <1>11, <3>3, <3>4, <3>5, <3>6 DEF Walking
      <3> QED BY <1>7, <2>3, <3>4, <3>7 DEF Walk
    <2> QED BY <1>2, <2>1, <2>2, <2>3
  <1> QED BY <1>10, <1>12 DEF SweepInv, WalksKnow

\* An entry of the journal, of a walk or of another call.
LEMMA AppendSweeps ==
  ASSUME SweepInv, NEW r \in Researchers, AppendEntry(r)
  PROVE  SweepInv'
  <1> DEFINE old == task[r]
  <1>1. PICK t : /\ task' = [task EXCEPT ![r] = t]
                 /\ \/ t = [old EXCEPT !.left = old.left - 1]
                    \/ old.closing /\ t = [old EXCEPT !.step = "children"]
                    \/ ~old.closing /\ t = Quiet
    BY DEF AppendEntry, Become
  <1>2. TaskShape(old) /\ old.step = "journal" /\ old.closing \in BOOLEAN /\ Walk(old, due[r])
    BY DEF SweepInv, QuestionTyped, WalksKnow, AppendEntry, AtStep
  <1>3. UNCHANGED <<questions, due>>
    BY DEF AppendEntry
  <1> HIDE DEF old
  <1>4. CASE t = [old EXCEPT !.left = old.left - 1]
    <2>1. PICK left : t = [step |-> "journal", question |-> old.question, status |-> old.status, row |-> old.row,
             left |-> left, closing |-> old.closing, queue |-> old.queue,
             hash |-> old.hash, read |-> old.read, real |-> old.real]
      BY <1>2, <1>4 DEF TaskShape
    <2>2. TaskShape(t)
      BY <2>1 DEF TaskShape
    <2>3. t.step = "journal" /\ t.question = old.question /\ t.closing = old.closing /\ t.queue = old.queue
      BY <2>1
    <2>4. Walk(t, due[r])
      BY <1>2, <2>3 DEF Walk, Walking, NotWalking, Ahead
    <2> QED BY <1>1, <1>2, <1>3, <2>2, <2>3, <2>4, OneTask
  <1>5. CASE old.closing /\ t = [old EXCEPT !.step = "children"]
    <2>1. t = [step |-> "children", question |-> old.question, status |-> old.status, row |-> old.row,
               left |-> old.left, closing |-> TRUE, queue |-> old.queue,
               hash |-> old.hash, read |-> old.read, real |-> old.real]
      BY <1>2, <1>5 DEF TaskShape
    <2>2. TaskShape(t)
      BY <2>1 DEF TaskShape
    <2>3. t.step = "children" /\ t.question = old.question /\ t.closing = TRUE /\ t.queue = old.queue
      BY <2>1
    <2>4. Walk(t, due[r])
      BY <1>2, <1>5, <2>3 DEF Walk, Walking, Ahead
    <2> QED BY <1>1, <1>3, <2>2, <2>3, <2>4, OneTask
  <1>6. CASE ~old.closing /\ t = Quiet
    <2>1. due[r] = {}
      BY <1>2, <1>6 DEF Walk, NotWalking
    <2> QED BY <1>1, <1>3, <1>6, <2>1, QuietIs, RestingTask
  <1> QED BY <1>1, <1>4, <1>5, <1>6

LEMMA QuestionInit_Sweep ==
  ASSUME QuestionInit
  PROVE  SweepInv
  <1>1. PICK tree \in Trees : questions = tree.questions
    BY DEF QuestionInit
  <1>2. \A r \in Researchers : task[r] = Quiet /\ due[r] = {} /\ Resting(task[r])
    BY QuietIs DEF QuestionInit
  <1>3. /\ questions = [q \in DOMAIN questions |-> questions[q]]
        /\ \A q \in DOMAIN questions : RowShape(questions[q])
    <2>1. tree.questions = [q \in DOMAIN tree.questions |->
            Asked(tree.questions[q].parent, tree.questions[q].text, tree.questions[q].status)]
      BY TreesAssumption
    <2> QED BY <1>1, <2>1 DEF RowShape
  <1>4. QuestionTyped
    BY <1>2, <1>3 DEF QuestionTyped, QuestionInit, Resting
  <1>5. WalksKnow
    BY <1>2 DEF WalksKnow, Walk, NotWalking, Resting
  <1> QED BY <1>4, <1>5 DEF SweepInv

LEMMA QuestionNext_Sweep ==
  ASSUME SweepInv, [QuestionNext]_questionVars
  PROVE  SweepInv'
  <1>1. CASE UNCHANGED questionVars
    BY <1>1, SweepUnchanged DEF questionVars
  <1>2. CASE AlterJournal
    BY <1>2, SweepUnchanged DEF AlterJournal
  <1>3. ASSUME NEW r \in Researchers,
               \/ CreateQuestion(r) \/ InsertQuestion(r)
               \/ SetQuestionStatus(r) \/ ReopenQuestion(r) \/ UpdateQuestion(r)
               \/ CloseBranch(r) \/ Visit(r) \/ ReadChildren(r) \/ BranchClosed(r)
               \/ ReadEntries(r) \/ CheckHead(r) \/ AppendEntry(r) \/ StopResearcher(r)
        PROVE  SweepInv'
    BY <1>3, CreateSweeps, InsertSweeps, SetStatusSweeps, ReopenSweeps, UpdateSweeps, CloseSweeps, VisitSweeps,
       ChildrenSweeps, BranchClosedSweeps, ReadSweeps, CheckSweeps, AppendSweeps, StopSweeps
  <1> QED BY <1>1, <1>2, <1>3 DEF QuestionNext

(* In every reachable state all that is still due of a branch lies below    *)
(* the questions its walk has ahead, however the tree grew and whoever      *)
(* closed and reopened questions meanwhile (close_branch).                  *)
THEOREM SweepInvariant == QuestionSpec => []SweepInv
  <1> QED BY QuestionInit_Sweep, QuestionNext_Sweep, PTL DEF QuestionSpec

(* When the walk over a branch is done, every question that was open in it  *)
(* when the walk began has been closed since.                               *)
THEOREM BranchSweptHolds == QuestionSpec => []BranchSwept
  <1>1. SweepInv => BranchSwept
    <2> SUFFICES ASSUME SweepInv, NEW r \in Researchers, Swept(r) PROVE due[r] = {}
      BY DEF BranchSwept
    <2>1. Walking(task[r], due[r]) /\ Ahead(task[r]) = {}
      BY DEF SweepInv, QuestionTyped, WalksKnow, Walk, NotWalking, Swept, AtStep, Ahead
    <2>2. {} \in SUBSET DOMAIN questions /\ Downward({})
      BY DEF Downward
    <2> QED BY <2>1, <2>2 DEF Walking
  <1> QED BY <1>1, SweepInvariant, PTL
-------------------------------------------------------------------------------
(* The journal. *)

Rows == [id : Nat, previous : Seq(Nat), hash : Seq(Nat)]

\* Rows that are as many as were appended are those that were, but for ids
\* somebody changed.
JournalWhole ==
  /\ appended \in Seq(Nat) /\ appended = Ids(Len(appended))
  /\ head = [count |-> Len(appended), hash |-> head.hash]
  /\ entries \in Seq(Rows) /\ Len(entries) <= Len(appended)
  /\ Len(entries) = Len(appended) =>
       \A i \in 1..Len(entries) : entries[i].previous = Ids(i - 1) /\ entries[i].hash = Ids(i)

\* A verification that read as many rows as there were read them all.
ReadWhole(t, count) ==
  t.step = "head" =>
    \E n \in 0..count : /\ t.left \in 0..n /\ t.real = Ids(n)
                        /\ t.left = n => t.read = Ids(n)

ReadersKnow == \A r \in Researchers : ReadWhole(task[r], Len(appended))

JournalInv ==
  /\ JournalWhole /\ ReadersKnow /\ VerifiedJournalComplete
  /\ task = [r \in Researchers |-> task[r]]

LEMMA IdsAre ==
  ASSUME NEW n \in Nat
  PROVE  /\ Ids(n) \in Seq(Nat) /\ Len(Ids(n)) = n
         /\ Append(Ids(n), n + 1) = Ids(n + 1)
         /\ Ids(0) = <<>>
BY DEF Ids

\* Rows that chain, and are as many as were appended, have the ids appended.
LEMMA ChainedIds ==
  ASSUME JournalWhole, Chained, Len(entries) = Len(appended)
  PROVE  [i \in DOMAIN entries |-> entries[i].id] = appended
  <1>1. ASSUME NEW i \in 1..Len(entries) PROVE entries[i].id = i
    <2>1. entries[i] = Entry(entries[i].id, Ids(i - 1)) /\ entries[i].hash = Ids(i)
      BY DEF Chained, JournalWhole
    <2>2. Append(Ids(i - 1), entries[i].id) = Ids(i)
      BY <2>1 DEF Entry
    <2>3. Ids(i - 1) \in Seq(Nat) /\ Len(Ids(i - 1)) = i - 1
      <3>1. Len(entries) \in Nat
        BY DEF JournalWhole
      <3>2. i - 1 \in Nat
        BY <3>1
      <3> QED BY <3>2, IdsAre
    <2>4. Append(Ids(i - 1), entries[i].id)[i] = entries[i].id
      BY <2>3
    <2> QED BY <2>2, <2>4 DEF Ids
  <1>2. DOMAIN entries = 1..Len(entries)
    BY DEF JournalWhole
  <1> QED BY <1>1, <1>2 DEF JournalWhole, Ids

\* A step that leaves the journal alone and puts no verification in its middle.
LEMMA JournalStands ==
  ASSUME JournalInv, UNCHANGED journalVars, NEW r \in Researchers, NEW t,
         task' = [task EXCEPT ![r] = t], t.step # "head"
  PROVE  JournalInv'
  <1>1. \A s \in Researchers : task'[s] = IF s = r THEN t ELSE task[s]
    BY DEF JournalInv
  <1>2. JournalWhole' /\ VerifiedJournalComplete'
    BY DEF JournalInv, JournalWhole, VerifiedJournalComplete, journalVars
  <1>3. ReadersKnow'
    BY <1>1 DEF JournalInv, ReadersKnow, ReadWhole, journalVars
  <1> QED BY <1>1, <1>2, <1>3 DEF JournalInv

LEMMA AlterKeeps ==
  ASSUME JournalInv, AlterJournal
  PROVE  JournalInv'
  <1>1. UNCHANGED <<head, task, appended, vouched>>
    BY DEF AlterJournal
  <1>2. PICK i \in 1..Len(entries) : entries' \in {RemoveAt(entries, i), [entries EXCEPT ![i].id = 0]}
    BY DEF AlterJournal, JournalInv, JournalWhole
  <1>3. entries \in Seq(Rows) /\ Len(entries) \in Nat
    BY DEF JournalInv, JournalWhole
  <1>4. CASE entries' = RemoveAt(entries, i)
    <2>1. entries' \in Seq(Rows) /\ Len(entries') = Len(entries) - 1
      <3>1. RemoveAt(entries, i) = SubSeq(entries, 1, i - 1) \o SubSeq(entries, i + 1, Len(entries))
        BY DEF RemoveAt
      <3>2. SubSeq(entries, 1, i - 1) \in Seq(Rows) /\ Len(SubSeq(entries, 1, i - 1)) = i - 1
        BY <1>3
      <3>3. /\ SubSeq(entries, i + 1, Len(entries)) \in Seq(Rows)
            /\ Len(SubSeq(entries, i + 1, Len(entries))) = Len(entries) - i
        BY <1>3
      <3>4. \A a, b \in Seq(Rows) : a \o b \in Seq(Rows) /\ Len(a \o b) = Len(a) + Len(b)
        OBVIOUS
      <3>5. RemoveAt(entries, i) \in Seq(Rows) /\ Len(RemoveAt(entries, i)) = (i - 1) + (Len(entries) - i)
        BY <3>1, <3>2, <3>3, <3>4
      <3> QED BY <1>3, <1>4, <3>5
    <2> QED BY <1>1, <1>3, <2>1 DEF JournalInv, JournalWhole, ReadersKnow, ReadWhole, VerifiedJournalComplete
  <1>5. CASE entries' = [entries EXCEPT ![i].id = 0]
    <2>1. \A j \in 1..Len(entries) : entries[j] \in Rows
      BY <1>3
    <2>2. /\ entries' \in Seq(Rows) /\ Len(entries') = Len(entries)
          /\ \A j \in 1..Len(entries) : entries'[j].previous = entries[j].previous /\ entries'[j].hash = entries[j].hash
      <3>1. \A j \in 1..Len(entries) : entries'[j] = IF j = i THEN [entries[j] EXCEPT !.id = 0] ELSE entries[j]
        BY <1>3, <1>5
      <3>2. \A row \in Rows : /\ [row EXCEPT !.id = 0] \in Rows
                              /\ [row EXCEPT !.id = 0].previous = row.previous
                              /\ [row EXCEPT !.id = 0].hash = row.hash
        BY DEF Rows
      <3>3. \A j \in 1..Len(entries) : /\ entries'[j] \in Rows
              /\ entries'[j].previous = entries[j].previous /\ entries'[j].hash = entries[j].hash
        BY <2>1, <3>1, <3>2
      <3>4. entries' \in [1..Len(entries) -> Rows]
        <4>1. entries = [j \in 1..Len(entries) |-> entries[j]]
          BY <1>3
        <4>2. DOMAIN entries' = 1..Len(entries) /\ entries' = [j \in 1..Len(entries) |-> entries'[j]]
          BY <1>5, <4>1
        <4> QED BY <3>3, <4>2
      <3>5. \A q \in [1..Len(entries) -> Rows] : q \in Seq(Rows) /\ Len(q) = Len(entries)
        BY <1>3
      <3> QED BY <1>3, <3>3, <3>4, <3>5
    <2> QED BY <1>1, <2>2 DEF JournalInv, JournalWhole, ReadersKnow, ReadWhole, VerifiedJournalComplete
  <1> QED BY <1>2, <1>4, <1>5

\* An entry is appended behind the last row, whether or not rows are missing.
LEMMA AppendWhole ==
  ASSUME JournalWhole,
         entries' = Append(entries, Entry(Len(appended) + 1, LastHash)),
         appended' = Append(appended, Len(appended) + 1),
         head' = [count |-> head.count + 1, hash |-> Append(LastHash, Len(appended) + 1)]
  PROVE  JournalWhole' /\ Len(appended') = Len(appended) + 1
  <1> DEFINE n == Len(appended)
             entry == Entry(n + 1, LastHash)
             k == Len(entries)
  <1>1. n \in Nat /\ k \in Nat /\ k <= n /\ entries \in Seq(Rows)
    BY DEF JournalWhole
  <1>2. appended' \in Seq(Nat) /\ Len(appended') = n + 1 /\ appended' = Ids(n + 1)
    <2>1. appended \in Seq(Nat) /\ appended = Ids(n)
      BY DEF JournalWhole
    <2>2. Append(Ids(n), n + 1) = Ids(n + 1) /\ Ids(n + 1) \in Seq(Nat) /\ Len(Ids(n + 1)) = n + 1
      <3> HIDE DEF n
      <3>1. Append(Ids(n), n + 1) = Ids(n + 1)
        BY <1>1, IdsAre
      <3>2. n + 1 \in Nat
        BY <1>1
      <3>3. Ids(n + 1) \in Seq(Nat) /\ Len(Ids(n + 1)) = n + 1
        BY <3>2, IdsAre
      <3> QED BY <3>1, <3>3
    <2> QED BY <2>1, <2>2
  <1>3. head'.count = n + 1 /\ head' = [count |-> n + 1, hash |-> head'.hash]
    <2>1. head.count = n
      BY DEF JournalWhole
    <2> QED BY <2>1
  <1>4. LastHash \in Seq(Nat) /\ (k = n => LastHash = Ids(n))
    <2>1. CASE k = 0
      BY <1>1, <2>1, IdsAre DEF LastHash
    <2>2. CASE k # 0
      <3>1. LastHash = entries[k].hash /\ entries[k] \in Rows
        BY <1>1, <2>2 DEF LastHash, Last
      <3> QED BY <1>1, <2>2, <3>1 DEF JournalWhole, Rows
    <2> QED BY <2>1, <2>2
  <1>5. /\ entry \in Rows /\ entry.previous = LastHash /\ entry.hash = Append(LastHash, n + 1)
    <2>1. Append(LastHash, n + 1) \in Seq(Nat)
      BY <1>1, <1>4
    <2> QED BY <1>1, <1>4, <2>1 DEF Entry, Rows
  <1> HIDE DEF entry
  <1>6. /\ entries' \in Seq(Rows) /\ Len(entries') = k + 1 /\ entries'[k + 1] = entry
        /\ \A i \in 1..k : entries'[i] = entries[i]
    BY <1>1, <1>5 DEF entry
  <1>7. ASSUME k = n, NEW i \in 1..k + 1
        PROVE  entries'[i].previous = Ids(i - 1) /\ entries'[i].hash = Ids(i)
    <2>1. CASE i = n + 1
      <3>1. Append(Ids(n), n + 1) = Ids(n + 1) /\ i - 1 = n /\ LastHash = Ids(n)
        <4> HIDE DEF n, k
        <4>1. Append(Ids(n), n + 1) = Ids(n + 1)
          BY <1>1, IdsAre
        <4> QED BY <1>1, <1>4, <1>7, <2>1, <4>1
      <3> QED BY <1>5, <1>6, <1>7, <2>1, <3>1
    <2>2. CASE i # n + 1
      BY <1>1, <1>6, <1>7, <2>2 DEF JournalWhole
    <2> QED BY <2>1, <2>2
  <1>8. Len(entries') <= Len(appended') /\ (Len(entries') = Len(appended') <=> k = n)
    BY <1>1, <1>2, <1>6
  <1> QED BY <1>2, <1>3, <1>6, <1>7, <1>8 DEF JournalWhole

LEMMA AppendKeeps ==
  ASSUME SweepInv, JournalInv, NEW r \in Researchers, AppendEntry(r)
  PROVE  JournalInv'
  <1> DEFINE n == Len(appended)
             old == task[r]
  <1>1. /\ entries' = Append(entries, Entry(n + 1, LastHash)) /\ appended' = Append(appended, n + 1)
        /\ head' = [count |-> head.count + 1, hash |-> Append(LastHash, n + 1)] /\ vouched' = vouched
    BY DEF AppendEntry, Entry
  <1>2. PICK t : /\ task' = [task EXCEPT ![r] = t]
                 /\ t = Quiet \/ t = [old EXCEPT !.left = old.left - 1] \/ t = [old EXCEPT !.step = "children"]
    BY DEF AppendEntry, Become
  <1>3. TaskShape(old) /\ old.step = "journal"
    BY DEF SweepInv, QuestionTyped, AppendEntry, AtStep
  <1> HIDE DEF old
  <1>4. t.step # "head"
    <2>1. CASE t = Quiet
      <3>1. Quiet.step = "idle"
        BY DEF Quiet
      <3> QED BY <2>1, <3>1
    <2>2. CASE t = [old EXCEPT !.left = old.left - 1]
      BY <1>3, <2>2 DEF TaskShape
    <2>3. CASE t = [old EXCEPT !.step = "children"]
      BY <1>3, <2>3 DEF TaskShape
    <2> QED BY <1>2, <2>1, <2>2, <2>3
  <1>5. \A s \in Researchers : task'[s] = IF s = r THEN t ELSE task[s]
    BY <1>2 DEF JournalInv
  <1>6. JournalWhole' /\ Len(appended') = n + 1 /\ n \in Nat
    <2>1. JournalWhole /\ n \in Nat
      BY DEF JournalInv, JournalWhole
    <2> QED BY <1>1, <2>1, AppendWhole
  <1>7. ReadersKnow'
    <2> SUFFICES ASSUME NEW s \in Researchers PROVE ReadWhole(task'[s], Len(appended'))
      BY DEF ReadersKnow, ReadWhole
    <2>1. CASE s = r
      BY <1>4, <1>5, <2>1 DEF ReadWhole
    <2>2. CASE s # r
      BY <1>5, <1>6, <2>2 DEF ReadWhole, JournalInv, ReadersKnow
    <2> QED BY <2>1, <2>2
  <1>8. VerifiedJournalComplete'
    BY <1>1 DEF JournalInv, VerifiedJournalComplete
  <1>9. task' = [s \in Researchers |-> task'[s]]
    BY <1>2 DEF JournalInv
  <1> QED BY <1>6, <1>7, <1>8, <1>9 DEF JournalInv
\* The steps of the questions.
LEMMA QuestionKeeps ==
  ASSUME SweepInv, JournalInv, NEW r \in Researchers,
         \/ CreateQuestion(r) \/ InsertQuestion(r)
         \/ SetQuestionStatus(r) \/ ReopenQuestion(r) \/ UpdateQuestion(r)
         \/ CloseBranch(r) \/ Visit(r) \/ ReadChildren(r) \/ BranchClosed(r) \/ StopResearcher(r)
  PROVE  JournalInv'
  <1> DEFINE old == task[r]
  <1>1. UNCHANGED journalVars
    BY DEF CreateQuestion, InsertQuestion, SetQuestionStatus, ReopenQuestion, UpdateQuestion, CloseBranch, Visit,
       ReadChildren, BranchClosed, StopResearcher
  <1>2. TaskShape(old)
    BY DEF SweepInv, QuestionTyped
  <1>3. ASSUME NEW t, task' = [task EXCEPT ![r] = t], t.step # "head" PROVE JournalInv'
    BY <1>1, <1>3, JournalStands
  <1>4. CASE CreateQuestion(r)
    <2>1. PICK q, row, left, t :
            /\ BeginCall(r, t) /\ RowShape(row)
            /\ t = JournalTask(1) \/ t = InsertTask(q, row, left)
      BY <1>4 DEF CreateQuestion, RowShape, Asked, JournalTask, InsertTask
    <2>2. t.step # "head"
      BY <2>1, JournalTaskIs, InsertTaskIs
    <2> QED BY <1>3, <2>1, <2>2 DEF BeginCall, Become
  <1>5. CASE InsertQuestion(r)
    <2>1. PICK left, t : task' = [task EXCEPT ![r] = t] /\ (t = Quiet \/ t = JournalTask(left))
      BY <1>5 DEF InsertQuestion, Become, JournalTask
    <2>2. t.step # "head"
      BY <2>1, QuietIs, JournalTaskIs
    <2> QED BY <1>3, <2>1, <2>2
  <1>6. CASE SetQuestionStatus(r) \/ ReopenQuestion(r)
    <2>1. PICK q, status, t : task' = [task EXCEPT ![r] = t] /\ (t = UpdateTask(q, status) \/ t = ReopenTask(q))
      BY <1>6 DEF SetQuestionStatus, ReopenQuestion, BeginCall, Become, UpdateTask, ReopenTask
    <2>2. t.step # "head"
      BY <2>1, UpdateTaskIs, ReopenTaskIs
    <2> QED BY <1>3, <2>1, <2>2
  <1>7. CASE UpdateQuestion(r)
    <2>1. PICK t : task' = [task EXCEPT ![r] = t] /\ t = [old EXCEPT !.step = "journal", !.left = 1]
      BY <1>7 DEF UpdateQuestion, Become
    <2> HIDE DEF old
    <2>2. t.step = "journal"
      BY <1>2, <2>1 DEF TaskShape
    <2> QED BY <1>3, <2>1, <2>2
  <1>8. CASE CloseBranch(r)
    <2>1. PICK q, t : /\ task' = [task EXCEPT ![r] = t]
                      /\ t = [Quiet EXCEPT !.step = "visit", !.closing = TRUE, !.queue = {q}]
      BY <1>8 DEF CloseBranch, BeginCall, Become
    <2>2. t.step = "visit"
      BY <2>1 DEF Quiet
    <2> QED BY <1>3, <2>1, <2>2
  <1>9. CASE Visit(r)
    <2>1. PICK q, step, t :
            /\ task' = [task EXCEPT ![r] = t] /\ step \in {"children", "update"}
            /\ t = [old EXCEPT !.queue = @ \ {q}, !.question = q, !.status = "CLOSED", !.step = step]
      BY <1>9 DEF Visit, Become
    <2> HIDE DEF old
    <2>2. t.step = step
      BY <1>2, <2>1 DEF TaskShape
    <2> QED BY <1>3, <2>1, <2>2
  <1>10. CASE ReadChildren(r)
    <2>1. PICK queue, t : task' = [task EXCEPT ![r] = t] /\ t = [old EXCEPT !.queue = queue, !.step = "visit"]
      BY <1>10 DEF ReadChildren, Become
    <2> HIDE DEF old
    <2>2. t.step = "visit"
      BY <1>2, <2>1 DEF TaskShape
    <2> QED BY <1>3, <2>1, <2>2
  <1>11. CASE BranchClosed(r) \/ StopResearcher(r)
    <2>1. PICK t : task' = [task EXCEPT ![r] = t] /\ (t = Quiet \/ t = JournalTask(1))
      BY <1>11 DEF BranchClosed, StopResearcher, Become, JournalTask
    <2>2. t.step # "head"
      BY <2>1, QuietIs, JournalTaskIs
    <2> QED BY <1>3, <2>1, <2>2
  <1> QED BY <1>4, <1>5, <1>6, <1>7, <1>8, <1>9, <1>10, <1>11

\* The rows are read: they chain, and are no more than were appended.
LEMMA ReadKeeps ==
  ASSUME JournalInv, NEW r \in Researchers, ReadEntries(r)
  PROVE  JournalInv'
  <1> DEFINE n == Len(appended)
             ids == [i \in DOMAIN entries |-> entries[i].id]
  <1>1. PICK t : /\ task' = [task EXCEPT ![r] = t]
                 /\ t = HeadTask(Len(entries), LastHash, ids, appended)
    BY DEF ReadEntries, BeginCall, Become, HeadTask
  <1>2. t.left = Len(entries) /\ t.read = ids /\ t.real = appended
    <2> HIDE DEF ids
    <2>1. t = [step |-> "head", question |-> NoParent, status |-> "OPEN", row |-> NoParent, left |-> Len(entries),
               closing |-> FALSE, queue |-> {}, hash |-> LastHash, read |-> ids, real |-> appended]
      BY <1>1 DEF Quiet, HeadTask
    <2> QED BY <2>1
  <1>3. ReadWhole(t, n)
    <2>1. n \in Nat /\ Len(entries) \in 0..n /\ appended = Ids(n)
      BY DEF JournalInv, JournalWhole
    <2>2. Len(entries) = n => ids = appended
      BY ChainedIds DEF JournalInv, ReadEntries
    <2> HIDE DEF ids
    <2> QED BY <1>2, <2>1, <2>2 DEF ReadWhole
  <1>4. \A s \in Researchers : task'[s] = IF s = r THEN t ELSE task[s]
    BY <1>1 DEF JournalInv
  <1>5. UNCHANGED journalVars
    BY DEF ReadEntries
  <1>6. JournalWhole' /\ VerifiedJournalComplete'
    BY <1>5 DEF JournalInv, JournalWhole, VerifiedJournalComplete, journalVars
  <1>7. task' = [s \in Researchers |-> task'[s]]
    BY <1>1 DEF JournalInv
  <1>8. ReadersKnow'
    <2> SUFFICES ASSUME NEW s \in Researchers PROVE ReadWhole(task'[s], Len(appended'))
      BY DEF ReadersKnow, ReadWhole
    <2>1. ReadWhole(task[s], n) /\ appended' = appended
      BY <1>5 DEF JournalInv, ReadersKnow, journalVars
    <2> QED BY <1>3, <1>4, <2>1
  <1> QED BY <1>6, <1>7, <1>8 DEF JournalInv

\* The head counts all that was appended: the rows read were no fewer.
LEMMA CheckKeeps ==
  ASSUME JournalInv, NEW r \in Researchers, CheckHead(r)
  PROVE  JournalInv'
  <1> DEFINE old == task[r]
  <1>1. UNCHANGED <<entries, head, appended>> /\ task' = [task EXCEPT ![r] = Quiet]
    BY DEF CheckHead, Become
  <1>2. Quiet.step = "idle"
    BY DEF Quiet
  <1>3. \A s \in Researchers : task'[s] = IF s = r THEN Quiet ELSE task[s]
    BY <1>1 DEF JournalInv
  <1>4. JournalWhole'
    BY <1>1 DEF JournalInv, JournalWhole
  <1>5. ReadersKnow'
    BY <1>1, <1>2, <1>3 DEF JournalInv, ReadersKnow, ReadWhole
  <1>6. VerifiedJournalComplete'
    <2>1. CASE head = [count |-> old.left, hash |-> old.hash]
      <3>1. PICK n \in 0..Len(appended) : /\ old.left \in 0..n /\ old.real = Ids(n)
                                          /\ old.left = n => old.read = Ids(n)
        BY DEF CheckHead, AtStep, JournalInv, ReadersKnow, ReadWhole
      <3>2. old.left = Len(appended) /\ Len(appended) \in Nat
        <4>1. head.count = Len(appended) /\ Len(appended) \in Nat
          BY DEF JournalInv, JournalWhole
        <4> QED BY <2>1, <4>1
      <3>3. old.read = old.real
        BY <3>1, <3>2
      <3>4. vouched' = [read |-> old.read, real |-> old.real]
        BY <2>1 DEF CheckHead
      <3> QED BY <3>3, <3>4 DEF VerifiedJournalComplete
    <2>2. CASE head # [count |-> old.left, hash |-> old.hash]
      BY <2>2 DEF CheckHead, JournalInv, VerifiedJournalComplete
    <2> QED BY <2>1, <2>2
  <1>7. task' = [s \in Researchers |-> task'[s]]
    BY <1>1 DEF JournalInv
  <1> QED BY <1>4, <1>5, <1>6, <1>7 DEF JournalInv

LEMMA QuestionInit_Journal ==
  ASSUME QuestionInit
  PROVE  JournalInv
  <1>1. PICK tree \in Trees :
          /\ appended = Ids(tree.entries)
          /\ entries = [i \in 1..tree.entries |-> Entry(i, Ids(i - 1))]
          /\ head = [count |-> tree.entries, hash |-> Ids(tree.entries)]
    BY DEF QuestionInit
  <1> DEFINE n == tree.entries
  <1>2. n \in Nat
    BY TreesAssumption
  <1> HIDE DEF n
  <1>3. ASSUME NEW i \in 1..n
        PROVE  /\ Entry(i, Ids(i - 1)) \in Rows
               /\ Entry(i, Ids(i - 1)).previous = Ids(i - 1) /\ Entry(i, Ids(i - 1)).hash = Ids(i)
    <2>1. i - 1 \in Nat /\ i \in Nat /\ (i - 1) + 1 = i
      BY <1>2
    <2>2. Ids(i - 1) \in Seq(Nat) /\ Append(Ids(i - 1), (i - 1) + 1) = Ids((i - 1) + 1)
      BY <2>1, IdsAre
    <2>3. Ids(i) \in Seq(Nat)
      BY <2>1, IdsAre
    <2> QED BY <2>1, <2>2, <2>3 DEF Entry, Rows
  <1>4. /\ entries \in Seq(Rows) /\ Len(entries) = n
        /\ \A i \in 1..n : entries[i].previous = Ids(i - 1) /\ entries[i].hash = Ids(i)
    <2>1. entries \in [1..n -> Rows] /\ \A i \in 1..n : entries[i] = Entry(i, Ids(i - 1))
      BY <1>1, <1>3 DEF n
    <2>2. \A q \in [1..n -> Rows] : q \in Seq(Rows) /\ Len(q) = n
      BY <1>2
    <2> QED BY <1>3, <2>1, <2>2
  <1>5. appended = Ids(n) /\ appended \in Seq(Nat) /\ Len(appended) = n
    BY <1>1, <1>2, IdsAre DEF n
  <1>6. JournalWhole
    <2>1. head = [count |-> n, hash |-> Ids(n)]
      BY <1>1 DEF n
    <2>2. head = [count |-> Len(appended), hash |-> head.hash]
      BY <1>5, <2>1
    <2> QED BY <1>2, <1>4, <1>5, <2>2 DEF JournalWhole
  <1>7. ReadersKnow
    BY DEF QuestionInit, ReadersKnow, ReadWhole, Quiet
  <1> QED BY <1>6, <1>7 DEF JournalInv, QuestionInit, VerifiedJournalComplete

LEMMA QuestionNext_Journal ==
  ASSUME SweepInv, JournalInv, [QuestionNext]_questionVars
  PROVE  JournalInv'
  <1>1. CASE UNCHANGED questionVars
    BY <1>1 DEF questionVars, JournalInv, JournalWhole, ReadersKnow, ReadWhole, VerifiedJournalComplete
  <1>2. CASE AlterJournal
    BY <1>2, AlterKeeps
  <1>3. ASSUME NEW r \in Researchers,
               \/ CreateQuestion(r) \/ InsertQuestion(r)
               \/ SetQuestionStatus(r) \/ ReopenQuestion(r) \/ UpdateQuestion(r)
               \/ CloseBranch(r) \/ Visit(r) \/ ReadChildren(r) \/ BranchClosed(r)
               \/ ReadEntries(r) \/ CheckHead(r) \/ AppendEntry(r) \/ StopResearcher(r)
        PROVE  JournalInv'
    BY <1>3, QuestionKeeps, ReadKeeps, CheckKeeps, AppendKeeps
  <1> QED BY <1>1, <1>2, <1>3 DEF QuestionNext

(* In every reachable state the rows are no more than what was appended, as *)
(* many only if they are those rows but for ids, and a verification that is *)
(* under way read no more than there were (verify_journal_integrity).       *)
THEOREM JournalInvariant == QuestionSpec => []JournalInv
  <1> QED BY QuestionInit_Journal, QuestionNext_Journal, SweepInvariant, PTL DEF QuestionSpec

(* A journal that was found valid had every entry that was ever appended    *)
(* when its rows were read, unchanged and in order.                         *)
THEOREM VerifiedJournalCompleteHolds == QuestionSpec => []VerifiedJournalComplete
  <1>1. JournalInv => VerifiedJournalComplete
    BY DEF JournalInv
  <1> QED BY <1>1, JournalInvariant, PTL
=================================================================================
