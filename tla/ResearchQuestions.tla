--------------------------- MODULE ResearchQuestions ---------------------------
(***************************************************************************)
(* The tree of research questions (control/service.py, research/registry.py) *)
(* and the hash-chained journal that every call of the registry appends to.  *)
(*                                                                           *)
(* Researchers are processes.  A call is a sequence of transactions, and     *)
(* others work, or the process stops, between any two.  Each call ends with   *)
(* its journal entries.  The rows of question_status_history are written with *)
(* the status and read by nobody; they are left out.                          *)
(***************************************************************************)
EXTENDS Naturals, SequencesExt, TLC

CONSTANTS
  Researchers,
  Questions, Texts, NoParent,
  QuestionStatuses,
  Trees,       \* what was asked before: [questions, entries]
  MaxQuestionCalls, MaxQuestionStops, MaxAlterations   \* bounds

\* A row of research_questions.
Asked(parent, text, status) == [parent |-> parent, text |-> text, status |-> status]

ASSUME TreesAssumption ==
  \A tree \in Trees :
    /\ tree.entries \in Nat
    /\ tree.questions = [q \in DOMAIN tree.questions |->
         Asked(tree.questions[q].parent, tree.questions[q].text, tree.questions[q].status)]

VARIABLES
  questions,   \* question -> [parent, text, status]
  entries,     \* rows of research_journal: [id, previous, hash]
  head,        \* research_journal_head: [count, hash]
  task,        \* researcher -> the call it is in
  due,         \* history: researcher -> open questions of the branch it closes
  appended,    \* history: the ids of all entries, in order
  vouched,     \* history: the last journal that was verified: [read, real]
  counts       \* [calls, stops, alterations]

questionVars == <<questions, entries, head, task, due, appended, vouched, counts>>
journalVars == <<entries, head, appended, vouched>>

Quiet == [step |-> "idle", question |-> NoParent, status |-> "OPEN", row |-> NoParent,
          left |-> 0, closing |-> FALSE, queue |-> {}, hash |-> <<>>, read |-> <<>>, real |-> <<>>]

(* The journal. *)

\* A hash stands for all it covers: the id of its entry and the hash before
\* it, hence the ids of a whole prefix.
Entry(id, previous) == [id |-> id, previous |-> previous, hash |-> Append(previous, id)]

Ids(n) == [i \in 1..n |-> i]

QuestionInit ==
  /\ \E tree \in Trees :
       /\ questions = tree.questions
       /\ appended = Ids(tree.entries)
       /\ entries = [i \in 1..tree.entries |-> Entry(i, Ids(i - 1))]
       /\ head = [count |-> tree.entries, hash |-> Ids(tree.entries)]
  /\ vouched = [read |-> <<>>, real |-> <<>>]
  /\ task = [r \in Researchers |-> Quiet]
  /\ due = [r \in Researchers |-> {}]
  /\ counts = [calls |-> 0, stops |-> 0, alterations |-> 0]

AtStep(r, step) == task[r].step = step
Become(r, t) == task' = [task EXCEPT ![r] = t]

BeginCall(r, t) ==
  /\ AtStep(r, "idle") /\ counts.calls < MaxQuestionCalls
  /\ Become(r, t)
  /\ counts' = [counts EXCEPT !.calls = @ + 1]

LastHash == IF entries = <<>> THEN <<>> ELSE Last(entries).hash

\* One transaction, which locks the database first.
AppendEntry(r) ==
  /\ AtStep(r, "journal")
  /\ LET id    == Len(appended) + 1
         entry == Entry(id, LastHash)
     IN  /\ entries' = Append(entries, entry)
         /\ head' = [count |-> head.count + 1, hash |-> entry.hash]
         /\ appended' = Append(appended, id)
  /\ Become(r, IF task[r].left > 1 THEN [task[r] EXCEPT !.left = @ - 1]
               ELSE IF task[r].closing THEN [task[r] EXCEPT !.step = "children"] ELSE Quiet)
  /\ UNCHANGED <<questions, due, vouched, counts>>

Chained == \A i \in DOMAIN entries :
  /\ entries[i].previous = (IF i = 1 THEN <<>> ELSE entries[i - 1].hash)
  /\ entries[i] = Entry(entries[i].id, entries[i].previous)

\* The rows are read in one transaction and checked, the head in another.
ReadEntries(r) ==
  /\ Chained
  /\ BeginCall(r, [Quiet EXCEPT !.step = "head", !.left = Len(entries), !.hash = LastHash,
                               !.read = [i \in DOMAIN entries |-> entries[i].id], !.real = appended])
  /\ UNCHANGED <<questions, due, journalVars>>

CheckHeadMutant(r) ==   \* the head is not compared
  /\ AtStep(r, "head")
  /\ vouched' = [read |-> task[r].read, real |-> task[r].real]
  /\ Become(r, Quiet)
  /\ UNCHANGED <<questions, due, entries, head, appended, counts>>

CheckHead(r) ==
  /\ AtStep(r, "head")
  /\ vouched' = IF head = [count |-> task[r].left, hash |-> task[r].hash]
                THEN [read |-> task[r].read, real |-> task[r].real] ELSE vouched
  /\ Become(r, Quiet)
  /\ UNCHANGED <<questions, due, entries, head, appended, counts>>

\* A row is deleted or changed outside the program.
AlterJournal ==
  /\ counts.alterations < MaxAlterations
  /\ \E i \in DOMAIN entries :
       entries' \in {RemoveAt(entries, i), [entries EXCEPT ![i].id = 0]}
  /\ counts' = [counts EXCEPT !.alterations = @ + 1]
  /\ UNCHANGED <<questions, head, task, due, appended, vouched>>

-------------------------------------------------------------------------------
(* Questions. *)

Settled == {"CLOSED", "ANSWERED", "REJECTED"}

Alike(text) == {q \in DOMAIN questions : questions[q].text = text}
ChildrenOf(q) == {c \in DOMAIN questions : questions[c].parent = q}

\* A controlled question has a parent and looks for the same text first: a
\* settled one is journaled and refused, any other only refused.  The registry
\* itself takes roots, and children without that.
CreateQuestion(r) ==
  /\ \E q \in Questions, text \in Texts, parent \in DOMAIN questions \cup {NoParent}, controlled \in BOOLEAN :
       LET row == Asked(parent, text, "OPEN")
           refused == controlled /\ Alike(text) # {}
       IN  /\ controlled => parent # NoParent
           /\ refused => \E other \in Alike(text) : questions[other].status \in Settled
           /\ BeginCall(r, IF refused THEN [Quiet EXCEPT !.step = "journal", !.left = 1]
                         ELSE [Quiet EXCEPT !.step = "insert", !.question = q, !.row = row,
                                           !.left = IF controlled THEN 2 ELSE 1])
  /\ UNCHANGED <<questions, due, journalVars>>

\* The key of the table refuses an id that is taken.
InsertQuestion(r) ==
  /\ AtStep(r, "insert")
  /\ IF task[r].question \in DOMAIN questions THEN UNCHANGED questions /\ Become(r, Quiet)
     ELSE /\ questions' = [q \in DOMAIN questions \cup {task[r].question} |->
                            IF q \in DOMAIN questions THEN questions[q] ELSE task[r].row]
          /\ Become(r, [Quiet EXCEPT !.step = "journal", !.left = task[r].left])
  /\ UNCHANGED <<due, journalVars, counts>>

SetQuestionStatus(r) ==
  /\ \E q \in DOMAIN questions, status \in QuestionStatuses :
       /\ questions[q].status = "CLOSED" => status = "CLOSED"
       /\ BeginCall(r, [Quiet EXCEPT !.step = "update", !.question = q, !.status = status])
  /\ UNCHANGED <<questions, due, journalVars>>

ReopenQuestion(r) ==
  /\ \E q \in DOMAIN questions :
       /\ questions[q].status = "CLOSED"
       /\ BeginCall(r, [Quiet EXCEPT !.step = "update", !.question = q])
  /\ UNCHANGED <<questions, due, journalVars>>

\* The record that was read is written back with the new status.
UpdateQuestion(r) ==
  /\ AtStep(r, "update")
  /\ LET q == task[r].question
     IN  /\ questions' = [questions EXCEPT ![q].status = task[r].status]
         /\ due' = IF task[r].status = "CLOSED" THEN [s \in Researchers |-> due[s] \ {q}] ELSE due
  /\ Become(r, [task[r] EXCEPT !.step = "journal", !.left = 1])
  /\ UNCHANGED <<journalVars, counts>>

\* A set that holds, with a question, those below it; the least one with q.
Downward(S) == \A q \in S : ChildrenOf(q) \subseteq S
Descendants(q) ==
  {d \in DOMAIN questions : \A S \in SUBSET DOMAIN questions : q \in S /\ Downward(S) => d \in S}

\* Closing a branch walks its tree, one question after the other, in any order.
CloseBranch(r) ==
  /\ \E q \in DOMAIN questions :
       /\ BeginCall(r, [Quiet EXCEPT !.step = "visit", !.closing = TRUE, !.queue = {q}])
       /\ due' = [due EXCEPT ![r] = {d \in Descendants(q) : questions[d].status # "CLOSED"}]
  /\ UNCHANGED <<questions, journalVars>>

\* A closed question is left as it is (the second read of the others, by
\* set_question_status, refuses nothing); its children are visited too.
VisitMutant(r) ==   \* ... are not
  /\ AtStep(r, "visit") /\ task[r].queue # {}
  /\ \E q \in task[r].queue :
       LET t == [task[r] EXCEPT !.queue = @ \ {q}, !.question = q, !.status = "CLOSED"]
       IN  Become(r, IF questions[q].status = "CLOSED" THEN t ELSE [t EXCEPT !.step = "update"])
  /\ UNCHANGED <<questions, due, journalVars, counts>>

Visit(r) ==
  /\ AtStep(r, "visit") /\ task[r].queue # {}
  /\ \E q \in task[r].queue :
       Become(r, [task[r] EXCEPT !.queue = @ \ {q}, !.question = q, !.status = "CLOSED",
                    !.step = IF questions[q].status = "CLOSED" THEN "children" ELSE "update"])
  /\ UNCHANGED <<questions, due, journalVars, counts>>

ReadChildren(r) ==
  /\ AtStep(r, "children")
  /\ Become(r, [task[r] EXCEPT !.queue = @ \cup ChildrenOf(task[r].question), !.step = "visit"])
  /\ UNCHANGED <<questions, due, journalVars, counts>>

Swept(r) == AtStep(r, "visit") /\ task[r].queue = {}

BranchClosed(r) ==
  /\ Swept(r)
  /\ Become(r, [Quiet EXCEPT !.step = "journal", !.left = 1])
  /\ due' = [due EXCEPT ![r] = {}]
  /\ UNCHANGED <<questions, journalVars, counts>>

StopResearcher(r) ==
  /\ ~AtStep(r, "idle") /\ counts.stops < MaxQuestionStops
  /\ Become(r, Quiet)
  /\ due' = [due EXCEPT ![r] = {}]
  /\ counts' = [counts EXCEPT !.stops = @ + 1]
  /\ UNCHANGED <<questions, journalVars>>

QuestionNext ==
  \/ AlterJournal
  \/ \E r \in Researchers :
       \/ CreateQuestion(r) \/ InsertQuestion(r)
       \/ SetQuestionStatus(r) \/ ReopenQuestion(r) \/ UpdateQuestion(r)
       \/ CloseBranch(r) \/ Visit(r) \/ ReadChildren(r) \/ BranchClosed(r)
       \/ ReadEntries(r) \/ CheckHead(r) \/ AppendEntry(r) \/ StopResearcher(r)

QuestionSpec == QuestionInit /\ [][QuestionNext]_questionVars

-------------------------------------------------------------------------------
(* Properties *)

(* When the walk over a branch is done, every question that was open in it   *)
(* when the walk began has been closed since, by it or by another, although  *)
(* questions are added, closed and reopened meanwhile, also below questions  *)
(* that were closed before (close_branch).                                   *)
BranchSwept == \A r \in Researchers : Swept(r) => due[r] = {}

(* A journal that was found valid had, when its rows were read, every entry  *)
(* that was ever appended, unchanged and in order, whoever appended more     *)
(* between the two reads of a verification: the journal is "append-only and  *)
(* tamper-evident" (RESEARCH_RULES.md:23, verify_journal_integrity).         *)
VerifiedJournalComplete == vouched.read = vouched.real
===============================================================================
