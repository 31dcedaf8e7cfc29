-------------------------- MODULE IngestionProofs --------------------------
(***************************************************************************)
(* Theorems about Ingestion for any deliveries, commits and keys.          *)
(***************************************************************************)
EXTENDS Ingestion, TLAPS

USE IngestionAssumption

\* Each step of a handler keeps the types.
LEMMA IngestionTypeStep == TypeOK /\ [Next]_vars => TypeOK'
  <1> SUFFICES ASSUME TypeOK, [Next]_vars PROVE TypeOK'
    OBVIOUS
  <1> USE DEF TypeOK, Answers, Kinds, Goto, Reply, Keep, store
  <1>1. ASSUME NEW d \in Delivery, Deliver(d) PROVE TypeOK'
    BY <1>1 DEF Deliver
  <1>2. ASSUME NEW d \in Delivery, Filter(d) \/ UpsertRepository(d) \/ LogAndReply(d)
        PROVE  TypeOK'
    BY <1>2 DEF Filter, UpsertRepository, LogAndReply
  <1>3. ASSUME NEW d \in Delivery, Claim(d) PROVE TypeOK'
    BY <1>3 DEF Claim
  <1>4. ASSUME NEW d \in Delivery, CreateAnalysisRun(d) PROVE TypeOK'
    BY <1>4 DEF CreateAnalysisRun
  <1>5. ASSUME NEW d \in Delivery, Enqueue(d) PROVE TypeOK'
    BY <1>5 DEF Enqueue
  <1>6. ASSUME NEW d \in Delivery, HandlerFails(d) PROVE TypeOK'
    BY <1>6 DEF HandlerFails
  <1>7. ASSUME NEW k \in Key, KeyExpires(k) PROVE TypeOK'
    BY <1>7 DEF KeyExpires
  <1>8. CASE UNCHANGED vars
    BY <1>8 DEF vars
  <1>9. QED
    BY <1>1, <1>2, <1>3, <1>4, <1>5, <1>6, <1>7, <1>8 DEF Next, HandleWebhook

\* The variables of the webhook endpoint keep their types.
THEOREM IngestionTypeOK == Spec => []TypeOK
  <1>1. Init => TypeOK
    BY DEF Init, TypeOK, Answers
  <1>2. QED
    BY <1>1, IngestionTypeStep, PTL DEF Spec

-----------------------------------------------------------------------------
\* At most one handler is about to publish a commit, and only while nothing is
\* published for it: the unique constraint makes the insert that right.
OnePublisher ==
    /\ \A c \in Commit : queue[c] > 0 => run[c] = "pending"
    /\ \A d \in Delivery : hook[d] = "created" =>
          run[CommitOf[d]] = "pending" /\ queue[CommitOf[d]] = 0
    /\ \A d, e \in Delivery :
          hook[d] = "created" /\ hook[e] = "created" /\ CommitOf[d] = CommitOf[e] => d = e
    /\ QueuedOnce

\* Only the handler that inserted a commit's row comes to publish it.
LEMMA OnePublisherStep ==
  ASSUME TypeOK, OnePublisher, [Next]_vars
  PROVE  OnePublisher'
  <1> USE DEF TypeOK, OnePublisher, QueuedOnce
  <1>1. ASSUME NEW d \in Delivery, NEW at \in {"out", "received", "claimed", "stored", "queued", "seen"},
               Goto(d, at), UNCHANGED <<run, queue>>
        PROVE  OnePublisher'
    BY <1>1 DEF Goto
  <1>2. ASSUME NEW d \in Delivery, CreateAnalysisRun(d) PROVE OnePublisher'
    <2>1. CASE UNCHANGED run
      BY <1>1, <1>2, <2>1 DEF CreateAnalysisRun
    <2>2. CASE /\ run[CommitOf[d]] = "none" /\ Goto(d, "created")
               /\ run' = [run EXCEPT ![CommitOf[d]] = "pending"]
      <3>1. queue[CommitOf[d]] = 0
        BY <2>2
      <3>2. \A e \in Delivery : hook[e] = "created" => CommitOf[e] # CommitOf[d]
        BY <2>2
      <3>3. queue' = queue
        BY <1>2 DEF CreateAnalysisRun
      <3>4. QED
        BY <2>2, <3>1, <3>2, <3>3 DEF Goto
    <2>3. QED
      BY <1>2, <2>1, <2>2 DEF CreateAnalysisRun
  <1>3. ASSUME NEW d \in Delivery, Enqueue(d) PROVE OnePublisher'
    <2>1. /\ queue' = [queue EXCEPT ![CommitOf[d]] = queue[CommitOf[d]] + 1]
          /\ queue[CommitOf[d]] = 0 /\ run[CommitOf[d]] = "pending" /\ run' = run
          /\ Goto(d, "queued")
      BY <1>3 DEF Enqueue
    <2>2. \A e \in Delivery : hook'[e] = "created" => CommitOf[e] # CommitOf[d]
      BY <1>3, <2>1 DEF Enqueue, Goto
    <2>3. \A c \in Commit : queue'[c] = IF c = CommitOf[d] THEN 1 ELSE queue[c]
      BY <2>1
    <2>4. QED
      BY <2>1, <2>2, <2>3 DEF Goto
  <1>4. ASSUME NEW d \in Delivery,
               Deliver(d) \/ Filter(d) \/ Claim(d) \/ UpsertRepository(d) \/ LogAndReply(d)
                 \/ HandlerFails(d)
        PROVE  OnePublisher'
    BY <1>1, <1>4 DEF Deliver, Filter, Claim, UpsertRepository, LogAndReply, HandlerFails,
                      Reply, store
  <1>5. CASE (\E k \in Key : KeyExpires(k)) \/ UNCHANGED vars
    BY <1>5 DEF KeyExpires, vars
  <1>6. QED
    BY <1>2, <1>3, <1>4, <1>5 DEF Next, HandleWebhook

\* No commit is published for analysis twice: for any number of concurrent and
\* repeated deliveries, colliding or expired Redis keys and any failure.
THEOREM IngestionQueuedOnce == Spec => []QueuedOnce
  <1>1. Init => OnePublisher
    BY DEF Init, OnePublisher, QueuedOnce
  <1>2. TypeOK /\ OnePublisher /\ [Next]_vars => OnePublisher'
    BY OnePublisherStep
  <1>3. OnePublisher => QueuedOnce
    BY DEF OnePublisher
  <1>4. QED
    BY <1>1, <1>2, <1>3, IngestionTypeOK, PTL DEF Spec

-----------------------------------------------------------------------------
\* What a handler's place and answer say about its delivery.
Handled ==
    \A d \in Delivery :
       /\ hook[d] # "out" => attempts[d] > 0
       /\ answer[d] = "error" => attempts[d] > 0
       /\ answer[d] = "error" /\ hook[d] # "out" => attempts[d] > 1
       /\ hook[d] \in {"claimed", "stored", "created", "queued", "seen"} => KindOf[d] = "pr"

\* Every step keeps how far the handlers have come in line with their answers.
LEMMA HandledStep == TypeOK /\ Handled /\ [Next]_vars => Handled'
  <1> SUFFICES ASSUME TypeOK, Handled, [Next]_vars PROVE Handled'
    OBVIOUS
  <1> USE DEF TypeOK, Handled, Goto, Reply, Keep, store
  <1>1. ASSUME NEW d \in Delivery, Deliver(d) PROVE Handled'
    BY <1>1 DEF Deliver
  <1>2. ASSUME NEW d \in Delivery, Filter(d) PROVE Handled'
    BY <1>2 DEF Filter
  <1>3. ASSUME NEW d \in Delivery, Claim(d) PROVE Handled'
    BY <1>3 DEF Claim
  <1>4. ASSUME NEW d \in Delivery, UpsertRepository(d) \/ CreateAnalysisRun(d) \/ Enqueue(d)
        PROVE  Handled'
    BY <1>4 DEF UpsertRepository, CreateAnalysisRun, Enqueue
  <1>5. ASSUME NEW d \in Delivery, LogAndReply(d) PROVE Handled'
    BY <1>5 DEF LogAndReply
  <1>6. ASSUME NEW d \in Delivery, HandlerFails(d) PROVE Handled'
    <2>1. attempts[d] > 0
      BY <1>6 DEF HandlerFails
    <2>2. QED
      BY <1>6, <2>1 DEF HandlerFails
  <1>7. CASE (\E k \in Key : KeyExpires(k)) \/ UNCHANGED vars
    BY <1>7 DEF KeyExpires, vars
  <1>8. QED
    BY <1>1, <1>2, <1>3, <1>4, <1>5, <1>6, <1>7 DEF Next, HandleWebhook

\* A failure is never forgotten, and counters do not fall.
LEMMA FailureKept ==
  ASSUME TypeOK, Handled, [Next]_vars
  PROVE  /\ \A d \in Delivery : Failed(d) => Failed(d)'
         /\ \A d \in Delivery : attempts[d] > 0 => attempts'[d] > 0
         /\ \A c \in Commit : queue[c] > 0 => queue'[c] > 0
  <1> USE DEF TypeOK, Handled, Failed, Goto, Reply, Keep, store
  <1>1. ASSUME NEW d \in Delivery, Deliver(d)
        PROVE  /\ \A e \in Delivery : Failed(e) => Failed(e)'
               /\ \A e \in Delivery : attempts[e] > 0 => attempts'[e] > 0
               /\ queue' = queue
    BY <1>1 DEF Deliver
  <1>2. ASSUME NEW d \in Delivery, HandleWebhook(d)
        PROVE  /\ attempts' = attempts
               /\ \A e \in Delivery : Failed(e) => Failed(e)'
    <2>1. hook[d] # "out" /\ attempts' = attempts /\ \A e \in Delivery \ {d} : answer'[e] = answer[e]
      BY <1>2 DEF HandleWebhook, Filter, Claim, UpsertRepository, CreateAnalysisRun, Enqueue,
                  LogAndReply, HandlerFails
    <2>2. QED
      BY <2>1
  <1>3. ASSUME NEW d \in Delivery, HandleWebhook(d)
        PROVE  \A c \in Commit : queue[c] > 0 => queue'[c] > 0
    BY <1>3 DEF HandleWebhook, Filter, Claim, UpsertRepository, CreateAnalysisRun, Enqueue,
                LogAndReply, HandlerFails
  <1>4. CASE (\E k \in Key : KeyExpires(k)) \/ UNCHANGED vars
    BY <1>4 DEF KeyExpires, vars
  <1>5. QED
    BY <1>1, <1>2, <1>3, <1>4 DEF Next

-----------------------------------------------------------------------------
Genuine(d) == KindOf[d] = "pr" /\ attempts[d] > 0
Publishing == {"claimed", "stored", "created"}

\* Commit c is published, about to be, or one of its handlers failed.
Backed(c) ==
    \/ queue[c] > 0
    \/ \E d \in Delivery : Genuine(d) /\ CommitOf[d] = c /\ (hook[d] = "created" \/ Failed(d))

\* Delivery d accounts for its idempotency key.
Holds(d) ==
    Genuine(d) /\ (hook[d] \in Publishing \/ Failed(d) \/ queue[CommitOf[d]] > 0)

Known(c) == queue[c] > 0 \/ Underway(c) \/ KeySpoilt(c)

RowsBacked == \A c \in Commit : run[c] = "pending" => Backed(c)
KeysHeld ==
    \A k \in Key : key[k] = "present" =>
       \E d \in Delivery : KeyOf[CommitOf[d]] = k /\ Holds(d)
SeenKnown ==
    \A d \in Delivery : hook[d] = "seen" \/ answer[d] = "duplicate" => Known(CommitOf[d])

\* A row stays accounted for: its handler publishes or fails.
LEMMA RowsBackedStep ==
  ASSUME TypeOK, Handled, RowsBacked, [Next]_vars
  PROVE  RowsBacked'
  <1>1. /\ \A d \in Delivery : Failed(d) => Failed(d)'
        /\ \A d \in Delivery : Genuine(d) => Genuine(d)'
        /\ \A c \in Commit : queue[c] > 0 => queue'[c] > 0
    BY FailureKept DEF Genuine
  <1>2. ASSUME NEW c \in Commit, Backed(c), 
               \A d \in Delivery : hook[d] = "created" /\ CommitOf[d] = c =>
                  hook'[d] = "created" \/ Failed(d)' \/ queue'[c] > 0
        PROVE  Backed(c)'
    BY <1>1, <1>2 DEF Backed
  <1>3. ASSUME NEW d \in Delivery, hook[d] = "created"
        PROVE  hook'[d] = "created" \/ Failed(d)' \/ queue'[CommitOf[d]] > 0
    <2> USE <1>3 DEF TypeOK, Goto, Reply, Keep, store, Failed
    <2>1. ASSUME NEW e \in Delivery, e # d, Deliver(e) \/ HandleWebhook(e) PROVE hook'[d] = "created"
      BY <2>1 DEF Deliver, HandleWebhook, Filter, Claim, UpsertRepository, CreateAnalysisRun,
                  Enqueue, LogAndReply, HandlerFails
    <2>2. CASE Deliver(d) \/ HandleWebhook(d)
      BY <2>2 DEF Deliver, HandleWebhook, Filter, Claim, UpsertRepository, CreateAnalysisRun,
                  Enqueue, LogAndReply, HandlerFails
    <2>3. CASE (\E k \in Key : KeyExpires(k)) \/ UNCHANGED vars
      BY <2>3 DEF KeyExpires, vars
    <2>4. QED
      BY <2>1, <2>2, <2>3 DEF Next
  <1>4. \A c \in Commit : Backed(c) => Backed(c)'
    BY <1>2, <1>3
  <1>5. ASSUME NEW d \in Delivery, CreateAnalysisRun(d), NEW c \in Commit, run'[c] = "pending"
        PROVE  Backed(c)'
    <2>1. CASE run[c] = "pending"
      BY <1>4, <2>1 DEF RowsBacked
    <2>2. CASE run[c] # "pending"
      <3>1. c = CommitOf[d] /\ hook'[d] = "created" /\ attempts' = attempts
        BY <1>5, <2>2 DEF CreateAnalysisRun, Goto, TypeOK
      <3>2. Genuine(d)'
        BY <1>5, <3>1 DEF CreateAnalysisRun, Genuine, Handled
      <3>3. QED
        BY <3>1, <3>2 DEF Backed
    <2>3. QED
      BY <2>1, <2>2
  <1>6. ASSUME ~ \E d \in Delivery : CreateAnalysisRun(d) PROVE run' = run
    BY <1>6 DEF Next, Deliver, HandleWebhook, Filter, Claim, UpsertRepository,
                Enqueue, LogAndReply, HandlerFails, KeyExpires, vars, store
  <1>7. QED
    BY <1>4, <1>5, <1>6 DEF RowsBacked

\* When a handler stops publishing, its commit is backed.
LEMMA PublisherLeaves ==
  ASSUME TypeOK, Handled, RowsBacked, [Next]_vars, RowsBacked',
         NEW d \in Delivery, hook[d] \in Publishing
  PROVE  hook'[d] \in Publishing \/ Backed(CommitOf[d])'
  <1> USE DEF TypeOK, Goto, Reply, Keep, store, Publishing
  <1>1. ASSUME NEW e \in Delivery, e # d, Deliver(e) \/ HandleWebhook(e) PROVE hook'[d] = hook[d]
    BY <1>1 DEF Deliver, HandleWebhook, Filter, Claim, UpsertRepository, CreateAnalysisRun,
                Enqueue, LogAndReply, HandlerFails
  <1>2. CASE UpsertRepository(d) \/ Enqueue(d)
    BY <1>2 DEF UpsertRepository, Enqueue, Backed
  <1>3. CASE CreateAnalysisRun(d)
    <2>1. run'[CommitOf[d]] = "pending"
      BY <1>3 DEF CreateAnalysisRun
    <2>2. QED
      BY <2>1 DEF RowsBacked
  <1>4. CASE HandlerFails(d)
    <2>1. Genuine(d)' /\ Failed(d)'
      BY <1>4 DEF HandlerFails, Genuine, Failed, Handled
    <2>2. QED
      BY <2>1 DEF Backed
  <1>5. CASE Deliver(d) \/ Filter(d) \/ Claim(d) \/ LogAndReply(d)
    BY <1>5 DEF Deliver, Filter, Claim, LogAndReply
  <1>6. CASE (\E k \in Key : KeyExpires(k)) \/ UNCHANGED vars
    BY <1>6 DEF KeyExpires, vars
  <1>7. QED
    BY <1>1, <1>2, <1>3, <1>4, <1>5, <1>6 DEF Next, HandleWebhook

\* Keys are accounted for, and so is what is dismissed because of one.
LEMMA KeysHeldStep ==
  ASSUME TypeOK, Handled, RowsBacked, KeysHeld, [Next]_vars, RowsBacked'
  PROVE  KeysHeld'
  <1>1. /\ \A d \in Delivery : Failed(d) => Failed(d)'
        /\ \A d \in Delivery : Genuine(d) => Genuine(d)'
        /\ \A c \in Commit : queue[c] > 0 => queue'[c] > 0
    BY FailureKept DEF Genuine
  <1>2. ASSUME NEW d \in Delivery, Holds(d)
        PROVE  \E e \in Delivery : CommitOf[e] = CommitOf[d] /\ Holds(e)'
    <2>1. CASE Failed(d) \/ queue[CommitOf[d]] > 0 \/ hook'[d] \in Publishing
      BY <1>1, <1>2, <2>1 DEF Holds
    <2>2. CASE hook[d] \in Publishing /\ hook'[d] \notin Publishing
      <3>1. Backed(CommitOf[d])'
        BY <2>2, PublisherLeaves
      <3>2. QED
        BY <1>1, <1>2, <3>1 DEF Backed, Holds, Publishing
    <2>3. QED
      BY <1>2, <2>1, <2>2 DEF Holds
  <1>3. ASSUME NEW k \in Key, key'[k] = "present", key[k] = "present"
        PROVE  \E d \in Delivery : KeyOf[CommitOf[d]] = k /\ Holds(d)'
    BY <1>2, <1>3 DEF KeysHeld
  <1>4. ASSUME NEW k \in Key, key'[k] = "present", key[k] # "present"
        PROVE  \E d \in Delivery : KeyOf[CommitOf[d]] = k /\ Holds(d)'
    <2>1. PICK d \in Delivery : Claim(d) /\ KeyOf[CommitOf[d]] = k /\ Goto(d, "claimed")
      BY <1>4 DEF Next, Deliver, HandleWebhook, Filter, Claim, UpsertRepository, TypeOK,
                  CreateAnalysisRun, Enqueue, LogAndReply, HandlerFails, KeyExpires, vars, store
    <2>2. Genuine(d)' /\ hook'[d] = "claimed"
      BY <2>1 DEF Claim, Genuine, Handled, Goto, TypeOK
    <2>3. QED
      BY <2>1, <2>2 DEF Holds, Publishing
  <1>5. QED
    BY <1>3, <1>4 DEF KeysHeld

\* A commit with a row keeps it.
LEMMA KnownStep ==
  ASSUME TypeOK, Handled, RowsBacked, [Next]_vars, RowsBacked', NEW c \in Commit, Known(c)
  PROVE  Known(c)'
  <1>1. /\ \A d \in Delivery : Failed(d) => Failed(d)'
        /\ \A d \in Delivery : attempts[d] > 0 => attempts'[d] > 0
        /\ \A b \in Commit : queue[b] > 0 => queue'[b] > 0
    BY FailureKept
  <1>2. CASE queue[c] > 0
    BY <1>1, <1>2 DEF Known
  <1>3. CASE KeySpoilt(c)
    BY <1>1, <1>3 DEF KeySpoilt, Known
  <1>4. CASE Underway(c)
    <2>1. PICK d \in Delivery : CommitOf[d] = c /\ hook[d] \in Publishing
      BY <1>4 DEF Underway, Publishing
    <2>2. CASE hook'[d] \in Publishing
      BY <2>1, <2>2 DEF Underway, Known, Publishing
    <2>3. CASE Backed(c)'
      BY <2>3 DEF Backed, Known, Underway, KeySpoilt, Genuine
    <2>4. QED
      BY <2>1, <2>2, <2>3, PublisherLeaves
  <1>5. QED
    BY <1>2, <1>3, <1>4 DEF Known

\* A commit whose delivery was called a duplicate stays known.
LEMMA SeenKnownStep ==
  ASSUME TypeOK, Handled, RowsBacked, KeysHeld, SeenKnown, [Next]_vars, RowsBacked'
  PROVE  SeenKnown'
  <1>1. ASSUME NEW d \in Delivery, hook[d] = "seen" \/ answer[d] = "duplicate"
        PROVE  Known(CommitOf[d])'
    <2>1. Known(CommitOf[d])
      BY <1>1 DEF SeenKnown
    <2>2. QED
      BY <2>1, KnownStep
  <1>2. ASSUME NEW d \in Delivery, Claim(d), hook'[d] = "seen" PROVE Known(CommitOf[d])'
    <2>1. /\ key[KeyOf[CommitOf[d]]] = "present" /\ UNCHANGED <<attempts, queue, answer>>
          /\ \A e \in Delivery : hook[e] \in Publishing => hook'[e] = hook[e]
      BY <1>2 DEF Claim, Goto, Keep, TypeOK, Publishing
    <2>2. PICK e \in Delivery : KeyOf[CommitOf[e]] = KeyOf[CommitOf[d]] /\ Holds(e)
      BY <2>1 DEF KeysHeld
    <2>3. Known(CommitOf[d])
      BY <2>2 DEF Holds, Known, Underway, KeySpoilt, Genuine, Publishing
    <2>4. QED
      BY <2>3, KnownStep
  <1>3. ASSUME NEW d \in Delivery, CreateAnalysisRun(d), hook'[d] = "seen" PROVE Known(CommitOf[d])'
    <2>1. run'[CommitOf[d]] = "pending"
      BY <1>3 DEF CreateAnalysisRun, Goto, TypeOK
    <2>2. Backed(CommitOf[d])'
      BY <2>1 DEF RowsBacked
    <2>3. QED
      BY <2>2 DEF Backed, Known, Underway, KeySpoilt, Genuine
  <1>4. ASSUME NEW d \in Delivery, hook[d] # "seen", answer[d] # "duplicate",
               hook'[d] = "seen" \/ answer'[d] = "duplicate"
        PROVE  (Claim(d) \/ CreateAnalysisRun(d)) /\ hook'[d] = "seen"
    <2> USE DEF TypeOK, Goto, Reply, Keep, store
    <2>1. ASSUME NEW e \in Delivery, e # d, Deliver(e) \/ HandleWebhook(e)
          PROVE  hook'[d] = hook[d] /\ answer'[d] = answer[d]
      BY <2>1 DEF Deliver, HandleWebhook, Filter, Claim, UpsertRepository, CreateAnalysisRun,
                  Enqueue, LogAndReply, HandlerFails
    <2>2. CASE Deliver(d) \/ HandleWebhook(d)
      BY <1>4, <2>2 DEF Deliver, HandleWebhook, Filter, Claim, UpsertRepository,
                        CreateAnalysisRun, Enqueue, LogAndReply, HandlerFails
    <2>3. CASE (\E k \in Key : KeyExpires(k)) \/ UNCHANGED vars
      BY <1>4, <2>3 DEF KeyExpires, vars
    <2>4. QED
      BY <1>4, <2>1, <2>2, <2>3 DEF Next
  <1>5. QED
    BY <1>1, <1>2, <1>3, <1>4 DEF SeenKnown

Accounted == Handled /\ RowsBacked /\ KeysHeld /\ SeenKnown

\* Rows and keys are accounted for.
THEOREM IngestionAccounted == Spec => []Accounted
  <1>1. Init => Accounted
    BY DEF Init, Accounted, Handled, RowsBacked, KeysHeld, SeenKnown
  <1>2. TypeOK /\ Accounted /\ [Next]_vars => Accounted'
    BY HandledStep, RowsBackedStep, KeysHeldStep, SeenKnownStep DEF Accounted
  <1>3. QED
    BY <1>1, <1>2, IngestionTypeOK, PTL DEF Spec

\* A pending row has its message, or a handler about to publish it, or a
\* handler that failed: for any deliveries, keys and faults.
THEOREM IngestionRunIsQueued == Spec => []RunIsQueued
  <1>1. Accounted => RunIsQueued
    BY DEF Accounted, RowsBacked, Backed, RunIsQueued
  <1>2. QED
    BY <1>1, IngestionAccounted, PTL

\* A delivery is dismissed as a duplicate only when its commit is taken care
\* of or its key was spoilt by a failure or another commit.
THEOREM IngestionDuplicateIsKnown == Spec => []DuplicateIsKnown
  <1>1. Accounted => DuplicateIsKnown
    BY DEF Accounted, SeenKnown, Known, DuplicateIsKnown
  <1>2. QED
    BY <1>1, IngestionAccounted, PTL

-----------------------------------------------------------------------------
\* Each step of the endpoint is a step of AnalysisRequests or changes nothing
\* there.
LEMMA RequestsStep ==
  ASSUME TypeOK, Handled, OnePublisher, [Next]_vars
  PROVE  [Requests!Next]_(Requests!requestVars)
  <1> DEFINE W == {c \in Commit : \E d \in Delivery :
                      CommitOf[d] = c /\ KindOf[d] = "pr" /\ attempts[d] > 0}
             R == {c \in Commit : run[c] = "pending"}
  <1>1. ASSUME NEW d \in Delivery, Deliver(d) PROVE [Requests!Next]_(Requests!requestVars)
    <2>1. R' = R /\ queue' = queue
      BY <1>1 DEF Deliver, store
    <2>2. W' = W \/ (CommitOf[d] \notin W /\ W' = W \cup {CommitOf[d]})
      BY <1>1 DEF Deliver, TypeOK
    <2>3. QED
      BY <2>1, <2>2 DEF Requests!Next, Requests!Want, Requests!requestVars
  <1>2. ASSUME NEW d \in Delivery, CreateAnalysisRun(d) PROVE [Requests!Next]_(Requests!requestVars)
    <2>1. W' = W /\ queue' = queue /\ CommitOf[d] \in W
      BY <1>2 DEF CreateAnalysisRun, Handled
    <2>2. R' = R \/ (CommitOf[d] \notin R /\ R' = R \cup {CommitOf[d]})
      BY <1>2 DEF CreateAnalysisRun, TypeOK
    <2>3. QED
      BY <2>1, <2>2 DEF Requests!Next, Requests!Record, Requests!requestVars
  <1>3. ASSUME NEW d \in Delivery, Enqueue(d) PROVE [Requests!Next]_(Requests!requestVars)
    <2>1. W' = W /\ R' = R /\ CommitOf[d] \in R /\ queue[CommitOf[d]] = 0
      BY <1>3 DEF Enqueue, OnePublisher
    <2>2. queue' = [queue EXCEPT ![CommitOf[d]] = 1]
      BY <1>3, <2>1 DEF Enqueue, TypeOK
    <2>3. QED
      BY <2>1, <2>2 DEF Requests!Next, Requests!Start, Requests!requestVars
  <1>4. ASSUME UNCHANGED <<attempts, run, queue>> PROVE [Requests!Next]_(Requests!requestVars)
    BY <1>4 DEF Requests!requestVars
  <1>5. ASSUME NEW d \in Delivery,
               Filter(d) \/ Claim(d) \/ UpsertRepository(d) \/ LogAndReply(d) \/ HandlerFails(d)
        PROVE  UNCHANGED <<attempts, run, queue>>
    BY <1>5 DEF Filter, Claim, UpsertRepository, LogAndReply, HandlerFails, store
  <1>6. CASE (\E k \in Key : KeyExpires(k)) \/ UNCHANGED vars
    BY <1>4, <1>6 DEF KeyExpires, vars
  <1>7. QED
    BY <1>1, <1>2, <1>3, <1>4, <1>5, <1>6 DEF Next, HandleWebhook

\* The endpoint implements AnalysisRequests for any deliveries, commits, keys
\* and faults.
THEOREM IngestionServesRequests == Spec => ServesRequests
  <1>1. Init => Requests!Init
    BY DEF Init, Requests!Init
  <1>2. TypeOK /\ Handled /\ OnePublisher /\ [Next]_vars => [Requests!Next]_(Requests!requestVars)
    BY RequestsStep
  <1>3. Accounted => Handled
    BY DEF Accounted
  <1>4. Init => OnePublisher
    BY DEF Init, OnePublisher, QueuedOnce
  <1>5. TypeOK /\ OnePublisher /\ [Next]_vars => OnePublisher'
    BY OnePublisherStep
  <1>6. QED
    BY <1>1, <1>2, <1>3, <1>4, <1>5, IngestionTypeOK, IngestionAccounted, PTL
       DEF Spec, ServesRequests, Requests!Spec
=============================================================================
