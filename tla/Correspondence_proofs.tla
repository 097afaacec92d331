------------------------- MODULE Correspondence_proofs -------------------------
(***************************************************************************)
(* Proofs about Correspondence, for any lines, suppliers, mails, requests  *)
(* and crashes.                                                            *)
(*                                                                         *)
(* Shapes types the state.  Worker says where the mail in hand stands in   *)
(* the timeline, Timeline what rows and remembered mails there are, and    *)
(* Undisturbed what an actor that nobody disturbed still knows: the lines  *)
(* it picked are live and not quoted yet.  Together they are inductive.    *)
(***************************************************************************)
EXTENDS Correspondence, TLAPS

Keys == Senders \X (Texts \cup {"blank"})
Pcs == {"down", "idle", "next", "log", "talk", "check", "store", "save"}
InHand == {"log", "talk", "check", "store", "save"}
WorkerStates == [pc : Pcs, todo : SUBSET Mails, mail : Mails \cup {0}, items : SUBSET Lines,
                 quoted : SUBSET Lines, found : SUBSET Lines]
RequestStates == [op : {"none", "hook", "wechat", "form"}, at : {"start", "check", "read", "pick", "put"},
                  who : Suppliers \cup {"unknown"}, line : Lines \cup {0}, quoted : SUBSET Lines,
                  found : SUBSET Lines]

Shapes ==
    /\ mail \in [Mails -> MailKinds \cup {NoMail}]
    /\ line \in [Lines -> BOOLEAN] /\ quotes \in [Lines \X Suppliers -> Nat]
    /\ asked \subseteq Lines \X Suppliers
    /\ rows \in [Keys -> Nat] /\ pushed \in [Keys -> Nat]
    /\ seen \subseteq Arrived /\ file \subseteq Arrived
    /\ w \in WorkerStates
    /\ req \in [Requests -> RequestStates]
    /\ sole \in Requests \cup {"worker", "none"}
    /\ served \in 0..Budget /\ crashes \in 0..Crashes

Worker ==
    /\ w.todo \subseteq Arrived
    /\ w.found \subseteq w.items /\ w.quoted \subseteq w.items
    /\ w.pc \notin {"check", "store", "save"} => w.found = {}
    /\ w.pc \in InHand => w.mail \in w.todo
    /\ w.pc \in {"check", "store"} => Known(w.mail)
    /\ w.pc = "log" => rows[Key(w.mail)] = 0
    /\ w.pc \in InHand \ {"log"} => Logged(w.mail)

Timeline ==
    /\ \A k \in Keys : rows[k] <= 1
    /\ \A m \in seen \cup file : Logged(m)

Addressed(r) ==
    /\ r.op # "none" => r.who \in Suppliers
    /\ r.op = "hook" \/ r.at = "put" => r.op # "none" /\ r.line \in Lines
Served == \A q \in Requests : Addressed(req[q])

Unquoted(s, L) == \A l \in L : quotes[<<l, s>>] = 0
Undisturbed ==
    /\ sole = "worker" =>
        /\ w.pc \in {"log", "talk", "check", "store"} => w.items \subseteq Live
        /\ w.pc = "store" => Unquoted(mail[w.mail].who, w.found)
    /\ sole \in Requests =>
        LET r == req[sole]
        IN  /\ r.op = "wechat" => r.found \subseteq Live
            /\ r.op \in {"hook", "wechat"} /\ r.at = "put" => Unquoted(r.who, {r.line})
            /\ r.op = "wechat" /\ r.at = "put" => r.line \in Live

IInv == Shapes /\ Worker /\ Timeline /\ Served /\ Undisturbed

-----------------------------------------------------------------------------
LEMMA Names == "worker" \notin Requests /\ "none" \notin Requests /\ "unknown" \notin Suppliers /\ "us" \notin Suppliers
BY NamesAssumption

LEMMA MailsAreWritten ==
    ASSUME Shapes, NEW m \in Arrived
    PROVE  /\ m \in Mails /\ mail[m] \in MailKinds /\ Key(m) \in Keys
           /\ Known(m) => mail[m].who \in Suppliers
           /\ rows[Key(m)] \in Nat /\ pushed[Key(m)] \in Nat
<1>1. m \in Mails /\ mail[m] \in MailKinds
    BY DEF Shapes, Arrived
<1>2. Key(m) \in Keys
    BY <1>1 DEF Key, Keys, Sender, Senders, MailKinds
<1> QED BY <1>1, <1>2 DEF Shapes, Known

LEMMA InitIInv == Init => IInv
<1> SUFFICES ASSUME Init PROVE IInv
    OBVIOUS
<1> USE DEF Init
<1>1. PICK start \in Starts : line = [l \in Lines |-> l \in start.live] /\ asked = start.asked
    OBVIOUS
<1>2. asked \subseteq Lines \X Suppliers
    BY <1>1, StartsAssumption
<1>3. w \in WorkerStates /\ w.pc = "down" /\ w.todo = {} /\ w.found = {} /\ w.quoted = {}
    BY DEF Down, Asleep, WorkerStates, Pcs
<1>4. Idle \in RequestStates /\ Idle.op = "none" /\ Idle.at = "start"
    BY DEF Idle, RequestStates
<1>5. req \in [Requests -> RequestStates] /\ Served
    BY <1>4 DEF Served, Addressed
<1>6. served \in 0..Budget /\ crashes \in 0..Crashes
    BY BudgetAssumption
<1>7. rows \in [Keys -> Nat] /\ pushed \in [Keys -> Nat] /\ \A k \in Keys : rows[k] <= 1
    BY DEF Keys
<1>8. Shapes
    BY <1>1, <1>2, <1>3, <1>5, <1>6, <1>7 DEF Shapes
<1>9. Worker
    BY <1>3 DEF Worker, InHand
<1>10. Timeline
    BY <1>7 DEF Timeline
<1>11. Undisturbed
    BY Names DEF Undisturbed
<1> QED BY <1>5, <1>8, <1>9, <1>10, <1>11 DEF IInv

-----------------------------------------------------------------------------
(* What a step leaves alone, its parts of the invariant keep. *)

LEMMA Frames ==
    ASSUME IInv
    PROVE  /\ UNCHANGED <<mail, rows, pushed, seen, file>> => Timeline'
           /\ UNCHANGED req => Served'
           /\ UNCHANGED <<mail, rows, pushed, w>> => Worker'
           /\ UNCHANGED <<mail, line, quotes, req, sole, w>> => Undisturbed'
<1> USE DEF IInv
<1>1. ASSUME UNCHANGED <<mail, rows, pushed, seen, file>> PROVE Timeline'
    BY <1>1 DEF Timeline, Logged, Key, Sender
<1>2. ASSUME UNCHANGED req PROVE Served'
    BY <1>2 DEF Served
<1>3. ASSUME UNCHANGED <<mail, rows, pushed, w>> PROVE Worker'
    BY <1>3 DEF Worker, Arrived, Known, Logged, Key, Sender
<1>4. ASSUME UNCHANGED <<mail, line, quotes, req, sole, w>> PROVE Undisturbed'
    BY <1>4 DEF Undisturbed, Unquoted, Live
<1> QED BY <1>1, <1>2, <1>3, <1>4

(* A step of a request keeps what the worker and the timeline know, as     *)
(* gateways only add messages.                                             *)
LEMMA RequestFrame ==
    ASSUME IInv, UNCHANGED <<mail, seen, file, w, rows>>, pushed' \in [Keys -> Nat],
           \A k \in Keys : pushed'[k] >= pushed[k]
    PROVE  Worker' /\ Timeline' /\ seen' \subseteq Arrived' /\ file' \subseteq Arrived'
<1> USE DEF IInv
<1>1. Arrived' = Arrived
    BY DEF Arrived
<1>2. \A m \in Arrived : Key(m)' = Key(m) /\ (Logged(m) => Logged(m)')
    <2> TAKE m \in Arrived
    <2>1. Key(m) \in Keys /\ rows[Key(m)] \in Nat /\ pushed[Key(m)] \in Nat
        BY MailsAreWritten
    <2>2. Key(m)' = Key(m)
        BY DEF Key, Sender
    <2> QED BY <2>1, <2>2 DEF Logged
<1>3. w.pc \in InHand => w.mail \in Arrived
    BY DEF Worker
<1>4. Worker'
    BY <1>1, <1>2, <1>3 DEF Worker, Known, InHand
<1>5. Timeline'
    BY <1>1, <1>2 DEF Timeline, Shapes
<1> QED BY <1>1, <1>4, <1>5 DEF Shapes

(* The same for what an undisturbed actor knows, when another one begins.  *)
LEMMA ByTypes ==
    ASSUME IInv, NEW a \in Requests \cup {"worker"}, NEW b \in BOOLEAN, By(a, b)
    PROVE  /\ sole' \in Requests \cup {"worker", "none"}
           /\ sole' \in {a, "none"}
           /\ ~b /\ sole' = a => sole = a
BY Names DEF By, IInv, Shapes

LEMMA WorkerTypes ==
    ASSUME IInv
    PROVE  /\ w.pc \notin InHand => w.found = {}
           /\ Asleep \in WorkerStates /\ Asleep.pc = "idle" /\ Asleep.todo = {} /\ Asleep.items = {}
           /\ Asleep.quoted = {} /\ Asleep.found = {}
           /\ Down \in WorkerStates /\ Down.pc = "down" /\ Down.todo = {} /\ Down.items = {}
           /\ Down.quoted = {} /\ Down.found = {}
           /\ Dropped \in WorkerStates /\ Dropped.pc = "next" /\ Dropped.todo \subseteq w.todo
           /\ Dropped.items = {} /\ Dropped.quoted = {} /\ Dropped.found = {}
BY DEF IInv, Shapes, Worker, InHand, Asleep, Down, Dropped, WorkerStates, Pcs

(* The worker between two mails. *)
LEMMA Waits ==
    ASSUME IInv, UNCHANGED <<worker, stored, sole>>, w' \in WorkerStates, w'.pc \notin InHand,
           w'.todo \subseteq Arrived, w'.found = {}, w'.quoted \subseteq w'.items,
           seen' \subseteq seen \cup file \cup (IF w.pc = "save" THEN {w.mail} ELSE {}),
           file' \subseteq seen \cup file \cup (IF w.pc = "save" THEN {w.mail} ELSE {})
    PROVE  IInv'
<1> USE DEF IInv
<1>1. Arrived' = Arrived /\ \A m \in Arrived : Logged(m)' = Logged(m)
    BY DEF worker, stored, Arrived, Logged, Key, Sender
<1>2. seen \cup file \cup (IF w.pc = "save" THEN {w.mail} ELSE {}) \subseteq Arrived
    BY DEF Shapes, Worker, InHand
<1>3. Shapes'
    BY <1>1, <1>2 DEF Shapes, worker, stored
<1>4. Worker'
    BY <1>1 DEF Worker, InHand
<1>5. \A m \in seen' \cup file' : m \in Arrived /\ Logged(m)
    BY <1>2 DEF Timeline, Worker, InHand
<1>6. Timeline'
    BY <1>1, <1>5 DEF Timeline, stored
<1>7. Served'
    BY Frames DEF worker
<1>8. Undisturbed'
    BY DEF Undisturbed, Live, Unquoted, InHand, worker, stored
<1> QED BY <1>3, <1>4, <1>6, <1>7, <1>8

LEMMA BetweenMails ==
    ASSUME IInv, Start \/ Poll \/ Sleep \/ Ignore \/ Chatter \/ Unanswered \/ Save
    PROVE  IInv'
<1> USE WorkerTypes
<1>1. w.todo \subseteq Arrived /\ w \in WorkerStates /\ w.found \subseteq w.items /\ w.quoted \subseteq w.items
    BY DEF IInv, Worker, Shapes, WorkerStates
<1>2. CASE Start
    BY <1>2, Waits DEF Start, InHand
<1>3. CASE Poll
    <2>1. View \subseteq Arrived
        BY DEF View
    <2>2. View \in SUBSET Mails
        BY <2>1 DEF Arrived
    <2>3. w' = [w EXCEPT !.pc = "next", !.todo = View]
        BY <1>3 DEF Poll
    <2>4. w' \in WorkerStates /\ w'.pc = "next" /\ w'.todo = View /\ w'.found = w.found
          /\ w'.quoted = w.quoted /\ w'.items = w.items
        BY <1>1, <2>2, <2>3 DEF WorkerStates, Pcs
    <2> QED BY <1>1, <1>3, <2>1, <2>4, Waits DEF Poll, InHand
<1>4. CASE Sleep
    BY <1>4, Waits DEF Sleep, InHand
<1>5. CASE Ignore
    <2>1. PICK m \in w.todo : w' = [w EXCEPT !.todo = @ \ {m}]
        BY <1>5 DEF Ignore
    <2>2. w' \in WorkerStates /\ w'.pc = w.pc /\ w'.todo = w.todo \ {m} /\ w'.found = w.found
          /\ w'.quoted = w.quoted /\ w'.items = w.items
        BY <1>1, <2>1 DEF WorkerStates
    <2> QED BY <1>1, <1>5, <2>2, Waits DEF Ignore, InHand
<1>6. CASE Chatter \/ Unanswered
    BY <1>1, <1>6, Waits DEF Chatter, Unanswered, InHand
<1>7. CASE Save
    BY <1>1, <1>7, Waits DEF Save, InHand
<1> QED BY <1>2, <1>3, <1>4, <1>5, <1>6, <1>7

LEMMA ReadKeeps == ASSUME IInv, Read PROVE IInv'
<1> USE DEF IInv
<1>1. PICK m \in w.todo : /\ ~Ignored(m)
                          /\ w' = [w EXCEPT !.mail = m, !.items = Live, !.quoted = Quoted(mail[m].who),
                                     !.pc = IF ~Logged(m) THEN "log"
                                            ELSE IF Exhausted(m, Live, Quoted(mail[m].who)) THEN "save" ELSE "talk"]
    BY DEF Read
<1>2. w.pc = "next" /\ By("worker", TRUE) /\ UNCHANGED <<mail, req, served, crashes, stored, seen, file>>
    BY DEF Read, worker
<1>3. m \in Arrived /\ m \in Mails /\ rows[Key(m)] \in Nat /\ pushed[Key(m)] \in Nat
    BY MailsAreWritten DEF Worker
<1>4. Live \subseteq Lines /\ Quoted(mail[m].who) \subseteq Live
    BY DEF Live, Quoted
<1>5. /\ w' \in WorkerStates /\ w'.mail = m /\ w'.items = Live /\ w'.todo = w.todo /\ w'.found = w.found
      /\ w'.quoted = Quoted(mail[m].who) /\ w'.pc \in {"log", "talk", "save"}
      /\ w'.pc = "log" <=> ~Logged(m)
    BY <1>1, <1>3, <1>4 DEF Shapes, WorkerStates, Pcs
<1>6. w.found = {}
    BY <1>2 DEF Worker
<1>7. Arrived' = Arrived /\ \A n \in Arrived : Logged(n)' = Logged(n) /\ Key(n)' = Key(n)
    BY <1>2 DEF stored, Arrived, Logged, Key, Sender
<1>8. Shapes'
    BY <1>2, <1>5, <1>7, ByTypes DEF Shapes, stored
<1>9. Worker'
    <2>1. w'.pc = "log" => rows[Key(m)] = 0
        BY <1>3, <1>5 DEF Logged
    <2>2. Key(w.mail)' = Key(m) /\ Logged(w.mail)' = Logged(m) /\ rows' = rows
        BY <1>2, <1>5 DEF Logged, Key, Sender, stored
    <2> QED BY <1>3, <1>4, <1>5, <1>6, <1>7, <2>1, <2>2 DEF Worker, InHand
<1>10. Timeline' /\ Served'
    BY <1>2, Frames DEF stored
<1>11. Undisturbed'
    BY <1>2, <1>5, Names, Frames DEF Undisturbed, By, Live, stored
<1> QED BY <1>8, <1>9, <1>10, <1>11

LEMMA LogKeeps == ASSUME IInv, Log PROVE IInv'
<1> USE DEF IInv
<1> DEFINE k == Key(w.mail)
<1>1. /\ w.pc = "log" /\ rows' = [rows EXCEPT ![k] = @ + 1] /\ w' = [w EXCEPT !.pc = "talk"]
      /\ By("worker", FALSE) /\ UNCHANGED <<mail, req, served, crashes, line, quotes, asked, pushed, seen, file>>
    BY DEF Log, worker
<1>2. w.mail \in Arrived /\ w.mail \in w.todo /\ k \in Keys /\ rows[k] = 0 /\ w.found = {}
    BY <1>1, MailsAreWritten DEF Worker, InHand
<1>3. rows \in [Keys -> Nat] /\ pushed \in [Keys -> Nat] /\ rows' \in [Keys -> Nat]
    <2> HIDE DEF k
    <2>1. rows \in [Keys -> Nat] /\ pushed \in [Keys -> Nat]
        BY DEF Shapes
    <2> QED BY <1>1, <1>2, <2>1
<1>4. rows'[k] = 1 /\ \A x \in Keys : rows'[x] >= rows[x] /\ (x # k => rows'[x] = rows[x])
    BY <1>1, <1>2, <1>3
<1>5. Arrived' = Arrived /\ \A m \in Arrived : Key(m)' = Key(m) /\ Key(m) \in Keys
    BY <1>1, MailsAreWritten DEF Arrived, Key, Sender
<1>6. \A m \in Arrived : Logged(m) => Logged(m)'
    BY <1>1, <1>3, <1>4, <1>5 DEF Logged
<1>7. Logged(w.mail)'
    BY <1>1, <1>2, <1>3, <1>4, <1>5 DEF Logged
<1>8. w' \in WorkerStates /\ w'.pc = "talk" /\ w'.mail = w.mail /\ w'.todo = w.todo /\ w'.items = w.items
      /\ w'.found = w.found /\ w'.quoted = w.quoted
    BY <1>1 DEF Shapes, WorkerStates, Pcs
<1>9. Shapes'
    BY <1>1, <1>3, <1>5, <1>8, ByTypes DEF Shapes
<1>10. Worker'
    <2>1. w'.mail = w.mail /\ Logged(w.mail)'
        BY <1>7, <1>8
    <2> QED BY <1>2, <1>5, <1>8, <2>1 DEF Worker, InHand
<1>11. Timeline'
    BY <1>1, <1>2, <1>4, <1>5, <1>6 DEF Timeline, Shapes
<1>12. Served'
    BY <1>1, Frames
<1>13. Undisturbed'
    BY <1>1, <1>8, Names DEF Undisturbed, By, Live
<1> QED BY <1>9, <1>10, <1>11, <1>12, <1>13

(* The AI has answered: what it found is compared and stored. *)
LEMMA Extracts == ASSUME IInv, Answered \/ Check \/ Store PROVE IInv'
<1> USE DEF IInv
<1> DEFINE s == mail[w.mail].who
<1>1. w.pc \in {"talk", "check", "store"} /\ UNCHANGED <<mail, req, served, crashes, line, asked, rows, pushed, seen, file>>
    BY DEF Answered, Check, Store, worker, stored
<1>2. Logged(w.mail) /\ w.mail \in w.todo /\ w.mail \in Arrived
    BY <1>1 DEF Worker, InHand
<1>3. Known(w.mail)
    BY <1>1 DEF Worker, Answered, Check, Store, FirstTalk
<1>4. \E pc \in {"check", "store", "save"}, found \in SUBSET w.items : w' = [w EXCEPT !.pc = pc, !.found = found]
    <2>1. CASE Answered
        BY <2>1 DEF Answered
    <2>2. CASE Check
        <3>1. Fresh(s, w.found) \subseteq w.items
            BY DEF Fresh, Worker
        <3> QED BY <2>2, <3>1 DEF Check
    <2>3. CASE Store
        <3>1. w' = [w EXCEPT !.pc = "save", !.found = w.found] /\ w.found \in SUBSET w.items
            BY <2>3 DEF Store, Worker, Shapes, WorkerStates
        <3> QED BY <3>1
    <2> QED BY <2>1, <2>2, <2>3
<1>5. PICK pc \in {"check", "store", "save"}, found \in SUBSET w.items : w' = [w EXCEPT !.pc = pc, !.found = found]
    BY <1>4
<1>6. w' \in WorkerStates /\ w'.pc = pc /\ w'.found = found /\ w'.mail = w.mail /\ w'.todo = w.todo
      /\ w'.items = w.items /\ w'.quoted = w.quoted
    BY <1>5 DEF Shapes, WorkerStates, Pcs
<1>7. Known(w.mail)' /\ Logged(w.mail)' /\ Arrived' = Arrived
    BY <1>1, <1>2, <1>3, <1>6 DEF Known, Arrived, Logged, Key, Sender
<1>8. Worker'
    BY <1>1, <1>2, <1>6, <1>7 DEF Worker, InHand
<1>9. Timeline' /\ Served'
    BY <1>1, Frames
<1>10. quotes' \in [Lines \X Suppliers -> Nat]
    <2>1. CASE Store
        BY <2>1 DEF Shapes, Store
    <2> QED BY <2>1 DEF Shapes, Answered, Check, stored
<1>11. sole' \in Requests \cup {"worker", "none"} /\ (sole' = "worker" => sole = "worker")
       /\ (sole' \in Requests => sole' = sole /\ UNCHANGED quotes)
    BY Names, ByTypes DEF Shapes, Answered, Check, Store, stored, By
<1>12. Shapes'
    BY <1>1, <1>6, <1>10, <1>11 DEF Shapes, Arrived
<1>13. Undisturbed'
    <2>1. ASSUME sole' = "worker" PROVE w'.items \subseteq Live' \/ w'.pc = "save"
        BY <1>1, <1>6, <1>11, <2>1 DEF Undisturbed, Live
    <2>2. ASSUME sole' = "worker", w'.pc = "store" PROVE \A l \in w'.found : quotes'[<<l, mail'[w'.mail].who>>] = 0
        <3>1. Check
            BY <2>2, <1>6 DEF Answered, Store, Shapes, WorkerStates
        <3>2. w'.found = Fresh(s, w.found) /\ quotes' = quotes /\ mail' = mail /\ w'.mail = w.mail
            BY <1>6, <3>1 DEF Check, Shapes, WorkerStates, stored, worker
        <3> QED BY <3>2 DEF Fresh
    <2>3. sole' \in Requests => UNCHANGED <<sole, req, line, quotes>>
        BY <1>1, <1>11
    <2> QED BY <1>6, <2>1, <2>2, <2>3, Names DEF Undisturbed, Live, Unquoted
<1> QED BY <1>8, <1>9, <1>12, <1>13

LEMMA CrashKeeps == ASSUME IInv, Crash PROVE IInv'
<1> USE DEF IInv
<1>1. /\ w' = Down /\ seen' = {} /\ sole' = "none" /\ req' = [q \in Requests |-> Idle]
      /\ file' \subseteq file /\ crashes < Crashes /\ crashes' = crashes + 1
      /\ UNCHANGED <<mail, line, quotes, asked, rows, pushed, served>>
    BY DEF Crash, stored
<1>2. Arrived' = Arrived /\ \A m \in Arrived : Logged(m)' = Logged(m)
    BY <1>1 DEF Arrived, Logged, Key, Sender
<1>3. Idle \in RequestStates /\ Idle.op = "none" /\ Idle.at = "start"
    BY DEF Idle, RequestStates
<1>4. crashes' \in 0..Crashes
    BY <1>1, BudgetAssumption DEF Shapes
<1>5. Shapes'
    BY <1>1, <1>2, <1>3, <1>4, WorkerTypes DEF Shapes
<1>6. Worker'
    BY <1>1, WorkerTypes DEF Worker, InHand
<1>7. Timeline'
    BY <1>1, <1>2 DEF Timeline, Shapes
<1>8. Served'
    BY <1>1, <1>3 DEF Served, Addressed
<1>9. Undisturbed'
    BY <1>1, Names DEF Undisturbed
<1> QED BY <1>5, <1>6, <1>7, <1>8, <1>9

LEMMA PostKeeps == ASSUME IInv, Post PROVE IInv'
<1> USE DEF IInv
<1>1. PICK m \in Mails \ Arrived : \E kind \in Kinds[m] : mail' = [mail EXCEPT ![m] = kind]
    BY DEF Post
<1>14. PICK kind \in Kinds[m] : mail' = [mail EXCEPT ![m] = kind]
    BY <1>1
<1>2. UNCHANGED <<line, quotes, asked, rows, pushed, seen, file, w, req, sole, served, crashes>>
    BY DEF Post, stored
<1>3. kind \in MailKinds
    BY KindsAssumption
<1>4. mail' \in [Mails -> MailKinds \cup {NoMail}] /\ \A n \in Mails \ {m} : mail'[n] = mail[n]
    BY <1>14, <1>3 DEF Shapes
<1>5. Arrived \subseteq Arrived' /\ m \notin Arrived
    BY <1>1, <1>4 DEF Arrived
<1>6. \A n \in Arrived : mail'[n] = mail[n]
    BY <1>4, <1>5 DEF Arrived
<1>7. \A n \in Arrived : Logged(n)' = Logged(n) /\ Key(n)' = Key(n) /\ Known(n)' = Known(n)
    BY <1>2, <1>6 DEF Logged, Key, Sender, Known
<1>8. w.pc \in InHand => w.mail \in Arrived
    BY DEF Worker
<1>9. Shapes'
    BY <1>2, <1>4, <1>5 DEF Shapes
<1>10. Worker'
    BY <1>2, <1>5, <1>7, <1>8 DEF Worker, InHand
<1>11. Timeline'
    BY <1>2, <1>7 DEF Timeline, Shapes
<1>12. Served'
    BY <1>2, Frames
<1>13. Undisturbed'
    BY <1>2, <1>6, <1>8 DEF Undisturbed, InHand, Live, Unquoted
<1> QED BY <1>9, <1>10, <1>11, <1>12, <1>13

-----------------------------------------------------------------------------
(* Requests.  Each first step and each later one is seen as the new state  *)
(* of the request, r, and a change of what is stored.                      *)

LEMMA RequestKeeps ==
    ASSUME IInv, NEW q \in Requests, NEW r \in RequestStates, NEW begun \in BOOLEAN,
           UNCHANGED request, UNCHANGED rows,
           line' \in [Lines -> BOOLEAN], quotes' \in [Lines \X Suppliers -> Nat], asked' \subseteq Lines \X Suppliers,
           pushed' \in [Keys -> Nat], \A k \in Keys : pushed'[k] >= pushed[k],
           req' = [req EXCEPT ![q] = r], By(q, begun), served' \in 0..Budget,
           Addressed(r),
           begun => r.op # "wechat" \/ r.found = {},
           begun => r.op \notin {"hook", "wechat"} \/ r.at # "put",
           r.op = "wechat" /\ sole = q => r.found \subseteq Live /\ UNCHANGED line,
           r.op \in {"hook", "wechat"} /\ r.at = "put" /\ sole = q => UNCHANGED quotes /\ Unquoted(r.who, {r.line}),
           r.op = "wechat" /\ r.at = "put" /\ sole = q => r.line \in Live
    PROVE  IInv'
<1> USE DEF IInv
<1>1. /\ sole' \in Requests \cup {"worker", "none"} /\ sole' \in {q, "none"} /\ ~(sole' = "worker")
      /\ ~begun /\ sole' = q => sole = q
    BY ByTypes, Names
<1>2. Worker' /\ Timeline' /\ seen' \subseteq Arrived' /\ file' \subseteq Arrived'
    BY RequestFrame DEF request
<1>3. req \in [Requests -> RequestStates] /\ req' \in [Requests -> RequestStates] /\ req'[q] = r
    BY DEF Shapes
<1>4. Shapes'
    BY <1>1, <1>2, <1>3 DEF Shapes, request
<1>5. Served'
    BY <1>3 DEF Served, Shapes
<1>6. Undisturbed'
    <2> SUFFICES ASSUME sole' = q
                 PROVE  /\ r.op = "wechat" => r.found \subseteq Live'
                        /\ r.op \in {"hook", "wechat"} /\ r.at = "put" => Unquoted(r.who, {r.line})'
                        /\ r.op = "wechat" /\ r.at = "put" => r.line \in Live'
        BY <1>1, <1>3, Names DEF Undisturbed, Unquoted
    <2>1. CASE begun
        BY <2>1
    <2>2. CASE ~begun
        <3>1. sole = q
            BY <1>1, <2>2
        <3> QED BY <3>1 DEF Live, Unquoted
    <2> QED BY <2>1, <2>2
<1> QED BY <1>2, <1>4, <1>5, <1>6

(* A step of an open request that stores nothing. *)
LEMMA GoKeeps ==
    ASSUME IInv, NEW q \in Requests, NEW r \in RequestStates, Go(q, r), UNCHANGED <<request, stored>>,
           Addressed(r),
           r.op = "wechat" /\ sole = q => r.found \subseteq Live,
           r.op \in {"hook", "wechat"} /\ r.at = "put" /\ sole = q => Unquoted(r.who, {r.line}),
           r.op = "wechat" /\ r.at = "put" /\ sole = q => r.line \in Live
    PROVE  IInv'
<1>1. Shapes
    BY DEF IInv
<1>2. rows' = rows /\ line' \in [Lines -> BOOLEAN] /\ quotes' \in [Lines \X Suppliers -> Nat]
      /\ asked' \subseteq Lines \X Suppliers /\ pushed' \in [Keys -> Nat]
      /\ (\A k \in Keys : pushed'[k] >= pushed[k]) /\ UNCHANGED <<line, quotes>>
    BY <1>1 DEF Shapes, stored
<1>3. req' = [req EXCEPT ![q] = r] /\ By(q, FALSE) /\ served' \in 0..Budget
    BY <1>1 DEF Go, Shapes
<1> QED BY <1>2, <1>3, RequestKeeps

LEMMA Incremented ==
    ASSUME NEW D, NEW f \in [D -> Nat], NEW x
    PROVE  [f EXCEPT ![x] = @ + 1] \in [D -> Nat] /\ \A y \in D : [f EXCEPT ![x] = @ + 1][y] >= f[y]
<1> DEFINE g == [f EXCEPT ![x] = @ + 1]
<1>1. DOMAIN g = D /\ \A y \in D : g[y] = IF y = x THEN f[y] + 1 ELSE f[y]
    OBVIOUS
<1>2. \A y \in D : g[y] \in Nat /\ g[y] >= f[y]
    BY <1>1
<1>3. g \in [D -> Nat]
    BY <1>1, <1>2
<1> QED BY <1>2, <1>3

LEMMA Decremented ==
    ASSUME NEW D, NEW f \in [D -> Nat], NEW x \in D, f[x] > 0
    PROVE  [f EXCEPT ![x] = @ - 1] \in [D -> Nat] /\ \A y \in D : [f EXCEPT ![x] = @ - 1][y] <= f[y]
OBVIOUS

(* One that puts a quotation on a line. *)
LEMMA PutKeeps ==
    ASSUME IInv, NEW q \in Requests, NEW r \in RequestStates, Go(q, r),
           UNCHANGED <<request, line, asked, rows, pushed>>,
           quotes' = [quotes EXCEPT ![<<req[q].line, req[q].who>>] = @ + 1],
           Addressed(r), r.at # "put",
           r.op = "wechat" /\ sole = q => r.found \subseteq Live
    PROVE  IInv'
<1>1. Shapes
    BY DEF IInv
<1>2. quotes' \in [Lines \X Suppliers -> Nat]
    BY <1>1, Incremented DEF Shapes
<1>3. line' \in [Lines -> BOOLEAN] /\ asked' \subseteq Lines \X Suppliers /\ pushed' \in [Keys -> Nat]
      /\ \A k \in Keys : pushed'[k] >= pushed[k]
    BY <1>1 DEF Shapes
<1>4. req' = [req EXCEPT ![q] = r] /\ By(q, FALSE) /\ served' \in 0..Budget
    BY <1>1 DEF Go, Shapes
<1> QED BY <1>2, <1>3, <1>4, RequestKeeps

LEMMA RequestTypes ==
    ASSUME IInv, NEW q \in Requests
    PROVE  /\ req[q] \in RequestStates /\ Addressed(req[q])
           /\ Idle \in RequestStates /\ Addressed(Idle) /\ Idle.op = "none" /\ Idle.at # "put"
           /\ sole = q /\ req[q].op = "wechat" => req[q].found \subseteq Live
<1>1. req[q] \in RequestStates /\ Addressed(req[q])
    BY DEF IInv, Shapes, Served
<1>2. Idle \in RequestStates /\ Addressed(Idle) /\ Idle.op = "none" /\ Idle.at # "put"
    BY DEF Idle, RequestStates, Addressed
<1> QED BY <1>1, <1>2 DEF IInv, Undisturbed

LEMMA GoesOn ==
    ASSUME IInv, NEW q \in Requests, Goes(q)
    PROVE  IInv'
<1>0. /\ req[q] \in RequestStates /\ Addressed(req[q])
      /\ Idle \in RequestStates /\ Addressed(Idle) /\ Idle.op = "none" /\ Idle.at # "put"
      /\ sole = q /\ req[q].op = "wechat" => req[q].found \subseteq Live
    BY RequestTypes
<1>1. CASE HookAsks(q)
    <2> DEFINE r == [req[q] EXCEPT !.at = "put"]
    <2>1. r \in RequestStates /\ r.op = "hook" /\ r.who = req[q].who /\ r.line = req[q].line /\ r.at = "put"
        BY <1>0, <1>1 DEF HookAsks, At, RequestStates
    <2>2. quotes[<<r.line, r.who>>] = 0 /\ req[q].op = "hook"
        BY <1>1, <2>1 DEF HookAsks, At
    <2>5. Addressed(r) /\ Unquoted(r.who, {r.line})
        BY <1>0, <2>1, <2>2 DEF Addressed, Unquoted
    <2>3. Go(q, r) /\ UNCHANGED <<request, stored>>
        BY <1>1 DEF HookAsks
    <2> HIDE DEF r
    <2> QED BY <2>1, <2>3, <2>5, GoKeeps
<1>2. CASE HookEnds(q) \/ WeChatEnds(q)
    <2>1. Go(q, Idle) /\ UNCHANGED <<request, stored>>
        BY <1>2 DEF HookEnds, WeChatEnds
    <2> QED BY <1>0, <2>1, GoKeeps
<1>3. CASE HookPuts(q) \/ FormPuts(q)
    <2>1. Go(q, Idle) /\ UNCHANGED <<request, line, asked, rows, pushed>>
          /\ quotes' = [quotes EXCEPT ![<<req[q].line, req[q].who>>] = @ + 1]
        BY <1>3 DEF HookPuts, FormPuts
    <2> QED BY <1>0, <2>1, PutKeeps
<1>4. CASE WeChatAsks(q)
    <2>1. PICK found \in SUBSET Live : Go(q, [req[q] EXCEPT !.at = "pick", !.quoted = Quoted(req[q].who), !.found = found])
        BY <1>4 DEF WeChatAsks
    <2> DEFINE r == [req[q] EXCEPT !.at = "pick", !.quoted = Quoted(req[q].who), !.found = found]
    <2>2. Quoted(req[q].who) \subseteq Lines /\ Live \subseteq Lines
        BY DEF Quoted, Live
    <2>3. r \in RequestStates /\ r.op = "wechat" /\ r.who = req[q].who /\ r.at = "pick" /\ r.found \subseteq Live
        BY <1>0, <1>4, <2>2 DEF WeChatAsks, At, RequestStates
    <2>4. Addressed(r)
        BY <1>0, <1>4, <2>3 DEF WeChatAsks, At, Addressed
    <2>5. Go(q, r) /\ UNCHANGED <<request, stored>>
        BY <1>4, <2>1 DEF WeChatAsks
    <2> HIDE DEF r
    <2> QED BY <2>3, <2>4, <2>5, GoKeeps
<1>5. CASE WeChatSkips(q)
    <2>1. PICK l \in req[q].found : Go(q, [req[q] EXCEPT !.found = @ \ {l}])
        BY <1>5 DEF WeChatSkips
    <2> DEFINE r == [req[q] EXCEPT !.found = @ \ {l}]
    <2>2. r \in RequestStates /\ r.op = "wechat" /\ r.who = req[q].who /\ r.at = "pick" /\ r.found \subseteq req[q].found
          /\ r.line = req[q].line /\ req[q].op = "wechat"
        BY <1>0, <1>5 DEF WeChatSkips, At, RequestStates
    <2>3. Addressed(r)
        BY <1>0, <2>2 DEF Addressed
    <2>4. Go(q, r) /\ UNCHANGED <<request, stored>>
        BY <1>5, <2>1 DEF WeChatSkips
    <2> HIDE DEF r
    <2> QED BY <1>0, <2>2, <2>3, <2>4, GoKeeps
<1>6. CASE WeChatPicks(q)
    <2>1. PICK l \in req[q].found : /\ quotes[<<l, req[q].who>>] = 0
                                    /\ Go(q, [req[q] EXCEPT !.at = "put", !.line = l])
        BY <1>6 DEF WeChatPicks
    <2> DEFINE r == [req[q] EXCEPT !.at = "put", !.line = l]
    <2>2. r \in RequestStates /\ r.op = "wechat" /\ r.who = req[q].who /\ r.at = "put" /\ r.found = req[q].found
          /\ r.line = l /\ req[q].op = "wechat" /\ l \in Lines
        BY <1>0, <1>6 DEF WeChatPicks, At, RequestStates
    <2>3. Addressed(r) /\ Unquoted(r.who, {r.line})
        BY <1>0, <2>1, <2>2 DEF Addressed, Unquoted
    <2>4. Go(q, r) /\ UNCHANGED <<request, stored>>
        BY <1>6, <2>1 DEF WeChatPicks
    <2> HIDE DEF r
    <2> QED BY <1>0, <2>2, <2>3, <2>4, GoKeeps
<1>7. CASE WeChatPuts(q)
    <2> DEFINE r == [req[q] EXCEPT !.at = "pick", !.found = @ \ {req[q].line}, !.line = 0]
    <2>1. r \in RequestStates /\ r.op = "wechat" /\ r.who = req[q].who /\ r.at = "pick" /\ r.found \subseteq req[q].found
          /\ req[q].op = "wechat"
        BY <1>0, <1>7 DEF WeChatPuts, At, RequestStates
    <2>2. Addressed(r)
        BY <1>0, <2>1 DEF Addressed
    <2>3. Go(q, r) /\ UNCHANGED <<request, line, asked, rows, pushed>>
          /\ quotes' = [quotes EXCEPT ![<<req[q].line, req[q].who>>] = @ + 1]
        BY <1>7 DEF WeChatPuts
    <2> HIDE DEF r
    <2> QED BY <1>0, <2>1, <2>2, <2>3, PutKeeps
<1> QED BY <1>1, <1>2, <1>3, <1>4, <1>5, <1>6, <1>7 DEF Goes

LEMMA Counted == ASSUME NEW a \in Nat, NEW b \in Nat, a < b PROVE a + 1 \in 0..b
OBVIOUS

LEMMA Begins ==
    ASSUME IInv, NEW q \in Requests, NEW r \in RequestStates, Begin(q, r), served < Budget, UNCHANGED <<request, rows>>,
           line' \in [Lines -> BOOLEAN], quotes' \in [Lines \X Suppliers -> Nat], asked' \subseteq Lines \X Suppliers,
           pushed' \in [Keys -> Nat], \A k \in Keys : pushed'[k] >= pushed[k],
           Addressed(r), r.found = {}, r.op \in {"none", "form"} \/ r.at # "put", r.op = "wechat" => UNCHANGED line
    PROVE  IInv'
<1>1. req' = [req EXCEPT ![q] = r] /\ By(q, TRUE) /\ served' \in 0..Budget
    <2>1. served \in Nat /\ Budget \in Nat
        BY BudgetAssumption DEF IInv, Shapes
    <2>2. served' = served + 1 /\ req' = [req EXCEPT ![q] = r] /\ By(q, TRUE)
        BY DEF Begin
    <2>3. served' \in 0..Budget
        BY <2>1, <2>2, Counted
    <2> QED BY <2>2, <2>3
<1> QED BY <1>1, RequestKeeps

LEMMA Opened ==
    ASSUME IInv, NEW q \in Requests, Accepts(q), Opens(q)
    PROVE  IInv'
<1>0. /\ served < Budget /\ Idle \in RequestStates /\ Addressed(Idle) /\ Idle.op = "none" /\ Idle.found = {}
      /\ line \in [Lines -> BOOLEAN] /\ quotes \in [Lines \X Suppliers -> Nat] /\ asked \subseteq Lines \X Suppliers
      /\ pushed \in [Keys -> Nat] /\ \A k \in Keys : pushed[k] >= pushed[k]
    BY RequestTypes DEF Accepts, IInv, Shapes, Idle
<1>1. CASE Webhook(q)
    <2>1. PICK l \in Lines, s \in Suppliers, k \in DOMAIN pushed :
            /\ pushed' = [pushed EXCEPT ![k] = @ + 1]
            /\ Begin(q, IF k[1] = "unknown" THEN Idle
                        ELSE [Idle EXCEPT !.op = "hook", !.at = "check", !.who = s, !.line = l])
        BY <1>1 DEF Webhook
    <2> DEFINE r == [Idle EXCEPT !.op = "hook", !.at = "check", !.who = s, !.line = l]
    <2>2. r \in RequestStates /\ Addressed(r) /\ r.op = "hook" /\ r.at = "check" /\ r.found = {}
        BY DEF Idle, RequestStates, Addressed
    <2>3. pushed' \in [Keys -> Nat] /\ \A y \in Keys : pushed'[y] >= pushed[y]
        BY <1>0, <2>1, Incremented
    <2>4. Begin(q, IF k[1] = "unknown" THEN Idle ELSE r) /\ UNCHANGED <<request, line, quotes, asked, rows>>
        BY <1>1, <2>1 DEF Webhook
    <2> HIDE DEF r
    <2>5. CASE k[1] = "unknown"
        BY <1>0, <2>3, <2>4, <2>5, Begins
    <2>6. CASE k[1] # "unknown"
        BY <1>0, <2>2, <2>3, <2>4, <2>6, Begins
    <2> QED BY <2>5, <2>6
<1>2. CASE WeChat(q)
    <2>1. PICK s \in Suppliers : Begin(q, [Idle EXCEPT !.op = "wechat", !.at = "read", !.who = s])
        BY <1>2 DEF WeChat
    <2> DEFINE r == [Idle EXCEPT !.op = "wechat", !.at = "read", !.who = s]
    <2>2. r \in RequestStates /\ Addressed(r) /\ r.op = "wechat" /\ r.at = "read" /\ r.found = {}
        BY DEF Idle, RequestStates, Addressed
    <2>3. Begin(q, r) /\ UNCHANGED <<request, stored>>
        BY <1>2, <2>1 DEF WeChat
    <2> HIDE DEF r
    <2> QED BY <1>0, <2>2, <2>3, Begins DEF stored
<1>3. CASE Form(q)
    <2>1. PICK l \in Live, s \in Suppliers :
            Begin(q, [Idle EXCEPT !.op = "form", !.at = "put", !.who = s, !.line = l])
        BY <1>3 DEF Form
    <2> DEFINE r == [Idle EXCEPT !.op = "form", !.at = "put", !.who = s, !.line = l]
    <2>2. r \in RequestStates /\ Addressed(r) /\ r.op = "form" /\ r.found = {}
        BY DEF Idle, RequestStates, Addressed, Live
    <2>3. Begin(q, r) /\ UNCHANGED <<request, stored>>
        BY <1>3, <2>1 DEF Form
    <2> HIDE DEF r
    <2> QED BY <1>0, <2>2, <2>3, Begins DEF stored
<1>4. CASE AskOne(q) \/ AskBulk(q)
    <2>1. PICK L \in SUBSET Live, S \in SUBSET Suppliers : asked' = asked \cup (L \X S)
        <3>1. CASE AskOne(q)
            <4>1. PICK l \in Live, S \in SUBSET Suppliers : asked' = asked \cup ({l} \X S)
                BY <3>1 DEF AskOne
            <4>2. {l} \in SUBSET Live
                OBVIOUS
            <4> QED BY <4>1, <4>2
        <3>2. CASE AskBulk(q)
            BY <3>2 DEF AskBulk
        <3> QED BY <1>4, <3>1, <3>2
    <2>2. asked' \subseteq Lines \X Suppliers
        BY <1>0, <2>1 DEF Live
    <2>3. Begin(q, Idle) /\ UNCHANGED <<request, line, quotes, rows, pushed>>
        BY <1>4 DEF AskOne, AskBulk
    <2> QED BY <1>0, <2>2, <2>3, Begins
<1>5. CASE TrashLine(q) \/ RestoreLine(q)
    <2>1. line' \in [Lines -> BOOLEAN]
        BY <1>0, <1>5 DEF TrashLine, RestoreLine
    <2>2. Begin(q, Idle) /\ UNCHANGED <<request, quotes, asked, rows, pushed>>
        BY <1>5 DEF TrashLine, RestoreLine
    <2> QED BY <1>0, <2>1, <2>2, Begins
<1>6. CASE RemoveQuote(q)
    <2>1. PICK x \in DOMAIN quotes : quotes[x] > 0 /\ quotes' = [quotes EXCEPT ![x] = @ - 1]
        BY <1>6 DEF RemoveQuote
    <2>2. quotes' \in [Lines \X Suppliers -> Nat]
        BY <1>0, <2>1, Decremented
    <2>3. Begin(q, Idle) /\ UNCHANGED <<request, line, asked, rows, pushed>>
        BY <1>6 DEF RemoveQuote
    <2> QED BY <1>0, <2>2, <2>3, Begins
<1> QED BY <1>1, <1>2, <1>3, <1>4, <1>5, <1>6 DEF Opens

LEMMA StutterKeeps == ASSUME IInv, UNCHANGED vars PROVE IInv'
<1>1. Shapes'
    BY DEF vars, IInv, Shapes, Arrived
<1> QED BY <1>1, Frames DEF vars, IInv

LEMMA NextKeeps == ASSUME IInv, [Next]_vars PROVE IInv'
<1>1. CASE UNCHANGED vars
    BY <1>1, StutterKeeps
<1>2. CASE Start \/ Works
    BY <1>2, BetweenMails, ReadKeeps, LogKeeps, Extracts DEF Works
<1>3. CASE Crash \/ Post
    BY <1>3, CrashKeeps, PostKeeps
<1>4. CASE \E q \in Requests : Goes(q) \/ (Accepts(q) /\ Opens(q))
    BY <1>4, GoesOn, Opened
<1> QED BY <1>1, <1>2, <1>3, <1>4 DEF Next

LEMMA Invariance == Spec => []IInv
BY InitIInv, NextKeeps, PTL DEF Spec

-----------------------------------------------------------------------------
(* The timeline: whatever crashes, and however often a mail is read again, *)
(* the worker writes a text once, and only a mail whose text is there is   *)
(* remembered as handled.                                                  *)
THEOREM TimelineHolds == Spec => []TimelineAgrees
<1>1. IInv => TimelineAgrees
    BY DEF IInv, Shapes, Timeline, TimelineAgrees, OneRowPerText, SeenAreLogged, Keys
<1> QED BY <1>1, Invariance, PTL

(* The state's shape, for any number of lines, suppliers, mails and        *)
(* requests.                                                               *)
THEOREM TypesHold == Spec => []TypeOK
<1>1. ASSUME IInv PROVE TypeOK
    <2>1. \A q \in Requests : req[q] \in RequestStates /\ Addressed(req[q])
        BY <1>1, RequestTypes
    <2>2. \A q \in Requests : req[q].at = "put" => <<req[q].line, req[q].who>> \in Lines \X Suppliers
        BY <2>1 DEF Addressed
    <2>3. w.pc \in InHand => w.mail \in w.todo /\ w.todo \subseteq Arrived
        BY <1>1 DEF IInv, Worker
    <2>4. w \in WorkerStates /\ w.found \subseteq w.items /\ w.quoted \subseteq w.items /\ w.items \subseteq Lines
        BY <1>1 DEF IInv, Worker, Shapes, WorkerStates
    <2> QED BY <1>1, <2>1, <2>2, <2>3, <2>4
            DEF IInv, Shapes, TypeOK, WorkerStates, RequestStates, Pcs, InHand, Keys
<1> QED BY <1>1, Invariance, PTL

(* First quotations: an actor that reads, asks the AI and writes while no  *)
(* other one acts adds no automatic quotation beside another, and only the *)
(* webhook adds one to a line in the trash.                                *)
THEOREM FirstQuotesHold == Spec => SoloFirstQuote
<1> DEFINE Adds(x) == quotes'[x] > quotes[x] /\ sole' = sole /\ Automatic(sole)
           First1(x) == quotes[x] = 0 /\ (line[x[1]] \/ (sole \in Requests /\ req[sole].op = "hook"))
<1>1. ASSUME IInv, Next, NEW x \in DOMAIN quotes, Adds(x) PROVE First1(x)
    <2>0. quotes \in [Lines \X Suppliers -> Nat] /\ x \in Lines \X Suppliers /\ quotes[x] \in Nat
        BY <1>1 DEF IInv, Shapes
    <2>1. CASE Store
        <3>1. sole = "worker" /\ w.pc = "store"
            BY <1>1, <2>1, Names DEF Store, By, Automatic
        <3>2. x[1] \in w.found /\ x[2] = mail[w.mail].who
            BY <1>1, <2>0, <2>1 DEF Store
        <3>3. w.found \subseteq w.items /\ w.items \subseteq Live /\ Unquoted(mail[w.mail].who, w.found)
            BY <1>1, <3>1 DEF IInv, Undisturbed, Worker
        <3>4. x = <<x[1], x[2]>>
            BY <2>0
        <3> QED BY <3>2, <3>3, <3>4 DEF Unquoted, Live
    <2>2. ASSUME NEW q \in Requests, HookPuts(q) \/ WeChatPuts(q) PROVE First1(x)
        <3>1. sole = q
            BY <1>1, <2>2, Names DEF HookPuts, WeChatPuts, Go, By, Automatic
        <3>2. x = <<req[q].line, req[q].who>>
            BY <1>1, <2>0, <2>2 DEF HookPuts, WeChatPuts
        <3>3. req[q].at = "put" /\ req[q].op \in {"hook", "wechat"}
            BY <2>2 DEF HookPuts, WeChatPuts, At
        <3>4. Unquoted(req[q].who, {req[q].line}) /\ (req[q].op = "wechat" => req[q].line \in Live)
            BY <1>1, <3>1, <3>3 DEF IInv, Undisturbed
        <3> QED BY <3>1, <3>2, <3>3, <3>4 DEF Unquoted, Live
    <2>3. ASSUME NEW q \in Requests, FormPuts(q) PROVE FALSE
        <3>1. sole = q
            BY <1>1, <2>3, Names DEF FormPuts, Go, By, Automatic
        <3> QED BY <1>1, <2>3, <3>1, Names DEF FormPuts, At, Automatic
    <2>4. ASSUME NEW q \in Requests, RemoveQuote(q) PROVE FALSE
        BY <1>1, <2>0, <2>4, Decremented DEF RemoveQuote
    <2>5. quotes' # quotes
        BY <1>1, <2>0
    <2>6. ~(Start \/ Poll \/ Sleep \/ Ignore \/ Read \/ Log \/ Chatter \/ Unanswered \/ Answered \/ Check \/ Save)
        BY <2>5 DEF Start, Poll, Sleep, Ignore, Read, Log, Chatter, Unanswered, Answered, Check, Save, stored
    <2>7. ~(Crash \/ Post)
        BY <2>5 DEF Crash, Post, stored
    <2>8. \A q \in Requests : ~(HookAsks(q) \/ HookEnds(q) \/ WeChatAsks(q) \/ WeChatEnds(q) \/ WeChatSkips(q)
                                \/ WeChatPicks(q))
        BY <2>5 DEF HookAsks, HookEnds, WeChatAsks, WeChatEnds, WeChatSkips, WeChatPicks, stored
    <2>9. \A q \in Requests : ~(Webhook(q) \/ WeChat(q) \/ Form(q) \/ AskOne(q) \/ AskBulk(q) \/ TrashLine(q)
                                \/ RestoreLine(q))
        BY <2>5 DEF Webhook, WeChat, Form, AskOne, AskBulk, TrashLine, RestoreLine, stored
    <2> QED BY <1>1, <2>1, <2>2, <2>3, <2>4, <2>6, <2>7, <2>8, <2>9 DEF Next, Works, Goes, Opens
<1>2. IInv /\ [Next]_vars => [AddsFirst]_vars
    BY <1>1 DEF AddsFirst
<1> QED BY <1>2, Invariance, PTL DEF Spec, SoloFirstQuote
================================================================================
