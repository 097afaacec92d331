--------------------------- MODULE Correspondence ---------------------------
(***************************************************************************)
(* What suppliers write about one consignment: the worker that polls the   *)
(* mailbox, the messages pushed by mail and WeChat gateways, and the       *)
(* public quotation form (inquiries/email_inbound_worker.py, the inbound   *)
(* part of inquiries/routes.py, inquiries/public_quotes.py).               *)
(*                                                                         *)
(* A quotation is its line and its supplier; of a message the model keeps  *)
(* who sent it and a text.  The mailbox and the AI service are external.   *)
(***************************************************************************)
EXTENDS Naturals, FiniteSets

CONSTANTS
    Lines,          \* the consignment's lines, in the order they are listed
    Suppliers,
    Texts,
    Mails,          \* mails, in the order they arrive
    Kinds,          \* Kinds[m]: what the mail m may be
    Starts,         \* the live lines and the requests for quotation there are at first
    Requests,       \* requests that may be open at once
    Window,         \* how many mails a poll reads
    Budget,         \* how many requests are served
    Crashes         \* how often the process dies

MailKinds == [from : {"supplier", "us"}, who : Suppliers \cup {"unknown"}, reply : BOOLEAN, coded : BOOLEAN,
              body : SUBSET Lines, subject : SUBSET Lines, attached : BOOLEAN, text : Texts \cup {"blank"}, id : BOOLEAN]

ASSUME OrderAssumption == Lines \subseteq Nat /\ Mails \subseteq Nat /\ IsFiniteSet(Mails)
ASSUME NamesAssumption == Suppliers \cap {"unknown", "us"} = {} /\ Requests \cap {"worker", "none"} = {}
ASSUME KindsAssumption == Kinds \in [Mails -> SUBSET MailKinds]
ASSUME StartsAssumption == \A s \in Starts : s.live \subseteq Lines /\ s.asked \subseteq Lines \X Suppliers
ASSUME BudgetAssumption == {Window, Budget, Crashes} \subseteq Nat

VARIABLES
    mail,           \* mail[m]: what has arrived, or NoMail
    line,           \* line[l]: whether the line is live
    quotes,         \* quotes[l, s]: live quotations of s for l
    asked,          \* the <<line, supplier>> with a request for quotation
    rows,           \* rows[k]: timeline rows the worker wrote with this sender and text
    pushed,         \* pushed[k]: those that gateways delivered
    seen, file,     \* handled mails, in memory and in processed_email_ids.json
    w,              \* where the worker is
    req,            \* req[q]: where the request q is
    sole,           \* the last actor, if no other acted since it began to read
    served, crashes

vars == <<mail, line, quotes, asked, rows, pushed, seen, file, w, req, sole, served, crashes>>
stored == <<line, quotes, asked, rows, pushed>>

Senders == Suppliers \cup {"unknown", "us"}
NoMail == [from |-> "none"]
Asleep == [pc |-> "idle", todo |-> {}, mail |-> 0, items |-> {}, quoted |-> {}, found |-> {}]
Down == [Asleep EXCEPT !.pc = "down"]
Idle == [op |-> "none", at |-> "start", who |-> "unknown", line |-> 0, quoted |-> {}, found |-> {}]

First(S) == CHOOSE x \in S : \A y \in S : x <= y
Live == {l \in Lines : line[l]}
Quoted(s) == {l \in Live : s \in Suppliers /\ quotes[l, s] > 0}
Arrived == {m \in Mails : mail[m] # NoMail}

(* An actor acts; begun: this is where it starts to read. *)
By(actor, begun) == sole' = IF begun \/ sole = actor THEN actor ELSE "none"

-----------------------------------------------------------------------------
(* Mails *)

(* The last ones of each folder. *)
View == LET In(who) == {m \in Arrived : mail[m].from = who}
            Last(S) == {m \in S : Cardinality({k \in S : k > m}) < Window}
        IN  Last(In("supplier")) \cup Last(In("us"))
(* The batch in its order: INBOX before Sent. *)
Foremost(m) == \A k \in w.todo : IF mail[m].from = mail[k].from THEN m <= k ELSE mail[m].from = "supplier"

Sender(m) == IF mail[m].from = "us" THEN "us" ELSE mail[m].who
Key(m) == <<Sender(m), mail[m].text>>
Known(m) == mail[m].who \in Suppliers

(* Our own first letters, and mails with nothing in them. *)
Unsolicited(m) == mail[m].from = "us" /\ ~mail[m].reply
Blank(m) == mail[m].text = "blank" /\ ~mail[m].attached

(* The consignment's code, a product on a live line, or an earlier RFQ to  *)
(* the supplier; an RFQ token is never recognised, since a decoded one has *)
(* no inquiry_item_id.                                                     *)
Matched(m) ==
    \/ mail[m].coded
    \/ (mail[m].body \cup mail[m].subject) \cap Live # {}
    \/ \E l \in Lines : <<l, mail[m].who>> \in asked

(* The line a mail is about: one its body names, the unquoted ones first   *)
(* if that one is quoted; one its subject names; one not quoted yet.       *)
Target(m, items, quoted) ==
    LET inBody == mail[m].body \cap items
        named == IF inBody # {} THEN inBody ELSE mail[m].subject \cap items
    IN  IF named # {}
        THEN IF First(named) \in quoted /\ inBody \ quoted # {} THEN First(inBody \ quoted) ELSE First(named)
        ELSE IF Known(m) /\ items \ quoted # {} THEN First(items \ quoted) ELSE First(items)

Exhausted(m, items, quoted) == Known(m) /\ items \subseteq quoted

(* The gate: only a supplier's first conversation about a line is read by the AI. *)
FirstTalk(m, items, quoted) ==
    /\ mail[m].from = "supplier" /\ Known(m)
    /\ ~Exhausted(m, items, quoted)
    /\ Target(m, items, quoted) \in quoted => mail[m].attached \/ mail[m].body \cap (items \ quoted) # {}

-----------------------------------------------------------------------------
(* The worker *)

worker == <<mail, req, served, crashes>>

(* EmailInboundWorker(), start *)
Start == /\ w.pc = "down" /\ w' = Asleep /\ seen' = file
         /\ UNCHANGED <<worker, stored, file, sole>>

(* The fetch of a poll. *)
Poll == /\ w.pc = "idle" /\ View # {}
        /\ w' = [w EXCEPT !.pc = "next", !.todo = View]
        /\ UNCHANGED <<worker, stored, seen, file, sole>>

(* The batch is done; the worker sleeps. *)
Sleep == /\ w.pc = "next" /\ w.todo = {} /\ w' = Asleep
         /\ UNCHANGED <<worker, stored, seen, file, sole>>

Dropped == [Asleep EXCEPT !.pc = "next", !.todo = w.todo \ {w.mail}]

(* (mutant) Only what this process remembers is known to be logged. *)
Remembered(m) == m \in seen
(* There is a row of the timeline this mail would repeat. *)
Logged(m) == rows[Key(m)] + pushed[Key(m)] > 0

(* (mutant) Nor is what the timeline shows already. *)
IgnoredLogged(m) == m \in seen \/ Unsolicited(m) \/ Blank(m) \/ ~Matched(m) \/ Live = {} \/ Logged(m)
(* Nothing comes of the mail. *)
Ignored(m) == m \in seen \/ Unsolicited(m) \/ Blank(m) \/ ~Matched(m) \/ Live = {}
Ignore == /\ w.pc = "next"
          /\ \E m \in w.todo : Foremost(m) /\ Ignored(m) /\ w' = [w EXCEPT !.todo = @ \ {m}]
          /\ UNCHANGED <<worker, stored, seen, file, sole>>

(* _process_single_email, up to the look for the same text in the timeline. *)
Read ==
    /\ w.pc = "next"
    /\ \E m \in w.todo :
        /\ Foremost(m) /\ ~Ignored(m)
        /\ w' = [w EXCEPT !.mail = m, !.items = Live, !.quoted = Quoted(mail[m].who),
                    !.pc = IF ~Logged(m) THEN "log" ELSE IF Exhausted(m, Live, Quoted(mail[m].who)) THEN "save" ELSE "talk"]
    /\ By("worker", TRUE)
    /\ UNCHANGED <<worker, stored, seen, file>>

Log == /\ w.pc = "log"
       /\ rows' = [rows EXCEPT ![Key(w.mail)] = @ + 1]
       /\ w' = [w EXCEPT !.pc = "talk"]
       /\ By("worker", FALSE)
       /\ UNCHANGED <<worker, line, quotes, asked, pushed, seen, file>>

(* The mail is left unread by the AI, and is looked at again by the next poll. *)
Chatter == /\ w.pc = "talk" /\ ~FirstTalk(w.mail, w.items, w.quoted)
           /\ w' = Dropped
           /\ UNCHANGED <<worker, stored, seen, file, sole>>

(* The AI service fails: so does the mail. *)
Unanswered == /\ w.pc = "talk" /\ FirstTalk(w.mail, w.items, w.quoted)
              /\ w' = Dropped
              /\ UNCHANGED <<worker, stored, seen, file, sole>>

(* It names the lines it found a price for, at times none or wrong ones. *)
Answered == /\ w.pc = "talk" /\ FirstTalk(w.mail, w.items, w.quoted)
            /\ \E found \in SUBSET w.items : w' = [w EXCEPT !.pc = "check", !.found = found]
            /\ UNCHANGED <<worker, stored, seen, file, sole>>

(* (mutant) Lines that are quoted already are not left out. *)
FreshAll(s, found) == found
(* existing_check: the lines s has no live quotation for. *)
Fresh(s, found) == {l \in found : quotes[l, s] = 0}

Check == /\ w.pc = "check"
         /\ LET fresh == Fresh(mail[w.mail].who, w.found)
            IN  w' = [w EXCEPT !.found = fresh, !.pc = IF fresh = {} THEN "save" ELSE "store"]
         /\ By("worker", FALSE)
         /\ UNCHANGED <<worker, stored, seen, file>>

Store == /\ w.pc = "store"
         /\ quotes' = [x \in DOMAIN quotes |->
                        quotes[x] + IF x[1] \in w.found /\ x[2] = mail[w.mail].who THEN 1 ELSE 0]
         /\ w' = [w EXCEPT !.pc = "save"]
         /\ By("worker", FALSE)
         /\ UNCHANGED <<worker, line, asked, rows, pushed, seen, file>>

(* _save_seen_id: a mail without a Message-ID is never remembered. *)
Save == /\ w.pc = "save" /\ w' = Dropped
        /\ IF mail[w.mail].id
           THEN seen' = seen \cup {w.mail} /\ file' = seen'
           ELSE UNCHANGED <<seen, file>>
        /\ UNCHANGED <<worker, stored, sole>>

(* The process dies, and with it its open requests.  A file that was being *)
(* written is cut off and read as empty.                                   *)
Crash ==
    /\ w.pc # "down" /\ crashes < Crashes
    /\ crashes' = crashes + 1 /\ w' = Down /\ seen' = {} /\ sole' = "none"
    /\ req' = [q \in Requests |-> Idle]
    /\ file' \in IF w.pc = "save" /\ mail[w.mail].id THEN {file, {}} ELSE {file}
    /\ UNCHANGED <<mail, stored, served>>

Works == Poll \/ Sleep \/ Ignore \/ Read \/ Log \/ Chatter \/ Unanswered \/ Answered \/ Check \/ Store \/ Save

-----------------------------------------------------------------------------
(* Requests *)

request == <<mail, seen, file, w, crashes>>

Accepts(q) == w.pc # "down" /\ req[q] = Idle /\ served < Budget
Begin(q, r) == served' = served + 1 /\ req' = [req EXCEPT ![q] = r] /\ By(q, TRUE)
Go(q, r) == req' = [req EXCEPT ![q] = r] /\ By(q, FALSE) /\ UNCHANGED served
At(q, op, at) == req[q].op = op /\ req[q].at = at

(* inbound_quotation_webhook: the row is committed first.  The line is     *)
(* named or the newest; neither it nor the supplier need be live or right. *)
(* For an unknown sender the user who proposed the line is put in as the   *)
(* supplier, and the foreign key refuses the quotation.                    *)
Webhook(q) == \E l \in Lines, s \in Suppliers, k \in DOMAIN pushed :
    /\ k[1] \in {s, "unknown"} /\ k[2] \in Texts
    /\ pushed' = [pushed EXCEPT ![k] = @ + 1]
    /\ Begin(q, IF k[1] = "unknown" THEN Idle
                ELSE [Idle EXCEPT !.op = "hook", !.at = "check", !.who = s, !.line = l])
    /\ UNCHANGED <<request, line, quotes, asked, rows>>

(* No quotation of the supplier's for the line, and the AI reads a price. *)
HookAsks(q) == /\ At(q, "hook", "check") /\ quotes[req[q].line, req[q].who] = 0
               /\ Go(q, [req[q] EXCEPT !.at = "put"])
               /\ UNCHANGED <<request, stored>>
(* There is a quotation, no price is read, or something fails. *)
HookEnds(q) == /\ req[q].op = "hook" /\ Go(q, Idle) /\ UNCHANGED <<request, stored>>
HookPuts(q) == /\ At(q, "hook", "put")
               /\ quotes' = [quotes EXCEPT ![<<req[q].line, req[q].who>>] = @ + 1]
               /\ Go(q, Idle)
               /\ UNCHANGED <<request, line, asked, rows, pushed>>

(* wechat_inbound_message_callback.  Its row has a sender no mail has, and *)
(* is left out; a supplier is guessed if the sender is not known.          *)
WeChat(q) == \E s \in Suppliers :
    /\ Begin(q, [Idle EXCEPT !.op = "wechat", !.at = "read", !.who = s])
    /\ UNCHANGED <<request, stored>>
WeChatAsks(q) == /\ At(q, "wechat", "read") /\ ~(Live \subseteq Quoted(req[q].who))
                 /\ \E found \in (SUBSET Live) \ {{}} :
                        Go(q, [req[q] EXCEPT !.at = "pick", !.quoted = Quoted(req[q].who), !.found = found])
                 /\ UNCHANGED <<request, stored>>
(* After the last line found, or before it if something fails. *)
WeChatEnds(q) == /\ req[q].op = "wechat" /\ Go(q, Idle) /\ UNCHANGED <<request, stored>>
(* One priced line after the other, each committed on its own. *)
WeChatSkips(q) == /\ At(q, "wechat", "pick")
                  /\ \E l \in req[q].found : /\ l \in req[q].quoted \/ quotes[l, req[q].who] > 0
                                             /\ Go(q, [req[q] EXCEPT !.found = @ \ {l}])
                  /\ UNCHANGED <<request, stored>>
(* (mutant) The line is lost between the two. *)
WeChatPicksNone(q) == /\ At(q, "wechat", "pick") /\ req[q].found # {}
                      /\ Go(q, [req[q] EXCEPT !.at = "put"])
                      /\ UNCHANGED <<request, stored>>
WeChatPicks(q) == /\ At(q, "wechat", "pick")
                  /\ \E l \in req[q].found : /\ l \notin req[q].quoted /\ quotes[l, req[q].who] = 0
                                             /\ Go(q, [req[q] EXCEPT !.at = "put", !.line = l])
                  /\ UNCHANGED <<request, stored>>
WeChatPuts(q) == /\ At(q, "wechat", "put")
                 /\ quotes' = [quotes EXCEPT ![<<req[q].line, req[q].who>>] = @ + 1]
                 /\ Go(q, [req[q] EXCEPT !.at = "pick", !.found = @ \ {req[q].line}, !.line = 0])
                 /\ UNCHANGED <<request, line, asked, rows, pushed>>

(* submit_public_rfq_quotation, once for each time the form is sent. *)
Form(q) == \E l \in Live, s \in Suppliers :
    /\ <<l, s>> \in asked
    /\ Begin(q, [Idle EXCEPT !.op = "form", !.at = "put", !.who = s, !.line = l])
    /\ UNCHANGED <<request, stored>>
FormPuts(q) == /\ At(q, "form", "put")
               /\ quotes' = [quotes EXCEPT ![<<req[q].line, req[q].who>>] = @ + 1]
               /\ Go(q, Idle)
               /\ UNCHANGED <<request, line, asked, rows, pushed>>

(* Staff: create_item_rfq; create_bulk_rfqs; trash and restore of a line;  *)
(* removal of a quotation.                                                 *)
AskOne(q) == \E l \in Live, S \in SUBSET Suppliers :
    /\ asked' = asked \cup ({l} \X S) /\ Begin(q, Idle)
    /\ UNCHANGED <<request, line, quotes, rows, pushed>>
AskBulk(q) == \E L \in (SUBSET Live) \ {{}}, S \in SUBSET Suppliers :
    /\ asked' = asked \cup (L \X S) /\ Begin(q, Idle)
    /\ UNCHANGED <<request, line, quotes, rows, pushed>>
TrashLine(q) == \E l \in Live :
    /\ line' = [line EXCEPT ![l] = FALSE] /\ Begin(q, Idle)
    /\ UNCHANGED <<request, quotes, asked, rows, pushed>>
RestoreLine(q) == \E l \in Lines \ Live :
    /\ line' = [line EXCEPT ![l] = TRUE] /\ Begin(q, Idle)
    /\ UNCHANGED <<request, quotes, asked, rows, pushed>>
RemoveQuote(q) == \E x \in DOMAIN quotes :
    /\ quotes[x] > 0 /\ quotes' = [quotes EXCEPT ![x] = @ - 1] /\ Begin(q, Idle)
    /\ UNCHANGED <<request, line, asked, rows, pushed>>

Opens(q) == Webhook(q) \/ WeChat(q) \/ Form(q) \/ AskOne(q) \/ AskBulk(q) \/ TrashLine(q) \/ RestoreLine(q) \/ RemoveQuote(q)
Goes(q) == HookAsks(q) \/ HookEnds(q) \/ HookPuts(q) \/ WeChatAsks(q) \/ WeChatEnds(q) \/ WeChatSkips(q)
           \/ WeChatPicks(q) \/ WeChatPuts(q) \/ FormPuts(q)

(* A mail arrives in one of the folders. *)
Post == /\ \E m \in Mails \ Arrived :
            /\ \A k \in Mails \ Arrived : m <= k
            /\ \E kind \in Kinds[m] : mail' = [mail EXCEPT ![m] = kind]
        /\ UNCHANGED <<stored, seen, file, w, req, sole, served, crashes>>

-----------------------------------------------------------------------------
Init ==
    /\ mail = [m \in Mails |-> NoMail]
    /\ \E start \in Starts : line = [l \in Lines |-> l \in start.live] /\ asked = start.asked
    /\ quotes = [x \in Lines \X Suppliers |-> 0]
    /\ rows = [k \in Senders \X (Texts \cup {"blank"}) |-> 0]
    /\ pushed = rows
    /\ seen = {} /\ file = {}
    /\ w = Down /\ req = [q \in Requests |-> Idle] /\ sole = "none"
    /\ served = 0 /\ crashes = 0

Next == Start \/ Works \/ Crash \/ Post \/ \E q \in Requests : Goes(q) \/ (Accepts(q) /\ Opens(q))
Spec == Init /\ [][Next]_vars

(* The server is started again, its loop runs on, and the AI service       *)
(* answers at times.                                                       *)
Fairness == WF_vars(Start) /\ WF_vars(Works) /\ SF_vars(Answered)
FairSpec == Spec /\ Fairness

-----------------------------------------------------------------------------
(* Properties *)

(* Type correctness: the worker deals with mails of its batch and lines it read. *)
TypeOK ==
    /\ mail \in [Mails -> MailKinds \cup {NoMail}]
    /\ line \in [Lines -> BOOLEAN] /\ quotes \in [Lines \X Suppliers -> Nat]
    /\ asked \subseteq Lines \X Suppliers
    /\ {rows, pushed} \subseteq [Senders \X (Texts \cup {"blank"}) -> Nat]
    /\ seen \subseteq Arrived /\ file \subseteq Arrived
    /\ w.pc \in {"down", "idle", "next", "log", "talk", "check", "store", "save"}
    /\ w.pc \in {"log", "talk", "check", "store", "save"} => w.mail \in w.todo /\ w.todo \subseteq Arrived
    /\ w.found \subseteq w.items /\ w.items \subseteq Lines /\ w.quoted \subseteq w.items
    /\ \A q \in Requests : /\ req[q].op \in {"none", "hook", "wechat", "form"}
                            /\ req[q].at \in {"start", "check", "read", "pick", "put"}
                            /\ req[q].at = "put" => <<req[q].line, req[q].who>> \in DOMAIN quotes
    /\ sole \in Requests \cup {"worker", "none"}
    /\ served \in 0..Budget /\ crashes \in 0..Crashes

(* However often a mail is read again, after crashes, with its             *)
(* Message-ID lost or missing, or resent under another one, the worker     *)
(* writes its text into the timeline once ("prevents double-poll           *)
(* duplicates").                                                           *)
OneRowPerText == \A k \in DOMAIN rows : rows[k] <= 1
(* And it remembers a mail as handled, in memory or on disk, only when the *)
(* timeline shows it: what a crash cuts short is read again.               *)
SeenAreLogged == \A m \in seen \cup file : Logged(m)
TimelineAgrees == OneRowPerText /\ SeenAreLogged

(* The AI's quotations are first ones: where nobody else acts between what *)
(* it reads and what it writes, no automatic quotation joins another live  *)
(* one of the same supplier and line, and only the webhook puts one on a   *)
(* line in the trash.  (Two that overlap, and the public form, do add      *)
(* second ones.)                                                           *)
Automatic(a) == a = "worker" \/ (a \in Requests /\ req[a].op \in {"hook", "wechat"})
AddsFirst == \A x \in DOMAIN quotes :
    quotes'[x] > quotes[x] /\ sole' = sole /\ Automatic(sole) =>
        quotes[x] = 0 /\ (line[x[1]] \/ (sole \in Requests /\ req[sole].op = "hook"))
SoloFirstQuote == [][AddsFirst]_vars

Due(m) == m \in View /\ ~Unsolicited(m) /\ ~Blank(m) /\ Matched(m) /\ Live # {}

(* A mail that stays among the last ones of its folder and belongs to the  *)
(* consignment reaches the timeline, whatever crashes.                     *)
Unrecorded(m) == Due(m) /\ ~Logged(m)
(* A supplier's first word on a line is not left to the AI for ever: if it *)
(* stays such, the AI reads it and the mail is remembered.                 *)
Waiting(m) ==
    /\ Due(m) /\ mail[m].id /\ m \notin seen
    /\ FirstTalk(m, Live, Quoted(mail[m].who))
NoMailWaits == \A m \in Mails : []<>~(Unrecorded(m) \/ Waiting(m))
=============================================================================
