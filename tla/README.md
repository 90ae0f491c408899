# Verification of ulist

TLA+ models of [ulist](https://github.com/wansing/ulist), a mailing list server
in Go, with TLC runs on small instances and proofs for all instances. Every
definition is translated from the code; `PROJECT.json` names the lines of each.

    tlc -config lmtp_retry.cfg MCLmtp.tla     # model-check one run
    tlapm LmtpProof.tla                       # check the proofs

Contents: the system, the modules, the runs, fairness, what is proved, where
the code disagrees with its comments, what is left out, the plan.

## 1. The system

ulist is one process. It takes mail from an MTA over LMTP, forwards it to the
receivers of a list through `sendmail`, keeps mail for moderators in a spool
folder, and offers a web interface to administrators, moderators and members.

| Part | Source | State | Operations |
|---|---|---|---|
| LMTP server | `lmtp.go`, `errors.go` | a session per connection: `isBounce`, `Lists`; the stack of `data()` | Mail, Rcpt, Reset, Data |
| List actions | `list.go`, `action.go`, `status.go` | two rate limit maps in memory | GetAction, CreateHMAC, ValidateHMAC, Send{Join,Leave}Checkback |
| List database | `repo/sqlite/list.go` | tables list, member, known | Create, Update, Delete, Add/Update/RemoveMembers, Add/RemoveKnowns, queries |
| Moderation queue | `mod.go`, `mailutil/message.go` | files in `spool/<list id>/` | Save, ReadMessage, DeleteModeratedMail |
| Web interface | `web/web.go` | none of its own between requests (sessions by a library) | mod, ask/confirm join and leave, administration |
| Forwarding, notifications | `ulist.go`, `mailutil/header.go`, `footer.go` | none | Forward, Notify, NotifyMods, AddMembers, RemoveMembers |
| Outgoing mail | `mailutil/mta.go` | none | Send, with a timeout of ten seconds |
| GDPR log | `filelog/filelogger.go` | an open file, a logger, a lock | Printf, Close |
| Socketmap server | `sockmap/srv.go` | listeners, connections, channel `done`, a lock | Serve, handleConn, Close |
| Startup, shutdown | `ulist.go`, `cmd/ulist/ulist.go` | wait group, signal channel | ListenAndServe, deferred calls |
| Users, login, captcha | `repo/sqlite/user.go`, `web/auth`, `web/captcha` | passwords, cookies | Authenticate |

How they interact: LMTP sessions and web handlers are goroutines. They share
the database, the spool folders, two maps without a lock and the GDPR logger,
and call one another directly. No lock is held between two calls of the
database, so what a handler has read may be out of date when it uses it.
Outside the process are the MTA, which repeats a transaction until it has an
answer, `sendmail`, browsers with old forms, and people with old links.

What is hard, and which property makes it correct:

| Part | Hard | Must hold |
|---|---|---|
| LMTP | several lists and one answer; retries; a client that gave up while `data()` goes on; a crash; the list changed or deleted since RCPT; a membership that changes between the two looks at it; connections used for many mails | no mail lost, none multiplied but by tries, nothing unfit forwarded, every mail settled, nobody served without a right to it |
| Moderation | moderators with old forms on one queue; a file visible while written; a crash between forward and delete; ids of deleted lists used again | no mail lost, each decided once, what is reported is done, queues do not mix |
| Joining, leaving, administration | permission, check and change in different transactions; links that can be reused; ids that change hands; the log written after the change; the rate limit recorded after the mail | members were let in and roles given, for this list; the log agrees with the database; no flood of mails |
| Database | replaced rows, ids that come back | nothing of a deleted list reaches the next one, but by handlers that had loaded it before |
| GDPR log | write errors, Close during Printf | what is reported is written, no leak |
| Socketmap | Close while a connection or the listener is being registered; requests that arrive in pieces | nobody is served after Close, everything ends, no wrong answer is taken |
| Forwarding | fields folded, joined and left empty; lists that hide senders; lists, redirections and notifications that lead back | what is written is read again, nobody hidden is named as a sender, every mail ends |
| Shutdown | a wait group that is added to while it is waited for; web handlers nobody waits for; a start that fails half way | databases outlive those who are waited for, changes are logged, the process ends |
| Pages of the queue | no mail, a full last page, pages that do not exist | every mail is on one page that links lead to |

The complete list of hazards, each at its line and with its properties, is in
`PROJECT.json` ("hazards").

## 2. The modules

    ListRepo        the three tables and their transactions
      ListRepoProof lemmas about them
      Lmtp          EXTENDS ListRepo; LMTP sessions, MTA, administrators, crashes
        LmtpProof   what a session knows; the promise; who is served
        MCLmtp      catalogue of mails and small databases
      Moderation    EXTENDS ListRepo; spool folders and moderators' forms
        ModerationProof   the queue, and the pages of its form
        MCModeration
      Checkback     EXTENDS ListRepo; joining, leaving, administration, rate limit, log
        CheckbackProof
        MCCheckback
    AtLeastOnce     what Lmtp promises the MTA; Lmtp implements it
    ModQueue        what the moderation queue promises; Moderation implements it
    HeaderFold      a header on the wire, and what a reader makes of it
      Forwarding    EXTENDS HeaderFold; one mail over several lists
        ForwardingProof   folding and reading back; hidden senders
        MCForwarding
    FileLogger      the GDPR log file            FileLoggerProof, MCFileLogger
    Sockmap         the socketmap server         SockmapProof, MCSockmap
    Shutdown        the process; composes INSTANCEs of Sockmap and FileLogger
        ShutdownProof     uses the lemmas of FileLoggerProof
        MCShutdown
    Paging          pages of the moderators' form; its theorems are in ModerationProof

Lmtp, Moderation and Checkback share ListRepo and not each other's state: what
two of them would tell each other (rows of the tables, a file in the spool) is an
action of the environment in each. Forwarding takes a transaction for one step
and Lmtp takes a header for what its checks see; Shutdown has the transactions
with the steps that touch what main closes.

**ListRepo.** A `*List` is a copy of a row, and every operation takes such a
copy and finds rows by its id, as the SQL does. Thus a handler with an old copy
works on whatever has that id now. `NextId` is SQLite's rule for an `INTEGER
PRIMARY KEY` without `AUTOINCREMENT`: largest id plus one. A transaction is one
step, as SQLite serialises them.

**Lmtp.** `sess[s]` holds the fields of `lmtpSession` and the stack of its
`data()`: `pc`, the list in hand `i`, the answer `code`. One action stands for
the code between two calls that other goroutines can come between: `Data` for
the checks before the loop, `Bounce`, `Command`, `Checkback`, `Decide`
(GetAction), `Forward`, `Save` and `NotifyMods` for one list. `Command` is the
first look at the membership (lmtp.go:270 and 280) with the rate limit;
`Checkback` is the second, in `SendJoinCheckback` and `SendLeaveCheckback`
(list.go:155 and 205), with the mail: if the membership has changed in between,
nothing is sent and nothing recorded, there is no error, and `data()` goes on. A
reply is reduced to its class, since the MTA acts on that only. `live` is FALSE when the client is gone
and `data()` goes on. A mail is a record of what `data()` looks at; `bad` names
the parts that do not parse. `Hangup`, `Crash` and failing calls count as
faults. The history variables `copies`, `forwarded`, `everRole`, `everPass`,
`everReceiver`, `deletedInHand` and `overtaken` change nothing and serve
properties only; `overtaken` are the commands between whose two looks the
membership of their sender was changed.

**AtLeastOnce.** The promise, without sessions or databases: an item is acted on
at most as often as it was tried, and "delivered" is said only if it was, or if
the item is a command that somebody else has overtaken while it was being tried.
The variables `fate`, `tries`, `copies` and `overtaken` of Lmtp are those of
AtLeastOnce; the other variables are hidden.

**Moderation.** `spool` is a set of files with a folder and whether all is
written. `saver[n]` is the transaction that saves a file: list loaded, file
created under its final name, content written, or one of these failed. `web[u]`
is the POST handler of a moderator: the list it loaded, the files still to do,
the file in hand and what ReadMessage returned. `Remove`, `Forward`, `Unlink`,
`Known` are the calls of the switch in `mod`, in their order, each with its
failure. `limit` holds the bounds of a behaviour and is chosen in `Init`, so that
one run has two small instances in place of one that is too large.

**ModQueue.** The queue without folders, forms and crashes: a file is offered
under a name that is used once; from the moment its sender is told that it is
kept, it leaves the queue only by way of the list or by a moderator's word.
`ImplementsQueue` maps the spool folder of the file's list to `queue`, an answer
of success to `kept`, and says that every step of Moderation is a step of
ModQueue or none.

**Checkback.** A request is at one of the calls of asking (`rate`, `lookup`,
`mail`, `record`), of confirming (`check`, `commit`, `log`), or of an
administrator (`auth`, `commit`, `log`, for a new list also `create` and
`reload`). A link is a list, its secret, a person and a day: the HMAC covers
nothing else, so the same link serves joining and leaving. `hmacKey` gives every
list a secret that no list had before; a request remembers the one of the list
it has loaded, which tells a deleted list from the one that has its id now.
`Authorize` is `requireAdminPermission` with its ignored error. `admitted` is
history: who has been let in by an administrator, or has asked to join when the
list was open for signup, since the list was created.

**HeaderFold.** The wire is a sequence of tokens: a name with its colon, white
space, the end of a line, and ink. `Round` is the loop body of
`headerWritelnFold`, `Crop` its choice of where to cut, `Lines` what has been
written after as many rounds as the body has characters, which is enough for
every body (proved). `ReadHeader` is what `net/mail` makes of the lines: where
the header ends, where fields start, and the body of each with its
continuations.

**Forwarding.** A mail in transit is a header, with an envelope, and by whom the
header was written; an address in a header is a box with the name it shows and
the address it leads to. `Receive` is `data()` for a list address, with the
notifications of `NotifyMods` to those who are notified of the queue, lists
among them; `Bounce` is `data()` for a bounce address, `Rewritten` the assignments of `Forward`, `Moderate` a
moderator's decision about a mail read from its file, and `Deliver` a person's
mailbox, which takes, refuses or redirects. To stands for To and Cc. A field
whose name is too long to be written makes `Forward` and `Save` fail; a mail
that fails is tried again until the MTA notifies its sender. What is made of
somebody's header may contain anything a header can, also the names of fields:
an empty field takes the line after it for its body.

**FileLogger.** `file` and `target` are the files of `FileLogger.file` and of
its `log.Logger`, which the code sets together once and never again.

**Sockmap.** The read of `srv.listeners` without the lock is a data race with
the append in Serve: Close sees no listener, the listener, or half of a slice
header, which ends the process. A request comes whole or in two pieces, and
`handleConn` answers what one Read returns.

**Shutdown.** `main` is the step that main and ListenAndServe have come to, and
`deferred` the stack of their deferred calls; a step that fails returns, and the
calls run from the top of the stack. `dbs`, `lmtp` and `web` are what these steps
open and close. A transaction is at one of the steps of `data()` between
`Waiting.Add` and `Waiting.Done`. `wait` is what main knows of the wait group,
with the window in which an Add panics ("WaitGroup misuse"); if Done panics
then, main is never woken (`stuck`). `Commit` and `CallLog` are the halves of
AddMembers and RemoveMembers.

**Paging.** `Page` is the page that is shown if some page is asked for, `First`
and `Shown` the slice of files on it, `PageLinks` the links at its foot.

Definitions marked "Mutant" are alternatives with a plausible error, one for
each property: with it in place of the original, TLC finds the property
violated.

## 3. The runs

Bounds are constants named Max... or fields of `limit`, tested in guards. They
limit the environment (mails, tries, faults, changes by administrators), not the
program.

| Run | Asks | Instance |
|---|---|---|
| lmtp_mails | no mail lost, nothing unfit forwarded, no false bounce | mails that cover every branch of `data()`, two of them sent over one connection and tried twice, one fault, two lists |
| lmtp_retry | no mail lost, at least once, once per try, refinement of AtLeastOnce, the inductive invariant | a mail to two lists, a request to join and one to leave, of which one is sent; two connections, two tries, two faults, one change of the database, also between the two looks at a membership |
| lmtp_change | rights of senders and receivers, every mail settles | one mail, two tries, one fault, three changes, one a deletion: enough to delete a list, give its id to another and add a member there |
| mod | no mail lost, decided once, what is reported is done, queues do not mix, refinement of ModQueue | one mail and a fault anywhere; either two moderators with forms that may be old, or one and three changes: delete, create, add a moderator |
| join_leave | members were let in, roles given and kept, the log agrees, one mail per week | two requests; either over a week with a fault and an administrator, or with an administrator and the superadmin who delete the list and create it again, with one or no fault |
| forward | the header survives, hidden senders are not named as senders, every mail ends | about a thousand header fields over one list: every body of up to ten tokens that begins and ends with ink, on lines of six and at most nine, with a short and with a long name, and with one that is too long to be written; and mails over two lists, every way in which they receive from one another or by a redirection, with pass, moderation and rejection; moderators who redirect what they are notified of to a list, and lists that are notified of each other's queues |
| sockmap_close | quiet end, silence after Close, right answers, Serve and handlers end | two connections, Close at any time, even before Serve |
| shutdown | databases outlive transactions, nothing repeated without a cause, changes logged, no leak, the process ends | any two of two transactions and two web handlers, two changes each, a signal at any time, a fault anywhere |
| mod_panic, join_again, log_retry, header_ends | section 6 | |

Why the bounds are enough: the properties speak of one item, one file, one
address or one change, and its history. Two actors are what it takes for a race,
two tries for a duplicate, one fault to separate any two steps (two in
lmtp_retry, where one goes into hanging up and the other into the rest), three
changes to move an id from one list to another (four in join_leave, where the
last one is the stale request). lmtp_mails uses one connection only, as mails in
different connections meet in nothing but the rate limit maps; the second mail
is there for what a connection might keep of the first. In forward, lines of six
and nine have every case of `Crop`: fits, a space in time, a space too late, no
space at all, a rest of one character, and a first line that the name fills.
Socketmap connections are left out of shutdown, as they meet nothing else there.

Weaker than one might wish, and said in the properties:

- `NoFalseBounce` holds for mails to one list without a failing call. With two
  lists the answer is common, and after `Save` a failing call makes a retry.
- `AcceptedMeansHandled` and `ImplementsPromise` except commands that an
  administrator has overtaken (`overtaken`): they are answered "ok" without a
  mail, and join or leave need none any more. If the change is taken back, the
  sender is told nothing all the same.
- `ForwardJustified` asks for a right that once existed, not for one that exists
  when the mail is sent: settings are those of RCPT, roles those of DATA.
  `ReceiversAreMembers` asks for somebody who has once received mail as a member
  of the list. If the list was deleted while the mail was in hand, both allow
  the rights and the receivers of the list that has its id.
- `DecidedOnce`, `OneMailPerWeek` and `LogMatchesMembership` except actors that
  overlap (`raced`, `overlap`, `crossed`). The exceptions are real: TLC violates
  each property without its exception.
- `ConfirmKeepsRoles` excepts a request that met another change of its address
  after its check (`met`), which is the race of section 6.
- `QueueBelongsToList`, `NoMailLost` (Moderation), `MembersWereAdmitted`,
  `RolesWereGranted` and `LogMatchesMembership` except what a handler does that
  has loaded a list before it was deleted (`stale` in Checkback).
- `MembersWereAdmitted` does not end an admission: somebody who was removed may
  come back with a link that has not expired, as in the code.
- A half mail that a moderator passes counts as passed in `NoMailLost` and in
  ModQueue; `DecisionsCarriedOut` is about whole files and calls that do not fail.
- `HiddenNotNamedAsSender` is about From, Reply-To and Sender. Other fields are
  forwarded as they are, see section 6.
- `HeaderSurvives` is for headers without an empty field, `EveryMailEnds` for
  lists without an open loop (`OpenLoop`) that are not notified of each other's
  queues in a ring (`NudgeLoop`), see section 6.
- `WaitedTransactionsComplete` and `RepeatedOnlyIfCut` except transactions that
  begin after main has waited (`late`), whose connection main has cut, or that
  run into the misuse of the wait group; `ProcessEnds` excepts the last.

`CHECK_DEADLOCK FALSE` is set in all runs: when the bounds of the environment
are used up there may be nothing left to do.

## 4. Fairness

lmtp_change assumes weak fairness of each session's `Step` (a goroutine runs on;
each call it makes returns: SQLite's busy timeout and sendmail's ten seconds
see to that), and of the MTA trying and at last expiring a queued mail, which is
what MTAs do. Faults, `Reset`, `Hangup` and administrators are not fair.

sockmap_close assumes weak fairness of each handler, of Serve and of Close once
begun. A Read ends, if nobody sends anything, by the deadline set before it.
`AcceptError` is fair only when the listener is closed. Clients are not fair.

forward assumes that something happens as long as a mail is in transit or in a
queue: MTAs try what they have, and moderators decide. This is weak fairness of
`Next`; the formula spells out when `Next` is enabled (`Busy`), as TLC is slow to
find out by itself for these steps.

shutdown assumes weak fairness of main, of each transaction once it has begun to
work, and of the signal that the goroutine of Serve sends when Serve has failed:
goroutines run on and their calls return. Clients, web handlers and whoever
sends a signal are not fair.

## 5. What is proved

All theorems are for every value of the constants, under the assumptions that the
modules name. TLC evaluates these assumptions on every run, and has checked each
of the inductive invariants below before it was proved.

| Module | Theorem | Statement |
|---|---|---|
| LmtpProof | `TypeCorrect`, `SessionsGood` | `Spec => []TypeOK`, `Spec => [](TypeOK /\ SessionInv)` |
| | `NoMailLost` | `Spec => []AcceptedMeansHandled` |
| | `UnfitNotForwarded` | `Spec => []OnlyFitForwarded` |
| | `ServedOncePerTry` | `Spec => []OncePerTry` |
| | `KeepsThePromise` | `Spec => ImplementsPromise` (refinement of AtLeastOnce) |
| | `BouncesAreTrue` | `Spec => []NoFalseBounce` |
| | `ForwardedByRight`, `ReceiversWereMembers` | `Spec => []ForwardJustified`, `Spec => []ReceiversAreMembers` |
| ModerationProof | `ModerationTyped` | `Spec => []TypeOK` |
| | `KeptMailsStay`, `OneDecision` | `Spec => []NoMailLost`, `Spec => []DecidedOnce` |
| | `QueueOfOneList`, `DecisionsHold` | `Spec => []QueueBelongsToList`, `Spec => []DecisionsCarriedOut` |
| | `KeepsTheQueue` | `Spec => ImplementsQueue` (refinement of ModQueue) |
| | `PageExists`, `NoEmptyPage` | the page that is shown exists, and has a mail on it unless the queue is empty |
| | `EveryMailOnOnePage`, `NeighboursLinked` | every mail is on exactly one page; a page has links to its neighbours, and only to pages that exist |
| CheckbackProof | `CheckbackTyped` | `Spec => []TypeOK` |
| | `AdmittedMembers`, `GrantedRoles` | `Spec => []MembersWereAdmitted`, `Spec => []RolesWereGranted` |
| | `LogAgrees` | `Spec => []LogMatchesMembership` |
| | `AskedOncePerWeek` | `Spec => []OneMailPerWeek` |
| | `ConfirmedKeepRoles` | `Spec => ConfirmKeepsRoles` (an action property) |
| ForwardingProof | `HiddenStays` | `Spec => []HiddenNotNamedAsSender` |
| | `HeaderIsRead` | `Spec => []HeaderSurvives` |
| | `ForwardTypes` | `Spec => []TypeOK` |
| | `LinesWritten` | folding ends with nothing left over, and keeps the ink, the white space and the limits, for every body and column |
| FileLoggerProof | `LogIsTruthful`, `LogLeavesNoDescriptor` | `Spec => []ReportedMeansWritten`, `Spec => []NoDescriptorLeft` |
| SockmapProof | `SockmapTypeCorrect`, `EndsQuietly` | `Spec => []TypeOK`, `Spec => []ServeEndsQuietly` |
| | `ClosedMeansSilent`, `RightAnswers` | `Spec => []NoAnswerAfterClosing`, `Spec => []AnswersAreRight` |
| ShutdownProof | `ShutdownTyped` | `Spec => []TypeOK` |
| | `WaitedComplete`, `RepeatsOnlyIfCut` | `Spec => []WaitedTransactionsComplete`, `Spec => []RepeatedOnlyIfCut` |
| | `ChangesLogged` | `Spec => []ChangesAreLogged` |
| | `ReportedIsWritten`, `NoDescriptorStays` | `Spec => []ReportedMeansWritten`, `Spec => []NoDescriptorLeft` |

### Assumptions

- Bounds are natural numbers (`MaxIdAssumption`, `MaxDayAssumption`,
  `BoundsAssumption`, `LimitsAssumption`; hypotheses of the theorems in
  FileLoggerProof). A week has days.
- People are not lists, moderators are people, and the superadmin and "user" of
  Checkback are nobody else (`AddressAssumption`, `ModeratorAssumption`,
  `SuperadminAssumption`, `UserAssumption`).
- What a behaviour begins with has its type, as have the choices of
  administrators, the mails and their authors (`InitAssumption`,
  `ChoiceAssumption`, `MsgAssumption`, `FromAssumption`), and the rows of the
  first database have unique keys (`InitKeysAssumption`), which SQLite's
  constraints see to. In Forwarding, `CasesAssumption` says the same of the
  configurations and of the headers that people send, and that a list is no
  receiver of itself, which AddMembers sees to.
- Of headers: the limits of a line leave room for a name, a colon and a
  character (`LimitAssumption`: 78 and 998 in the code); keys are different
  (those of a map), From is not among the fields that WriteHeader joins
  (header.go:197-207), and the three names that ulist writes itself into a
  header of its own, Content-Type, From and To, are not too long
  (`KeysAssumption`, `WidthAssumption`); the words that ulist writes are words
  (`WordAssumption`). How long other names are, how long bodies are and what
  they consist of is free.

### Arguments

**The database** (ListRepoProof). Ids in use are below the one that `NextId`
gives, so a new list has an id of its own; the other transactions replace rows
by rows with the same key. Sets of ids are bounded and have a greatest element,
which is proved from the well-foundedness of the numbers. That keys stay unique
is what SQLite sees to, and no result by itself; the rights of senders and
receivers rest on it.

**Sessions** (LmtpProof). `AcceptedMeansHandled` is not inductive: `Reply` sets
the fate of all recipients in `pos` to delivered, and only the history of the
loop says that they have been served. `SessionInv` is that history. For every
session: `pos` and `lists` have the same length and belong together; once the
loop runs, the checks made before it hold for all lists; every list before `i`
has been served (or the mail is a bounce, which may be dropped) or its command
has been overtaken; and with the answer "ok", `i` is beyond the last list. That
a command is dropped only if it was overtaken is `StillAsked`: before the second
look, the sender's membership is what it was at the first, or somebody has
changed it and `overtaken` says so. `OnlyFitForwarded` needs two of these:
the checks made in `Data` still hold when `Forward` comes to the list, and
`Forward` is reached only by way of `Decide` for a mail that is no spam and no
command. A step changes one session (`OneSession`), or raises `copies`, which
harms no other session.

**The promise** (LmtpProof). That a list is served once per try is an argument
about counting: the sessions that may still serve an item, those whose client
has hung up among them, and the copies that were made, are together no more than
the tries (`TriesCount` in `PromiseInv`). A step of `data()` moves a session out
of that set when it serves. The MTA has a mail in one session at a time
(`OneClient`) and waits there for all its recipients (`Awaited`), so a new try
adds one session for each. The same facts give the refinement: serving is
AtLeastOnce's step for that item, a reply settles the items of `pos`, an
administrator overtakes commands that are in hand and have a try left, and
everything else is a stutter. `NoFalseBounce` needs besides that, as long as nothing has
failed, a mail to one list that was served is known as delivered or about to be
(`UnlessFault`). Rights: what a session has loaded of a list was a row of the
table at some time, and the history variables never forget.

**The queue** (ModerationProof). `ModInv` says what is known about the file in
every handler's hand: a form and a decision name files that were sent to the
form's list, or to one that has been deleted (`FormsOK`, `PostsOK`); a file that
was read is in the folder of the handler's list; what is unlinked has been
forwarded. `Accounted` follows every file from its creation out of the queue.
`OnceInv` is about files that no two handlers had in hand at one time: a handler
that has read one has met no decision. `CarriedInv` follows a decision from the
form to the folder. The refinement maps each step to one of ModQueue or none and
uses all of it.

**Pages** (ModerationProof). Arithmetic of integer division in two lemmas: there
are one to a hundred pages, and a page begins where its number says. `Count` is
the number of files the form can have, a thousand names being read.

**Secrets** (CheckbackProof). A handler and a link carry the secret of the list
they were made for, and the secret of a new list is greater than all before. So
whoever has the secret of a list in the table has that list and not one with the
same id (`Secrets`). On it rest `Admission`, that every request and every link
that may still make somebody a member has an admission of that person behind it, and `LogInv`,
that at most one request is about to log for an address, that its entry will
agree with the table, and that the last entry agrees where nobody is about to
log. `MailInv` says that what was mailed is recorded or about to be, `MetInv`
that a confirmation on its way has not met a member unless a change came between.

**Folding** (ForwardingProof). `FlattenSeq`, `Lines` and `At` are recursive
functions. What is proved about them comes from induction over the length, in
the form that a set of numbers with 0 and all successors has every number, which
follows from the well-foundedness of the numbers; that the functions exist is
proved on the way (`RecursionUpTo`). A round (`Folding`) keeps the ink: what has
been written and what is left are, together, the ink of the body. White space is
counted by how much ink is before it (`Breaks`). A round may lose white space
only where it ends a line, and there the next line begins with a space; it adds
one only where a word is cut, for which the word must be longer than a line
(`CutWord`). A round takes at least one character (`CropFits`), so after as many
rounds as characters nothing is left. `Folded` says of the lines that none is too
long, that those after the first begin with a space, and that none is empty.

**Reading** (ForwardingProof). Where fields begin is known from the tokens around
it, so the fields of two sequences are those of both, unless the first does not
end its line: then its last field goes on with what follows (`RestConcatLeft`),
which is what an empty field does. If no field is empty, all are closed, and what
is read is each body, unfolded (`WireRead`); ink and white space are those
that were written. `HeaderSurvives` needs besides that ulist writes only what it
could write (`WrittenFits`): the check of the length of names comes before the
first byte, and the header of a file in the queue has passed it.

**Hidden senders** (ForwardingProof). `HiddenNotNamedAsSender` is not inductive: the
next list writes From and Reply-To from what it reads in From, and the header it
reads may have empty fields, and so bodies that are several fields run together.
`Secret` says of each mail that its From bodies name nobody who is hidden, or
contain the name of a field, and then they never parse as addresses
(`DiscreetBoxes`) and a list that does not hide refuses the mail. Both survive
folding and reading, with empty fields or without (`CleanWire`): a body that
takes in what follows takes in its name. A list that hides replaces all three
fields. Mails of the MTA and of mail programs hide nobody.

**The log** (FileLoggerProof). One caller at most is behind the lock, so nothing
is open when a file is opened; only a complete entry is synced (`LogInv`). `Close`
takes no lock, and can only take the one open file away.

**Sockets** (SockmapProof). What the client has sent and what the handler has
read are parts of the one request that the client waits for (`ConnInv`); Close
announces itself before it closes the listener (`Announced`); what is still open
after it came later (`CutOff`).

**The process** (ShutdownProof). The stack of deferred calls has one of seven
values, and it tells which databases are open and whether main has waited
(`Stages`). While "wait" is on the stack, both databases are open; main passes it
only when nobody is at work, or when the last Done has released it, and whoever
is at work then began later (`Waiting`). What a transaction has done and what it
will answer belong together, and the answer is lost only if its connection was
closed or the wait group is broken (`Deliveries`). A change has an entry of its
own, and Printf goes to a second try, or gives up, only after something has
failed or the log was closed (`Changes`). About the log file itself the lemmas of
FileLoggerProof hold under the substitution of Shutdown: the process adds
handlers that call it, and main that closes it.

### Model-checked only

- Liveness (`EveryMailSettles`, `EveryMailEnds`, `CloseEndsServing`,
  `SilentClientsLeave`, `ProcessEnds`): TLAPS does not reason about fairness and
  ENABLED.
- The properties of section 6, which do not hold.

## 6. Where the code disagrees with its comments

Four have a run that TLC ends with a counterexample.

| Run | Comment | Code |
|---|---|---|
| mod_panic | web.go:850 "err is evaluated in the switch" | not in the case "delete", which then uses the nil message (863) |
| join_again | list.go:151 "requests can be sent every seven days only" | line 150 looks seven days into the future: one request, ever |
| log_retry | filelogger.go:41 "we reopen the file and try again" | the logger still has the closed file: after one write error nothing is logged any more |
| header_ends | header.go:229 "header is terminated by a blank line" | a last field without a body is written without an end of line, and the blank line becomes the end of that field |

The models contain the following as the code has them, without a run of their own:

- header.go:98, the same in other places of a header: an empty "Comments" or
  "Cc" takes the field after it for its body, so that Content-Type is lost; an
  empty "Errors-To" hides From.
- web.go:1234 "non-members only": the row of someone who became a member after
  the check is replaced (1247), and with it the roles.
- lmtp.go:199 "check for mailing list loops": every list replaces List-Id, so a
  loop over two lists that are both in To or Cc is not found (`OpenLoop`).
- The same check goes by List-Id, which the notifications of moderators
  (ulist.go:334-365) do not have, and their envelope-from is not empty: two lists
  that are notified of each other's queues and moderate each other's mail notify
  one another for ever (`NudgeLoop`). TLC violates `EveryMailEnds` without either
  of the two exceptions; the case `Nudged` of MCForwarding is the smallest.
- web/html/settings.html:18 "Hide sender address": HideFrom replaces From and drops
  Reply-To and Sender (ulist.go:237). A field like Errors-To or Delivered-To that
  names the sender is forwarded; README.md:77 of ulist has it as an open point.
- lmtp.go:295 asks for ten addresses "for DoS mitigation";
  `ParseAddressesFromHeader` ignores its limit.
- lmtp.go:251 asks for "no different Sender address", line 263 refuses the equal
  one and lets the different one through (`Personal`).
- lmtp.go:164 "do as many checks (and maybe rejections) as possible before sending
  any email": a list's Reject (314) comes after earlier lists have been sent the
  mail. `NoFalseBounce` is limited to mails to one list for this reason.
- Notifications about bounces have a null sender, so a list that is to be
  notified refuses them.
- srv.go:147 "closes all active listeners and connections": a connection that was
  accepted and not yet registered is missed (`late` in Sockmap), and so is a
  listener that Serve registers too late (`lateServe`).
- Shutdown closes LMTP connections before it waits for their transactions: a mail
  that is forwarded meanwhile has no answer and is sent again. It closes the log
  under web handlers: their changes are not logged (and their users are told so).
- A handler that has loaded a list before it was deleted leaves rows of members
  under its id, which the next list inherits, or deletes that list.
- ulist.go:468: the GDPR log says that somebody left who was no member. Deleting
  a list logs nothing. web.go:766: an error of UpdateMember is logged, and the
  form reports success.

## 7. What is not modelled

- Parsing and formatting of addresses and MIME: the models take what was parsed,
  and the parts of a mail that do not parse are data.
- Of Forward: the prefix of the Subject, Message-Id, List-Post and
  List-Unsubscribe, the fields WriteHeader leaves out, and the bytes of the
  footer (only what it does to Content-Type). Nothing else in the program reads
  them. Loops that only the hop limit of an MTA ends are open loops here.
- Login, sessions, cookies and captchas are libraries' work; a handler starts
  with a user who is logged in. Templates, and queries for display only.
- `MaxRecipients` and the size limit of the SMTP library; LMTP commands in an
  order the library refuses.
- In Lmtp a checkback is two steps, the first look with the rate limit and the
  second with the mail; all of its steps are in Checkback. The two rate
  limit maps are written without a lock; a crash of the Go runtime because of
  it is only one of the crashes of the model.
- GetRoles is two queries in the code (member, known) and one step here.
- Several addresses in one form of the web interface are one address here. The
  form for known senders is part of the environment of Lmtp, in one step.
- In Moderation the queue is not paged; Paging has the pages without changes of
  the queue between two requests.

## 8. State of the work

All components with a state of their own are modelled, and every invariant,
action property and refinement that a run checks is proved for every value of
the constants; what remains with TLC is liveness (section 5).

What could be added: the fields that Forward and WriteHeader treat and no
property speaks of (section 7); the page of known senders as steps of its own,
as for members; a run in which the pages of the queue change between two
requests.
