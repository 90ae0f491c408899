----------------------------- MODULE Moderation -----------------------------
(***************************************************************************)
(* The moderation queue: the spool folder of a list, filled by Save (mod.go)*)
(* and emptied by moderators through the form of web.go's mod handler.     *)
(* Several moderators work on the same queue, each POST of a form runs as  *)
(* a goroutine that reads, forwards and deletes files one after the other, *)
(* and nothing locks the folder or the database in between.                *)
(***************************************************************************)
EXTENDS ListRepo

CONSTANTS
    Moderator,      \* people who moderate (a subset of Person)
    File,           \* file names; TempFile never gives one out twice
    From,           \* the single From address of the mail in a file, or None
    InitList, InitMember,
    SettingsChoice, \* settings an administrator may choose
    Limits          \* bounds, one of which is chosen for a behaviour: failing calls and
                    \* crashes, changes of the database, moderators that do something

None == "none"

ASSUME ModeratorAssumption == Moderator \subseteq Person
ASSUME FromAssumption == From \in [File -> Person \cup {None}]
ASSUME InitAssumption == InitList \subseteq ListRow /\ InitMember \subseteq MemberRow
ASSUME InitKeysAssumption == UniqueIn(InitList, InitMember)
ASSUME ChoiceAssumption == SettingsChoice \subseteq Settings
ASSUME LimitsAssumption ==
    Limits \subseteq [faults: Nat, adminOps: Nat, who: SUBSET Moderator]

VARIABLES
    spool,      \* the files: name, folder (a list id) and whether all is written
    saver,      \* the LMTP transaction that saves a mail under a name
    form,       \* the form a moderator has in her browser
    web,        \* the POST handler that serves a moderator
    passed,     \* history: how often the mail in a file was forwarded over its list
    strayed,    \* history: files forwarded over another list
    dismissed,  \* history: files removed because a moderator said so
    saved,      \* history: files the MTA was told are saved
    torn,       \* history: files read before they were written completely
    raced,      \* history: files that two handlers had in hand at one time
    deleted,    \* history: addresses of deleted lists
    faults, adminOps,
    limit       \* the bounds of this behaviour

files   == <<spool, saver>>
history == <<passed, strayed, dismissed, saved, torn, raced, deleted>>
bounds  == <<faults, adminOps, limit>>
vars    == <<tables, files, form, web, history, bounds>>

Decision == {"postpone", "delete", "deleteKnown", "pass", "passKnown"}
Deletes  == {"delete", "deleteKnown"}
Passes   == {"pass", "passKnown"}
AddKnown == {"deleteKnown", "passKnown"}

NoRow  == [id |-> 0, addr |-> None]
NoSave == [st |-> "new", l |-> NoRow]
NoPost == [pc |-> "idle", l |-> NoRow, todo |-> {}, dec |-> [n \in File |-> "postpone"],
           cur |-> None, msg |-> None, alert |-> FALSE]

(* A file exists, or did, when its transaction has come this far.          *)
Offered == {"writing", "saved", "failed"}

PC == {"idle", "auth", "next", "act", "unlink", "known", "done", "panic"}

Fault == faults < limit.faults /\ faults' = faults + 1 /\ UNCHANGED limit
NoFault == UNCHANGED <<faults, limit>>

(* Mutant: one folder for all lists.                                       *)
StorageFolderShared(l) == 1

StorageFolder(l) == l.id

In(l, n) == {f \in spool : f.folder = StorageFolder(l) /\ f.name = n}
Without(l, n) == spool \ In(l, n)

CanModerate(u, l) == \E m \in Rows(l, u) : m.role.admin \/ m.role.moderate

-----------------------------------------------------------------------------
(* Save, called by data() with the list it loaded at RCPT.  The file has   *)
(* its final name from the beginning and is in the queue while it is       *)
(* written.                                                                *)

(* Mutant: takes a list that does not exist.                               *)
LoadListUnchecked(n, a) ==
    /\ saver[n].st = "new"
    /\ saver' = [saver EXCEPT ![n] = [st |-> "loaded", l |-> NoRow]]
    /\ UNCHANGED <<tables, spool, form, web, history, bounds>>

LoadList(n, a) ==
    /\ saver[n].st = "new"
    /\ \E l \in GetList(a) : saver' = [saver EXCEPT ![n] = [st |-> "loaded", l |-> l]]
    /\ UNCHANGED <<tables, spool, form, web, history, bounds>>

TempFile(n) ==
    /\ saver[n].st = "loaded"
    /\ \/ /\ NoFault
          /\ spool' = spool \cup {[name |-> n, folder |-> StorageFolder(saver[n].l), whole |-> FALSE]}
          /\ saver' = [saver EXCEPT ![n].st = "writing"]
       \/ /\ Fault /\ UNCHANGED spool
          /\ saver' = [saver EXCEPT ![n].st = "refused"]
    /\ UNCHANGED <<tables, form, web, history, adminOps>>

Write(n) ==
    /\ saver[n].st = "writing"
    /\ \/ /\ NoFault
          /\ spool' = {IF f.name = n THEN [f EXCEPT !.whole = TRUE] ELSE f : f \in spool}
          /\ saver' = [saver EXCEPT ![n].st = "saved"]
          /\ saved' = saved \cup {n}
       \/ /\ Fault
          /\ spool' = Without(saver[n].l, n)
          /\ saver' = [saver EXCEPT ![n].st = "failed"]
          /\ UNCHANGED saved
    /\ UNCHANGED <<tables, form, web, passed, strayed, dismissed, torn, raced, deleted, adminOps>>

-----------------------------------------------------------------------------
(* The moderators' form *)

(* GET shows the *.eml files in the folder of the list.                    *)
Show(u, a) ==
    /\ \E l \in GetList(a) :
          /\ CanModerate(u, l)
          /\ form' = [form EXCEPT ![u] =
                        [addr |-> a, names |-> {f.name : f \in {g \in spool : g.folder = StorageFolder(l)}}]]
    /\ UNCHANGED <<tables, files, web, history, bounds>>

(* POST, perhaps of a form that is out of date.  loadList finds the list   *)
(* that has the address now.                                               *)
Post(u) ==
    /\ web[u].pc = "idle"
    /\ \E l \in GetList(form[u].addr), d \in [File -> Decision] :
          /\ \A n \in File \ form[u].names : d[n] = NoPost.dec[n]
          /\ web' = [web EXCEPT ![u] =
                       [NoPost EXCEPT !.pc = "auth", !.l = l, !.todo = form[u].names,
                                      !.dec = d]]
    /\ UNCHANGED <<tables, files, form, history, bounds>>

(* requireModPermission *)
Authorize(u) ==
    /\ web[u].pc = "auth"
    /\ web' = [web EXCEPT ![u] = IF CanModerate(u, web[u].l)
                                 THEN [@ EXCEPT !.pc = "next"] ELSE NoPost]
    /\ UNCHANGED <<tables, files, form, history, bounds>>

(* The files come in the random order of a map.  "part" is a message that  *)
(* was cut off; cut off in the header, it does not parse.                  *)
Read(u, n) ==
    /\ web[u].pc = "next" /\ n \in web[u].todo
    /\ \E msg \in {"whole", "part", "err"} :
          /\ web' = [web EXCEPT ![u].pc = "act", ![u].cur = n, ![u].msg = msg,
                                ![u].todo = @ \ {n}]
          /\ \/ In(web[u].l, n) = {} /\ msg = "err" /\ NoFault
             \/ \E f \in In(web[u].l, n) :
                   \/ msg = "err" /\ Fault
                   \/ f.whole /\ msg = "whole" /\ NoFault
                   \/ ~f.whole /\ msg \in {"part", "err"} /\ NoFault
          /\ torn' = IF \E f \in In(web[u].l, n) : ~f.whole THEN torn \cup {n} ELSE torn
    /\ raced' = IF \E v \in Moderator \ {u} : web[v].cur = n /\ web[v].pc \in {"act", "unlink"}
                THEN raced \cup {n} ELSE raced
    /\ UNCHANGED <<tables, files, form, passed, strayed, dismissed, saved, deleted, adminOps>>

(* Mutant: the file goes also after an error.                              *)
AfterUnlink(u) == IF web[u].alert THEN "next" ELSE "unlink"

(* The end of the switch: the check box, or the next file.                 *)
After(u) == IF web[u].dec[web[u].cur] \in AddKnown THEN "known" ELSE "next"

(* "postpone", and "pass" of a message that could not be read.             *)
Skip(u) ==
    /\ web[u].pc = "act"
    /\ \/ web[u].dec[web[u].cur] = "postpone"
       \/ web[u].dec[web[u].cur] \in Passes /\ web[u].msg = "err"
    /\ web' = [web EXCEPT ![u].pc = "next", ![u].cur = None]
    /\ UNCHANGED <<tables, files, form, history, bounds>>

(* "delete": an error is reported, the check box is looked at anyway.      *)
Remove(u) ==
    LET n == web[u].cur
        there == In(web[u].l, n) # {}
    IN
    /\ web[u].pc = "act" /\ web[u].dec[n] \in Deletes
    /\ \/ /\ there /\ NoFault
          /\ spool' = Without(web[u].l, n) /\ dismissed' = dismissed \cup {n}
          /\ web' = [web EXCEPT ![u].pc = After(u)]
       \/ /\ IF there THEN Fault ELSE NoFault
          /\ UNCHANGED <<spool, dismissed>>
          /\ web' = [web EXCEPT ![u].pc = After(u), ![u].alert = TRUE]
    /\ UNCHANGED <<tables, saver, form, passed, strayed, saved, torn, raced, deleted, adminOps>>

(* Mutant: a mail that could not be forwarded is taken for forwarded.      *)
ForwardUnchecked(u) ==
    /\ web[u].pc = "act" /\ web[u].dec[web[u].cur] \in Passes /\ web[u].msg # "err"
    /\ NoFault
    /\ web' = [web EXCEPT ![u].pc = "unlink"]
    /\ UNCHANGED <<tables, files, form, dismissed, passed, strayed, saved, torn, raced, deleted, adminOps>>

(* "pass": Forward reads the receivers and calls sendmail, which refuses a *)
(* mail without receivers and may fail before or after it has queued the   *)
(* mail.                                                                   *)
Forward(u) ==
    LET n == web[u].cur
        l == web[u].l
        Sent == IF l.addr = saver[n].l.addr
                THEN passed' = [passed EXCEPT ![n] = @ + 1] /\ UNCHANGED strayed
                ELSE strayed' = strayed \cup {n} /\ UNCHANGED passed
    IN
    /\ web[u].pc = "act" /\ web[u].dec[n] \in Passes /\ web[u].msg # "err"
    /\ \/ /\ Receivers(l) # {} /\ NoFault /\ Sent
          /\ web' = [web EXCEPT ![u].pc = "unlink"]
       \/ /\ IF Receivers(l) = {} THEN NoFault /\ UNCHANGED <<passed, strayed>>
                                  ELSE Fault /\ (Sent \/ UNCHANGED <<passed, strayed>>)
          /\ web' = [web EXCEPT ![u].pc = After(u), ![u].alert = TRUE]
    /\ UNCHANGED <<tables, files, form, dismissed, saved, torn, raced, deleted, adminOps>>

(* Mutant: the file stays.                                                 *)
UnlinkNot(u) ==
    /\ web[u].pc = "unlink"
    /\ web' = [web EXCEPT ![u].pc = After(u)]
    /\ UNCHANGED <<tables, files, form, history, bounds>>

(* The file of a forwarded message goes; an error is ignored.              *)
Unlink(u) ==
    /\ web[u].pc = "unlink"
    /\ \/ NoFault /\ spool' = Without(web[u].l, web[u].cur)
       \/ Fault /\ UNCHANGED spool
    /\ web' = [web EXCEPT ![u].pc = After(u)]
    /\ UNCHANGED <<tables, saver, form, history, adminOps>>

(* The check box "add to known senders", under the condition under which   *)
(* the template shows it.  SingleFrom of a message that could not be read  *)
(* dereferences a nil pointer.                                             *)
Known(u) ==
    LET n == web[u].cur
        l == web[u].l
        wanted == IF web[u].dec[n] = "passKnown" THEN Pass ELSE Reject
    IN
    /\ web[u].pc = "known"
    /\ \/ /\ web[u].msg = "err" /\ NoFault /\ UNCHANGED tables
          /\ web' = [web EXCEPT ![u].pc = "panic"]
       \/ /\ web[u].msg # "err" /\ NoFault
          /\ IF From[n] # None /\ l.set.action["Known"] = wanted
             THEN AddKnowns(l, {From[n]}) ELSE UNCHANGED tables
          /\ web' = [web EXCEPT ![u].pc = "next", ![u].cur = None]
       \/ /\ web[u].msg # "err" /\ Fault /\ UNCHANGED tables
          /\ web' = [web EXCEPT ![u].pc = "next", ![u].cur = None, ![u].alert = TRUE]
    /\ UNCHANGED <<files, form, history, adminOps>>

(* Mutant: answers before all files are through.                           *)
RedirectEarly(u) ==
    /\ web[u].pc = "next"
    /\ web' = [web EXCEPT ![u].pc = "done"]
    /\ UNCHANGED <<tables, files, form, history, bounds>>

Redirect(u) ==
    /\ web[u].pc = "next" /\ web[u].todo = {}
    /\ web' = [web EXCEPT ![u].pc = "done"]
    /\ UNCHANGED <<tables, files, form, history, bounds>>

(* The browser has the answer; net/http has recovered from a panic.        *)
Return(u) ==
    /\ web[u].pc \in {"done", "panic"}
    /\ web' = [web EXCEPT ![u] = NoPost]
    /\ UNCHANGED <<tables, files, form, history, bounds>>

-----------------------------------------------------------------------------
(* Handlers and savers die with the process; forms and files stay.         *)
Crash ==
    /\ Fault
    /\ web' = [u \in Moderator |-> NoPost]
    /\ saver' = [n \in File |-> [saver[n] EXCEPT !.st = CASE @ = "loaded"  -> "refused"
                                                       [] @ = "writing" -> "failed"
                                                       [] OTHER         -> @]]
    /\ UNCHANGED <<tables, spool, form, history, adminOps>>

(* Delete does not touch the spool folder of the list.                     *)
Admin ==
    /\ adminOps < limit.adminOps /\ adminOps' = adminOps + 1
    /\ \/ /\ \/ \E a \in ListAddr : Create(a)
             \/ \E l \in list :
                   \/ \E set \in SettingsChoice : Update(l, set)
                   \/ AddMembers(l, limit.who, AllRoles)
                   \/ \E u \in limit.who : RemoveMembers(l, {u})
          /\ UNCHANGED deleted
       \/ \E l \in list : Delete(l) /\ deleted' = deleted \cup {l.addr}
    /\ UNCHANGED <<files, form, web, passed, strayed, dismissed, saved, torn, raced, faults, limit>>

Init ==
    /\ list = InitList /\ member = InitMember /\ known = {}
    /\ spool = {}
    /\ saver = [n \in File |-> NoSave]
    /\ form = [u \in Moderator |-> [addr |-> None, names |-> {}]]
    /\ web = [u \in Moderator |-> NoPost]
    /\ passed = [n \in File |-> 0]
    /\ strayed = {} /\ dismissed = {} /\ saved = {} /\ torn = {} /\ raced = {}
    /\ deleted = {}
    /\ faults = 0 /\ adminOps = 0 /\ limit \in Limits

Next ==
    \/ \E n \in File : (\E a \in ListAddr : LoadList(n, a)) \/ TempFile(n) \/ Write(n)
    \/ \E u \in limit.who, a \in ListAddr : Show(u, a)
    \/ \E u \in limit.who, n \in File : Read(u, n)
    \/ \E u \in limit.who :
          \/ Post(u) \/ Authorize(u) \/ Skip(u) \/ Remove(u) \/ Forward(u)
          \/ Unlink(u) \/ Known(u) \/ Redirect(u) \/ Return(u)
    \/ Crash \/ Admin

Spec == Init /\ [][Next]_vars

-----------------------------------------------------------------------------
(* Types and bookkeeping of all variables.                                 *)
TypeOK ==
    /\ RepoTypeOK
    /\ spool \subseteq [name: File, folder: Id, whole: BOOLEAN]
    /\ saver \in [File -> [st: {"new", "loaded", "refused"} \cup Offered,
                           l: ListRow \cup {NoRow}]]
    /\ form \in [Moderator -> [addr: ListAddr \cup {None}, names: SUBSET File]]
    /\ web \in [Moderator ->
                  [pc: PC, l: ListRow \cup {NoRow}, todo: SUBSET File,
                   dec: [File -> Decision], cur: File \cup {None},
                   msg: {None, "whole", "part", "err"}, alert: BOOLEAN]]
    /\ passed \in [File -> Nat]
    /\ {strayed, dismissed, saved, torn, raced} \subseteq SUBSET File
    /\ deleted \subseteq ListAddr
    /\ limit \in Limits
    /\ faults \in 0..limit.faults /\ adminOps \in 0..limit.adminOps

(* A mail that the MTA was told is kept for moderation is in the queue     *)
(* until it has been forwarded or a moderator has dismissed it, whatever   *)
(* other moderators, crashes and failing calls do.  The exception: its     *)
(* list was deleted and the queue has become another list's.  (A mail that *)
(* was read before Save had finished may have been forwarded in part.)     *)
NoMailLost ==
    \A n \in saved :
       \/ \E f \in spool : f.name = n
       \/ passed[n] > 0 \/ n \in dismissed
       \/ n \in strayed /\ saver[n].l.addr \in deleted

(* A mail is decided about once: forwarded twice, or forwarded although it *)
(* was dismissed, it is only if two handlers had read it before either was *)
(* done with it, or after a fault.                                         *)
DecidedOnce ==
    \A n \in File :
       passed[n] + (IF n \in dismissed THEN 1 ELSE 0) > 1
          => n \in raced \/ faults > 0

(* Mails reach the receivers of the list they were sent to.  Only after a  *)
(* list was deleted, a list that got its id can have its queue.            *)
QueueBelongsToList ==
    \A n \in strayed : saver[n].l.addr \in deleted

(* When the moderator is told that all went well, the files she decided    *)
(* about are out of the queue: none was skipped and none is shown again.   *)
(* (Not so for files that could not be read, see Skip.)                    *)
DecisionsCarriedOut ==
    \A u \in Moderator :
       web[u].pc = "done" /\ ~web[u].alert /\ faults = 0
          => \A n \in File : web[u].dec[n] # "postpone" /\ n \notin torn
                               => In(web[u].l, n) = {}

(* "err is evaluated in the switch" (web.go:850): no handler goes on with  *)
(* a message that ReadMessage did not return.                              *)
ErrIsEvaluated == \A u \in Moderator : web[u].pc # "panic"

(* Folders, forms, races and crashes keep the promise of the queue.  A mail *)
(* that a list forwards which has got the id of a deleted one counts as    *)
(* forwarded; QueueBelongsToList says when that happens.                   *)
Queue == INSTANCE ModQueue WITH
    queue   <- {f.name : f \in spool},
    offered <- {n \in File : saver[n].st \in Offered},
    kept    <- saved,
    out     <- [n \in File |-> passed[n] + IF n \in strayed THEN 1 ELSE 0]

ImplementsQueue == Queue!Spec
=============================================================================
