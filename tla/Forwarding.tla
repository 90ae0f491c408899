----------------------------- MODULE Forwarding -----------------------------
(***************************************************************************)
(* What becomes of one mail that is forwarded over several lists.  Lists   *)
(* may be receivers of lists, and people may redirect their mail to a      *)
(* list.  A mail in transit is the header that somebody wrote, with its    *)
(* envelope; whoever takes it reads the header from the wire.              *)
(*                                                                         *)
(* A transaction is for one list here, is not interrupted and does not     *)
(* fail by itself: see Lmtp.  To stands for To and Cc.  An address in a    *)
(* header is a box: whose name it shows, and where it leads to.            *)
(***************************************************************************)
EXTENDS HeaderFold

CONSTANTS
    Person, ListAddr,
    Word,           \* what a header is made of, but for addresses and white space
    Cases           \* a configuration, and the header of the mail that somebody sends

Address == Person \cup ListAddr

Text(t) == <<"text", t>>
Box(who, addr) == <<"box", who, addr>>
IsBox(token) == token[1] = "box"

Token == {WS} \cup {Text(t) : t \in Word} \cup {Box(who, addr) : who, addr \in Address}

(* A body that ulist has read may contain the names of fields.             *)
Header == [Range(Keys) -> Seq(Seq(Token \cup {Name(k) : k \in Range(Keys)}))]

ASSUME AddressAssumption == Person \cap ListAddr = {}

ASSUME WordAssumption == {"broken", "html", "mixed", "plain", "yes"} \subseteq Word

(* Keys are different, and those that ulist writes itself are not too long. *)
ASSUME KeysAssumption ==
    /\ {"Content-Type", "From", "List-Id", "Reply-To", "Sender", "To", "X-Spam"} \subseteq Range(Keys)
    /\ "To" \in Joined /\ "From" \notin Joined
    /\ \A i, j \in DOMAIN Keys : Keys[i] = Keys[j] => i = j
    /\ \A k \in {"Content-Type", "From", "To"} : Width[k] <= Hard - 3

(* hide: HideFrom is set.  passes: whose mail is forwarded at once; all    *)
(* other mail is kept for a moderator ("mod") or refused ("reject").       *)
(* notifieds and bounces: who is notified of kept mail and of bounces.     *)
Config ==
    [hide: SUBSET ListAddr,
     receivers: [ListAddr -> SUBSET Address],
     notifieds: [ListAddr -> SUBSET Address],
     bounces: [ListAddr -> SUBSET Address],
     passes: [ListAddr -> SUBSET Address],
     others: [ListAddr -> {"mod", "reject"}],
     redirect: SUBSET (Person \X ListAddr)]

(* AddMembers does not add a list to itself.                               *)
ASSUME CasesAssumption ==
    \A c \in Cases :
       /\ c.conf \in Config /\ c.sender \in Person
       /\ c.header \in [Range(Keys) -> Seq(Seq(Token))]
       /\ \A l \in ListAddr :
             l \notin c.conf.receivers[l] \cup c.conf.notifieds[l] \cup c.conf.bounces[l]

VARIABLES
    conf,       \* the configuration, which does not change
    transit,    \* mails on their way, each with one recipient
    held        \* mails in the moderation queue of a list

vars == <<conf, transit, held>>

(* from: the envelope-from.  by: who wrote the header.  hidden: history,   *)
(* people whose mail a list with HideFrom has forwarded.                   *)
Letter(from, to, bounce, header, by, hidden) ==
    [from |-> from, to |-> to, bounce |-> bounce, header |-> header, by |-> by, hidden |-> hidden]

Null == [addr |-> "none", bounce |-> FALSE]      \* the empty envelope-from
Bounces(l) == [addr |-> l, bounce |-> TRUE]

-----------------------------------------------------------------------------
(* Headers *)

(* A mail program ends every field with an end of line.                    *)
Composed(header) ==
    FlattenSeq([n \in DOMAIN Keys |->
                  FlattenSeq([i \in DOMAIN header[Keys[n]] |->
                                <<Name(Keys[n])>> \o header[Keys[n]][i] \o <<CRLF>>])])
    \o <<CRLF>>

Wire(t) == IF t.by = "ulist" THEN WriteHeader(t.header) ELSE Composed(t.header)

(* header.Get                                                              *)
Get(h, k) == IF h[k] = <<>> THEN <<>> ELSE TrimSpace(h[k][1])

(* ParseAddressesFromHeader                                                *)
Parses(h, k) == \A i \in DOMAIN Get(h, k) : IsBox(Get(h, k)[i]) \/ Get(h, k)[i] = WS
Boxes(h, k)  == At(Get(h, k), {i \in DOMAIN Get(h, k) : IsBox(Get(h, k)[i])})
Addrs(h, k)  == {b[3] : b \in Range(Boxes(h, k))}

(* The people whom a reader of the header finds in these fields.           *)
PeopleIn(h, fields) ==
    LET bodies == UNION {Range(h[k]) : k \in fields}
        boxes  == {t \in UNION {Range(b) : b \in bodies} : IsBox(t)}
    IN  Person \cap UNION {{b[2], b[3]} : b \in boxes}

(* Those whom the header names as its senders.                             *)
Named(h) == PeopleIn(h, {"From", "Reply-To", "Sender"})

(* data(), the checks that concern the header, in their order.             *)
BccSpam(l, h) == ~Parses(h, "To") \/ l \notin Addrs(h, "To")

ListIds(h) == {TrimSpace(h["List-Id"][i]) : i \in DOMAIN h["List-Id"]}

(* Mutant: the field is parsed only.                                       *)
LoopUnchecked(l, h) == \E id \in ListIds(h) : id = <<>> \/ ~IsBox(id[1])

Loop(l, h) == \E id \in ListIds(h) : id = <<>> \/ ~IsBox(id[1]) \/ id[1][3] = l

NoFrom(h) == ~Parses(h, "From") \/ Boxes(h, "From") = <<>>

IsSpam(h) == Get(h, "X-Spam") = <<Text("yes")>>

GetAction(l, h) ==
    LET known == Addrs(h, "From") \cap conf.passes[l] # {}
    IN  IF known /\ IsSpam(h) THEN "mod"
        ELSE IF known THEN "pass" ELSE conf.others[l]

-----------------------------------------------------------------------------
(* Forward *)

(* InsertFooter: the body of a mail that is neither plain text nor mixed   *)
(* becomes a part of a mixed one.  A type that does not parse is plain.    *)
Footer(type) == IF type = <<Text("html")>> THEN <<Text("mixed")>> ELSE type

FooterFails(h) == Get(h, "Content-Type") = <<Text("broken")>>

(* Mutant: the old Reply-To field of a mail with a hidden sender is kept.  *)
RewrittenWithReplyTo(l, h) ==
    [h EXCEPT !["X-Spam"] = <<>>, !["List-Id"] = <<<<Box(l, l)>>>>, !["Sender"] = <<>>,
              !["From"] = <<<<Box(l, l)>>>>]

Rewritten(l, h) ==
    LET froms == Boxes(h, "From")
        via   == [i \in DOMAIN froms |-> Box(froms[i][2], l)]      \* "x via list"
        type  == Get(h, "Content-Type")
    IN  [h EXCEPT !["X-Spam"] = <<>>,
                  !["List-Id"] = <<<<Box(l, l)>>>>,
                  !["From"] = <<IF l \in conf.hide THEN <<Box(l, l)>> ELSE via>>,
                  !["Reply-To"] = IF l \in conf.hide THEN <<>> ELSE <<AddressList([i \in DOMAIN froms |-> <<froms[i]>>])>>,
                  !["Sender"] = <<>>,
                  !["Content-Type"] = IF type = <<>> THEN @ ELSE <<Footer(type)>>]

(* With HideFrom the old From field is not parsed again.                   *)
ForwardFails(l, h) ==
    \/ l \notin conf.hide /\ ~Parses(h, "From")
    \/ FooterFails(h)
    \/ ~Writable(Rewritten(l, h))
    \/ conf.receivers[l] = {}                   \* sendmail refuses

Forwarded(l, h, hidden) ==
    {Letter(Bounces(l), r, FALSE, Rewritten(l, h), "ulist",
            IF l \in conf.hide THEN hidden \cup Named(h) ELSE hidden) : r \in conf.receivers[l]}

-----------------------------------------------------------------------------

(* The notification of somebody that a mail was not delivered: nothing for *)
(* mail that is a notification itself.                                     *)
Notice(t) ==
    IF t.from = Null THEN {}
    ELSE {Letter(Null, t.from.addr, t.from.bounce, NoHeader, "mta", {})}

(* A mail in a moderation queue.                                           *)
Filed(l, h, hidden) == [list |-> l, header |-> h, by |-> "ulist", hidden |-> hidden]

(* What a list writes on its own behalf, without a List-Id.                *)
FromList(l, to) ==
    [NoHeader EXCEPT !["Content-Type"] = <<<<Text("plain")>>>>,
                     !["From"] = <<<<Box(l, l)>>>>, !["To"] = <<<<Box(to, to)>>>>]

(* NotifyMods, after a mail has been filed.                                *)
NotifyMods(l) ==
    {Letter(Bounces(l), r, FALSE, FromList(l, r), "ulist", {}) : r \in conf.notifieds[l]}

Pass(t, letters) == transit' = (transit \ {t}) \cup letters

(* LMTP for a list address.  A mail that data() could not read or send is  *)
(* tried again by the MTA until it expires.                                *)
Receive(t) ==
    \E wire \in {Wire(t)} : \E h \in {ReadHeader(wire)} :
    LET l == t.to
        perm == t.from = Null \/ BccSpam(l, h) \/ Loop(l, h) \/ NoFrom(h) \/ GetAction(l, h) = "reject"
    IN
    /\ t \in transit /\ l \in ListAddr /\ ~t.bounce
    /\ \/ ~Terminated(Wire(t)) /\ Pass(t, Notice(t)) /\ UNCHANGED held
       \/ perm /\ Pass(t, Notice(t)) /\ UNCHANGED held
       \/ /\ ~perm /\ GetAction(l, h) = "pass"
          /\ Pass(t, IF ForwardFails(l, h) THEN Notice(t) ELSE Forwarded(l, h, t.hidden))
          /\ UNCHANGED held
       \/ /\ ~perm /\ GetAction(l, h) = "mod"
          /\ IF Writable(h)
             THEN Pass(t, NotifyMods(l)) /\ held' = held \cup {Filed(l, h, t.hidden)}
             ELSE Pass(t, Notice(t)) /\ UNCHANGED held
    /\ UNCHANGED conf

(* LMTP for a bounce address.  The notification of the admins has an empty *)
(* envelope-from; whether it could be sent makes no difference.            *)
Bounce(t) ==
    LET l == t.to IN
    /\ t \in transit /\ l \in ListAddr /\ t.bounce
    /\ Pass(t, IF t.from # Null THEN Notice(t)
               ELSE {Letter(Null, r, FALSE, FromList(l, l), "ulist", {}) : r \in conf.bounces[l]})
    /\ UNCHANGED <<conf, held>>

(* A person's mailbox takes the mail, refuses it, or redirects it.         *)
Deliver(t) ==
    /\ t \in transit /\ t.to \in Person
    /\ \/ \E a \in ListAddr :
             <<t.to, a>> \in conf.redirect /\ Pass(t, {[t EXCEPT !.to = a]})
       \/ (\A a \in ListAddr : <<t.to, a>> \notin conf.redirect) /\ Pass(t, {})
       \/ Pass(t, Notice(t))
    /\ UNCHANGED <<conf, held>>

(* A moderator passes or deletes a mail, which was read from its file.     *)
Moderate(m) ==
    \E wire \in {WriteHeader(m.header)} : \E h \in {ReadHeader(wire)} :
    /\ m \in held /\ held' = held \ {m}
    /\ \/ /\ Terminated(wire) /\ ~ForwardFails(m.list, h)
          /\ transit' = transit \cup Forwarded(m.list, h, m.hidden)
       \/ UNCHANGED transit
    /\ UNCHANGED conf

-----------------------------------------------------------------------------
Init ==
    /\ \E c \in Cases :
          /\ conf = c.conf
          /\ transit = {Letter([addr |-> c.sender, bounce |-> FALSE], l, FALSE, c.header, "mta", {}) :
                          l \in ListAddr \cap Addrs(c.header, "To")}
    /\ held = {}

Next ==
    \/ \E t \in transit : Receive(t) \/ Bounce(t) \/ Deliver(t)
    \/ \E m \in held : Moderate(m)

Spec == Init /\ [][Next]_vars

(* The MTA tries what it has, and moderators decide: WF_vars(Next), with   *)
(* the condition under which a step is enabled in place of ENABLED Next.   *)
Busy == transit # {} \/ held # {}

FairSpec == Spec /\ (<>[]Busy => []<><<Next>>_vars)

-----------------------------------------------------------------------------
TypeOK ==
    /\ conf \in Config
    /\ transit \subseteq [from: {Null} \cup [addr: Address, bounce: BOOLEAN], to: Address, bounce: BOOLEAN,
                          header: Header, by: {"mta", "ulist"}, hidden: SUBSET Person]
    /\ held \subseteq [list: ListAddr, header: Header, by: {"ulist"}, hidden: SUBSET Person]

(* Once a list that hides senders has forwarded a mail, the fields that    *)
(* name a sender - From, Reply-To and Sender - name nobody whom they named *)
(* then, whichever lists the mail passes before and afterwards.  Other     *)
(* fields are forwarded as they are.                                       *)
HiddenNotNamedAsSender == \A t \in transit : t.hidden \cap Named(t.header) = {}

(* Every header that ulist has written to sendmail or to a file ends, and  *)
(* is read again as it was, on lines that are not too long - unless it has *)
(* a field without a body, see HeaderEnds.                                 *)
HeaderSurvives ==
    \A t \in transit \cup held :
       t.by = "ulist" /\ ~HasEmptyField(t.header)
          => \A wire \in {WriteHeader(t.header)} :
                /\ Terminated(wire) /\ LinesFit(wire)
                /\ \A read \in {ReadHeader(wire)} : ReadsBack(t.header, read)

(* "header is terminated by a blank line" (header.go:229).                 *)
HeaderEnds ==
    \A t \in transit \cup held : t.by = "ulist" => Terminated(WriteHeader(t.header))

(* One list leads to another, directly or by somebody's redirection.       *)
Leads(l, m) ==
    \/ m \in conf.receivers[l]
    \/ \E p \in conf.receivers[l] : <<p, m>> \in conf.redirect

Addressed(l) ==
    \E t \in transit : \E i \in DOMAIN t.header["To"] : Box(l, l) \in Range(t.header["To"][i])

(* A loop over several lists, all of them in To or Cc: each replaces the   *)
(* List-Id of the one before.                                              *)
OpenLoop ==
    \E S \in (SUBSET ListAddr) \ {{}} :
       \A l \in S : Addressed(l) /\ \E m \in S \ {l} : Leads(l, m)

(* The list m keeps the notifications of the list l for its moderators.    *)
Nudges(l, m) ==
    m \in conf.notifieds[l] /\ l \notin conf.passes[m] /\ conf.others[m] = "mod"

(* Lists that are notified of each other's queues.                         *)
NudgeLoop == \E S \in (SUBSET ListAddr) \ {{}} : \A l \in S : \E m \in S : Nudges(l, m)

(* Every mail comes to an end, and so do all notifications about it,       *)
(* however members and redirections lead back to a list.  Two kinds of     *)
(* loops are excepted: those over several lists to which a mail is         *)
(* addressed at once, and those of notifications.                          *)
EveryMailEnds == OpenLoop \/ NudgeLoop \/ <>~Busy
=============================================================================
