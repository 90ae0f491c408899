--------------------------- MODULE ModerationProof ---------------------------
(***************************************************************************)
(* Proofs about Moderation: for any number of moderators, files, lists and *)
(* faults, no mail is lost or decided about twice, the queue does what     *)
(* ModQueue promises, and the pages of a form show all of it.              *)
(***************************************************************************)
EXTENDS Moderation, Paging, ListRepoProof

-----------------------------------------------------------------------------
(* What is always true                                                     *)

InQueue == {f.name : f \in spool}

(* A copy of a row: the list is still there, or it has been deleted.       *)
Live(l) == l.addr \in deleted \/ \E r \in list : r.id = l.id /\ r.addr = l.addr

(* A file was offered under this name, and was sent to the list of that    *)
(* address unless its own list has been deleted.                           *)
SentTo(sv, del, n, a) == sv[n].st \in Offered /\ sv[n].l.addr \in del \cup {a}

SaversOK ==
    \A n \in File :
       /\ saver[n].st # "new" => saver[n].l \in ListRow /\ Live(saver[n].l)
       /\ n \in saved <=> saver[n].st = "saved"
       /\ saver[n].st \notin Offered => passed[n] = 0 /\ n \notin dismissed \cup strayed

(* A name is given to one file, which stays in its folder.                 *)
FilesOK ==
    \A f \in spool : /\ saver[f.name].st \in Offered
                     /\ f.folder = saver[f.name].l.id
                     /\ f.whole <=> saver[f.name].st = "saved"

FormsOK == \A u \in Moderator : \A n \in form[u].names : SentTo(saver, deleted, n, form[u].addr)

InHand == {"act", "unlink", "known"}

(* A handler has files of the form; what it has read is a file of the      *)
(* folder of its list; what it unlinks has been forwarded.                 *)
GoodPost(w, sv, del, p, str) ==
    /\ w.pc # "idle" => w.l \in ListRow
    /\ w.pc = "done" => w.todo = {}
    /\ \A n \in File : n \in w.todo \/ w.dec[n] # "postpone" => SentTo(sv, del, n, w.l.addr)
    /\ w.pc \in InHand => /\ w.cur \in File /\ SentTo(sv, del, w.cur, w.l.addr)
                          /\ w.msg # "err" => sv[w.cur].l.id = w.l.id
    /\ w.pc = "unlink" => w.msg # "err" /\ (p[w.cur] > 0 \/ w.cur \in str)

PostsOK == \A u \in Moderator : GoodPost(web[u], saver, deleted, passed, strayed)

(* Whatever was offered is there or was decided about, unless Save failed. *)
Accounted ==
    \A n \in File : saver[n].st \in {"writing", "saved"} =>
       n \in InQueue \/ passed[n] > 0 \/ n \in dismissed \/ n \in strayed

(* Handlers that have a file and may still decide about it.                *)
Hands(u, n)   == web[u].pc \in {"act", "unlink"} /\ web[u].cur = n
Reads(u, n)   == web[u].pc = "act" /\ web[u].cur = n /\ web[u].msg # "err"
Unlinks(u, n) == web[u].pc = "unlink" /\ web[u].cur = n

Decisions(n) == passed[n] + (IF n \in dismissed THEN 1 ELSE 0)

(* A file that no two handlers had in hand at one time.                    *)
Once(n) ==
    /\ \A u, v \in Moderator : Hands(u, n) /\ Hands(v, n) => u = v
    /\ Decisions(n) <= 1
    /\ \A u \in Moderator : Reads(u, n) => Decisions(n) = 0
    /\ n \in InQueue /\ (\A u \in Moderator : ~Unlinks(u, n)) => Decisions(n) = 0

OnceInv == faults = 0 => \A n \in File \ raced : Once(n)

(* What a handler was told to decide about is still before it, is in its   *)
(* hands, or is out of the queue.                                          *)
NotIn(sp, l, n) == \A f \in sp : ~(f.folder = l.id /\ f.name = n)
Carried(w, sp, to) ==
    ~w.alert => \A n \in File : w.dec[n] # "postpone" /\ n \notin to =>
       \/ n \in w.todo
       \/ w.pc \in {"act", "unlink"} /\ w.cur = n /\ w.msg # "err"
       \/ NotIn(sp, w.l, n)

CarriedInv == faults = 0 => \A u \in Moderator : Carried(web[u], spool, torn)

ModInv ==
    /\ KeysUnique
    /\ SaversOK /\ FilesOK /\ FormsOK /\ PostsOK
    /\ Accounted /\ QueueBelongsToList
    /\ OnceInv /\ CarriedInv

-----------------------------------------------------------------------------
(* Types                                                                   *)

SaverState == [st: {"new", "loaded", "refused"} \cup Offered, l: ListRow \cup {NoRow}]
FormState  == [addr: ListAddr \cup {None}, names: SUBSET File]
PostState  == [pc: PC, l: ListRow \cup {NoRow}, todo: SUBSET File,
               dec: [File -> Decision], cur: File \cup {None},
               msg: {None, "whole", "part", "err"}, alert: BOOLEAN]

LEMMA Typed ==
    ASSUME TypeOK
    PROVE  /\ saver \in [File -> SaverState] /\ form \in [Moderator -> FormState]
           /\ web \in [Moderator -> PostState] /\ passed \in [File -> Nat]
           /\ faults \in Nat /\ adminOps \in Nat
           /\ limit.faults \in Nat /\ limit.adminOps \in Nat /\ limit.who \subseteq Moderator
           /\ strayed \subseteq File /\ dismissed \subseteq File /\ saved \subseteq File
           /\ torn \subseteq File /\ raced \subseteq File
<1>1. limit \in [faults: Nat, adminOps: Nat, who: SUBSET Moderator]
  BY LimitsAssumption DEF TypeOK
<1> QED  BY <1>1 DEF TypeOK, SaverState, FormState, PostState

LEMMA NoPostTyped == NoPost \in PostState
  BY DEF NoPost, PostState, PC, Decision

LEMMA Faulted ==
    ASSUME TypeOK, Fault \/ NoFault
    PROVE  limit' = limit /\ faults' \in 0..limit.faults /\ faults <= faults' /\ (Fault => faults' > 0)
  BY Typed DEF TypeOK, Fault, NoFault

(* A handler's step, by what it does to the types.                         *)
LEMMA HandlerTyped ==
    ASSUME TypeOK, NEW u \in Moderator, NEW w \in PostState, web' = [web EXCEPT ![u] = w],
           UNCHANGED <<list, member, saver, form, saved, deleted, adminOps>>,
           Fault \/ UNCHANGED <<faults, limit>>,
           known' \subseteq KnownRow, spool' \subseteq spool, passed' \in [File -> Nat],
           strayed' \subseteq File, dismissed' \subseteq File, torn' \subseteq File,
           raced' \subseteq File
    PROVE  TypeOK'
<1>1. web' \in [Moderator -> PostState]
  BY Typed
<1>2. limit' = limit /\ faults' \in 0..limit.faults
  BY Faulted DEF NoFault
<1>3. RepoTypeOK'
  BY DEF TypeOK, RepoTypeOK
<1>4. /\ limit' \in Limits /\ adminOps' \in 0..limit'.adminOps
      /\ {strayed, dismissed, saved, torn, raced}' \subseteq SUBSET File
  BY <1>2, Typed DEF TypeOK
<1> QED  BY <1>1, <1>2, <1>3, <1>4 DEF TypeOK, PostState

-----------------------------------------------------------------------------
(* What stays                                                              *)

LEMMA PostStays ==
    ASSUME NEW w, NEW sv, NEW sv2, NEW del, NEW del2, NEW p \in [File -> Nat],
           NEW p2 \in [File -> Nat], NEW str, NEW str2,
           \A n \in File : sv[n].st \in Offered => sv2[n].st \in Offered /\ sv2[n].l = sv[n].l,
           \A n \in File : p[n] <= p2[n],
           del \subseteq del2, str \subseteq str2, GoodPost(w, sv, del, p, str)
    PROVE  GoodPost(w, sv2, del2, p2, str2)
  BY DEF GoodPost, SentTo, InHand

(* Nothing is decided, and nobody takes a file.                            *)
LEMMA OnceStays ==
    ASSUME TypeOK, OnceInv, UNCHANGED <<passed, dismissed>>,
           InQueue' \subseteq InQueue, raced \subseteq raced', faults \in Nat, faults <= faults',
           \A u \in Moderator : \A n \in File :
              /\ Hands(u, n)' => Hands(u, n)
              /\ Reads(u, n)' => Reads(u, n)
              /\ Unlinks(u, n) => Unlinks(u, n)'
    PROVE  OnceInv'
<1> SUFFICES ASSUME faults' = 0, NEW n \in File, n \notin raced'  PROVE Once(n)'
  BY DEF OnceInv
<1>1. Once(n)
  BY faults = 0 DEF OnceInv
<1>2. Decisions(n)' = Decisions(n)
  BY DEF Decisions
<1>3. \A u, v \in Moderator : Hands(u, n)' /\ Hands(v, n)' => u = v
  BY <1>1 DEF Once
<1>4. \A u \in Moderator : Reads(u, n)' => Decisions(n) = 0
  BY <1>1 DEF Once
<1>5. n \in InQueue' /\ (\A u \in Moderator : ~Unlinks(u, n)') => Decisions(n) = 0
  BY <1>1 DEF Once
<1>6. Decisions(n) <= 1
  BY <1>1 DEF Once
<1> QED  BY <1>2, <1>3, <1>4, <1>5, <1>6 DEF Once

(* A handler's step: what is left to show of it.                           *)
LEMMA HandlerKeeps ==
    ASSUME TypeOK, TypeOK', ModInv, NEW u \in Moderator,
           UNCHANGED <<list, member, saver, form, saved, deleted>>,
           \A v \in Moderator \ {u} : web'[v] = web[v],
           GoodPost(web'[u], saver, deleted, passed', strayed'),
           spool' \subseteq spool, \A n \in File : passed[n] <= passed'[n],
           strayed \subseteq strayed', dismissed \subseteq dismissed', torn \subseteq torn',
           faults <= faults', faults' = 0 => Carried(web'[u], spool', torn'),
           OnceInv',
           \A f \in spool \ spool' : passed[f.name] > 0 \/ f.name \in strayed \cup dismissed',
           \A n \in File : passed'[n] # passed[n] \/ n \in dismissed' \ dismissed
                             => saver[n].st \in Offered,
           \A n \in strayed' \ strayed : saver[n].l.addr \in deleted /\ saver[n].st \in Offered
    PROVE  ModInv'
<1>1. KeysUnique'
  BY KnownsUnique DEF ModInv
<1>2. SaversOK'
  <2>1. \A l : Live(l)' = Live(l)
    BY DEF Live
  <2> QED  BY <2>1, Typed DEF ModInv, SaversOK
<1>3. FilesOK' /\ FormsOK'
  BY DEF ModInv, FilesOK, FormsOK
<1>4. PostsOK'
  <2>1. \A v \in Moderator \ {u} : GoodPost(web'[v], saver, deleted, passed', strayed')
    <3>1. passed \in [File -> Nat] /\ passed' \in [File -> Nat]
      BY DEF TypeOK
    <3>2. \A w : GoodPost(w, saver, deleted, passed, strayed)
                   => GoodPost(w, saver, deleted, passed', strayed')
      BY <3>1, PostStays
    <3> QED  BY <3>2 DEF ModInv, PostsOK
  <2> QED  BY <2>1 DEF PostsOK
<1>5. Accounted'
  <2> SUFFICES ASSUME NEW n \in File, saver[n].st \in {"writing", "saved"}
               PROVE  n \in InQueue' \/ passed'[n] > 0 \/ n \in dismissed' \/ n \in strayed'
    BY DEF Accounted
  <2>1. passed[n] \in Nat /\ passed'[n] \in Nat /\ passed[n] <= passed'[n]
    BY DEF TypeOK
  <2>2. n \in InQueue => n \in InQueue' \/ passed[n] > 0 \/ n \in strayed \cup dismissed'
    BY DEF InQueue
  <2> QED  BY <2>1, <2>2 DEF ModInv, Accounted
<1>6. QueueBelongsToList'
  BY DEF ModInv, QueueBelongsToList
<1>7. CarriedInv'
  <2> SUFFICES ASSUME faults' = 0, NEW v \in Moderator, v # u
               PROVE  Carried(web'[v], spool', torn')
    BY DEF CarriedInv
  <2>1. Carried(web[v], spool, torn)
    BY Typed DEF ModInv, CarriedInv
  <2> QED  BY <2>1 DEF Carried, NotIn
<1> QED  BY <1>1, <1>2, <1>3, <1>4, <1>5, <1>6, <1>7 DEF ModInv

-----------------------------------------------------------------------------
(* The handler                                                             *)

LEMMA HandlerState ==
    ASSUME TypeOK, ModInv, NEW u \in Moderator
    PROVE  /\ web \in [Moderator -> PostState] /\ web[u] \in PostState
           /\ GoodPost(web[u], saver, deleted, passed, strayed)
           /\ faults \in Nat /\ faults = 0 => Carried(web[u], spool, torn)
           /\ passed \in [File -> Nat]
  BY Typed DEF ModInv, PostsOK, CarriedInv

(* The other handlers have in hand what they had before.                   *)
LEMMA SameHands ==
    ASSUME TypeOK, NEW u \in Moderator, \A v \in Moderator \ {u} : web'[v] = web[v],
           web'[u].pc = "act" => web'[u] = web[u],
           web'[u].pc = "unlink" => web[u].pc = "unlink" /\ web'[u].cur = web[u].cur,
           web[u].pc = "unlink" => web'[u].pc = "unlink" /\ web'[u].cur = web[u].cur
    PROVE  \A v \in Moderator : \A n \in File :
              /\ Hands(v, n)' => Hands(v, n)
              /\ Reads(v, n)' => Reads(v, n)
              /\ Unlinks(v, n) => Unlinks(v, n)'
  BY DEF Hands, Reads, Unlinks

(* Only the state of the handler changes, and it has no file before or     *)
(* after, or a call fails.                                                 *)
LEMMA QuietKeeps ==
    ASSUME TypeOK, ModInv, NEW u \in Moderator, NEW w \in PostState,
           web' = [web EXCEPT ![u] = w],
           UNCHANGED <<list, member, files, form, history, adminOps>>,
           known' \subseteq KnownRow, Fault \/ UNCHANGED <<faults, limit>>,
           w.pc \notin {"act", "unlink"}, web[u].pc = "unlink" => Fault,
           GoodPost(w, saver, deleted, passed, strayed),
           faults' = 0 => Carried(w, spool, torn)
    PROVE  TypeOK' /\ ModInv'
<1>1. /\ web'[u] = w /\ \A v \in Moderator \ {u} : web'[v] = web[v]
      /\ UNCHANGED <<list, member, saver, spool, form, saved, deleted, passed, strayed>>
      /\ UNCHANGED <<dismissed, torn, raced>>
  BY HandlerState DEF tables, files, history
<1>2. TypeOK'
  BY <1>1, HandlerTyped, Typed
<1>3. faults <= faults' /\ (Fault => faults' > 0) /\ faults \in Nat
  BY Faulted, Typed DEF NoFault
<1>4. OnceInv'
  <2>1. CASE web[u].pc = "unlink"
    BY <1>3, <2>1 DEF OnceInv
  <2>2. CASE web[u].pc # "unlink"
    <3>1. InQueue' = InQueue
      BY <1>1 DEF InQueue
    <3> QED  BY <1>1, <1>3, <2>2, <3>1, SameHands, OnceStays DEF ModInv
  <2> QED  BY <2>1, <2>2
<1>5. ModInv'
  <2>1. /\ GoodPost(web'[u], saver, deleted, passed', strayed')
        /\ faults' = 0 => Carried(web'[u], spool', torn')
    BY <1>1
  <2>2. /\ spool' \subseteq spool /\ strayed \subseteq strayed' /\ dismissed \subseteq dismissed'
        /\ torn \subseteq torn'
    BY <1>1
  <2>3. \A n \in File : passed[n] <= passed'[n]
    <3>1. \A n \in File : passed[n] \in Nat
      BY Typed
    <3> QED  BY <1>1, <3>1
  <2>4. spool \ spool' = {} /\ dismissed' \ dismissed = {} /\ strayed' \ strayed = {}
    BY <1>1
  <2> QED  BY <1>1, <1>2, <1>3, <1>4, <2>1, <2>2, <2>3, <2>4, HandlerKeeps
<1> QED  BY <1>2, <1>5

LEMMA IdleKeeps ==
    ASSUME TypeOK, ModInv, NEW u \in Moderator, NEW w \in PostState,
           web' = [web EXCEPT ![u] = w],
           UNCHANGED <<tables, files, form, history, faults, limit, adminOps>>,
           w.pc \notin {"act", "unlink"}, web[u].pc # "unlink",
           GoodPost(w, saver, deleted, passed, strayed),
           faults = 0 => Carried(w, spool, torn)
    PROVE  TypeOK' /\ ModInv'
<1>1. UNCHANGED <<list, member, known>>
  BY DEF tables
<1>2. known' \subseteq KnownRow
  BY <1>1 DEF TypeOK, RepoTypeOK
<1> QED  BY <1>1, <1>2, QuietKeeps

LEMMA GoodNoPost == GoodPost(NoPost, saver, deleted, passed, strayed) /\ Carried(NoPost, spool, torn)
  BY DEF NoPost, GoodPost, Carried, InHand

LEMMA PostKeeps ==
    ASSUME TypeOK, ModInv, NEW u \in Moderator, Post(u)
    PROVE  TypeOK' /\ ModInv'
<1>1. PICK l \in GetList(form[u].addr), d \in [File -> Decision] :
         /\ \A n \in File \ form[u].names : d[n] = NoPost.dec[n]
         /\ web' = [web EXCEPT ![u] =
                      [NoPost EXCEPT !.pc = "auth", !.l = l, !.todo = form[u].names, !.dec = d]]
  BY DEF Post
<1> DEFINE w == [NoPost EXCEPT !.pc = "auth", !.l = l, !.todo = form[u].names, !.dec = d]
<1>2. l \in ListRow /\ l.addr = form[u].addr /\ form[u].names \subseteq File
  BY Typed DEF GetList, TypeOK, RepoTypeOK, FormState
<1>3. \A n \in File \ form[u].names : d[n] = "postpone"
  BY <1>1 DEF NoPost
<1>4. /\ w.pc = "auth" /\ w.l = l /\ w.todo = form[u].names /\ w.dec = d
      /\ w \in PostState
  BY <1>2, <1>3, NoPostTyped DEF NoPost, PostState, PC
<1> HIDE DEF w
<1>5. GoodPost(w, saver, deleted, passed, strayed)
  BY <1>2, <1>3, <1>4 DEF GoodPost, ModInv, FormsOK, InHand
<1>6. Carried(w, spool, torn)
  BY <1>3, <1>4 DEF Carried
<1>7. /\ web' = [web EXCEPT ![u] = w] /\ web[u].pc = "idle"
      /\ UNCHANGED <<tables, files, form, history, faults, limit, adminOps>>
  BY <1>1 DEF w, Post, bounds
<1> QED  BY <1>4, <1>5, <1>6, <1>7, IdleKeeps

LEMMA AuthorizeKeeps ==
    ASSUME TypeOK, ModInv, NEW u \in Moderator, Authorize(u)
    PROVE  TypeOK' /\ ModInv'
<1> DEFINE w == [web[u] EXCEPT !.pc = "next"]
<1>1. /\ web[u].pc = "auth"
      /\ web' = [web EXCEPT ![u] = w] \/ web' = [web EXCEPT ![u] = NoPost]
      /\ UNCHANGED <<tables, files, form, history, faults, limit, adminOps>>
  BY DEF Authorize, bounds
<1>2. /\ w \in PostState /\ w.pc = "next" /\ w.l = web[u].l /\ w.todo = web[u].todo
      /\ w.dec = web[u].dec /\ w.alert = web[u].alert
  BY HandlerState DEF PostState, PC
<1> HIDE DEF w
<1>3. GoodPost(w, saver, deleted, passed, strayed)
  BY <1>1, <1>2, HandlerState DEF GoodPost, InHand
<1>4. faults = 0 => Carried(w, spool, torn)
  BY <1>1, <1>2, HandlerState DEF Carried
<1>5. CASE web' = [web EXCEPT ![u] = w]
  BY <1>1, <1>2, <1>3, <1>4, <1>5, IdleKeeps
<1>6. CASE web' = [web EXCEPT ![u] = NoPost]
  <2>1. NoPost.pc = "idle"
    BY DEF NoPost
  <2> QED  BY <1>1, <1>6, <2>1, NoPostTyped, GoodNoPost, IdleKeeps
<1> QED  BY <1>1, <1>5, <1>6

LEMMA RedirectKeeps ==
    ASSUME TypeOK, ModInv, NEW u \in Moderator, Redirect(u)
    PROVE  TypeOK' /\ ModInv'
<1> DEFINE w == [web[u] EXCEPT !.pc = "done"]
<1>1. /\ web[u].pc = "next" /\ web[u].todo = {} /\ web' = [web EXCEPT ![u] = w]
      /\ UNCHANGED <<tables, files, form, history, faults, limit, adminOps>>
  BY HandlerState DEF Redirect, bounds
<1>2. /\ w \in PostState /\ w.pc = "done" /\ w.l = web[u].l /\ w.todo = web[u].todo
      /\ w.dec = web[u].dec /\ w.alert = web[u].alert
  BY HandlerState DEF PostState, PC
<1> HIDE DEF w
<1>3. GoodPost(w, saver, deleted, passed, strayed)
  BY <1>1, <1>2, HandlerState DEF GoodPost, InHand
<1>4. faults = 0 => Carried(w, spool, torn)
  BY <1>1, <1>2, HandlerState DEF Carried
<1> QED  BY <1>1, <1>2, <1>3, <1>4, IdleKeeps

LEMMA ReturnKeeps ==
    ASSUME TypeOK, ModInv, NEW u \in Moderator, Return(u)
    PROVE  TypeOK' /\ ModInv'
<1>1. /\ web[u].pc \in {"done", "panic"} /\ web' = [web EXCEPT ![u] = NoPost]
      /\ UNCHANGED <<tables, files, form, history, faults, limit, adminOps>>
  BY DEF Return, bounds
<1>2. NoPost.pc = "idle"
  BY DEF NoPost
<1> QED  BY <1>1, <1>2, NoPostTyped, GoodNoPost, IdleKeeps
LEMMA SkipKeeps ==
    ASSUME TypeOK, ModInv, NEW u \in Moderator, Skip(u)
    PROVE  TypeOK' /\ ModInv'
<1> DEFINE w == [web[u] EXCEPT !.pc = "next", !.cur = None]
<1>1. /\ web[u].pc = "act" /\ web' = [web EXCEPT ![u] = w]
      /\ UNCHANGED <<tables, files, form, history, faults, limit, adminOps>>
      /\ web[u].dec[web[u].cur] = "postpone" \/ web[u].msg = "err"
  BY HandlerState DEF Skip, bounds
<1>2. /\ w \in PostState /\ w.pc = "next" /\ w.l = web[u].l /\ w.todo = web[u].todo
      /\ w.dec = web[u].dec /\ w.alert = web[u].alert
  BY HandlerState DEF PostState, PC
<1> HIDE DEF w
<1>3. GoodPost(w, saver, deleted, passed, strayed)
  BY <1>1, <1>2, HandlerState DEF GoodPost, InHand
<1>4. faults = 0 => Carried(w, spool, torn)
  BY <1>1, <1>2, HandlerState DEF Carried
<1> QED  BY <1>1, <1>2, <1>3, <1>4, IdleKeeps

LEMMA AfterPC == \A u : After(u) \in {"known", "next"}
  BY DEF After

LEMMA KnownKeeps ==
    ASSUME TypeOK, ModInv, NEW u \in Moderator, Known(u)
    PROVE  TypeOK' /\ ModInv'
<1>1. /\ web[u].pc = "known" /\ web[u].l \in ListRow /\ web[u].cur \in File
  BY HandlerState DEF Known, GoodPost, InHand
<1>2. PICK w \in {[web[u] EXCEPT !.pc = "panic"],
                  [web[u] EXCEPT !.pc = "next", !.cur = None],
                  [web[u] EXCEPT !.pc = "next", !.cur = None, !.alert = TRUE]} :
         web' = [web EXCEPT ![u] = w]
  BY HandlerState DEF Known
<1>3. /\ w \in PostState /\ w.pc \in {"panic", "next"} /\ w.l = web[u].l /\ w.todo = web[u].todo
      /\ w.dec = web[u].dec /\ (web[u].alert => w.alert)
  BY HandlerState DEF PostState, PC
<1>4. UNCHANGED <<list, member>> /\ known' \subseteq KnownRow
  <2>1. CASE UNCHANGED tables
    BY <2>1 DEF tables, TypeOK, RepoTypeOK
  <2>2. CASE From[web[u].cur] # None /\ AddKnowns(web[u].l, {From[web[u].cur]})
    <3>1. From[web[u].cur] \in Address /\ web[u].l.id \in Id
      BY <1>1, <2>2, FromAssumption DEF Address, ListRow
    <3> QED  BY <2>2, <3>1 DEF AddKnowns, TypeOK, RepoTypeOK, KnownRow
  <2> QED  BY <2>1, <2>2 DEF Known
<1>5. UNCHANGED <<files, form, history, adminOps>> /\ (Fault \/ UNCHANGED <<faults, limit>>)
  BY DEF Known, NoFault
<1>6. GoodPost(w, saver, deleted, passed, strayed)
  BY <1>1, <1>3, HandlerState DEF GoodPost, InHand
<1>7. faults' = 0 => Carried(w, spool, torn)
  <2>1. faults' = 0 => faults = 0
    BY <1>5, Faulted, Typed DEF NoFault
  <2> QED  BY <1>1, <1>3, <2>1, HandlerState DEF Carried
<1> QED  BY <1>1, <1>2, <1>3, <1>4, <1>5, <1>6, <1>7, QuietKeeps

(* A file that the step of a handler does not concern.                     *)
LEMMA OnceOther ==
    ASSUME NEW n \in File, NEW u \in Moderator, Once(n),
           \A v \in Moderator \ {u} : web'[v] = web[v],
           ~Hands(u, n), ~Hands(u, n)',
           passed'[n] = passed[n], n \in dismissed' <=> n \in dismissed,
           n \in InQueue' => n \in InQueue
    PROVE  Once(n)'
<1>1. Decisions(n)' = Decisions(n)
  BY DEF Decisions
<1>2. \A v \in Moderator : /\ Hands(v, n)' <=> Hands(v, n)
                           /\ Reads(v, n)' <=> Reads(v, n)
                           /\ Unlinks(v, n)' <=> Unlinks(v, n)
  BY DEF Hands, Reads, Unlinks
<1> QED  BY <1>1, <1>2 DEF Once

LEMMA ReadKeeps ==
    ASSUME TypeOK, ModInv, NEW u \in Moderator, NEW n \in File, Read(u, n)
    PROVE  TypeOK' /\ ModInv'
<1>1. PICK msg \in {"whole", "part", "err"} :
         /\ web' = [web EXCEPT ![u].pc = "act", ![u].cur = n, ![u].msg = msg,
                               ![u].todo = @ \ {n}]
         /\ \/ In(web[u].l, n) = {} /\ msg = "err" /\ NoFault
            \/ \E f \in In(web[u].l, n) : \/ msg = "err" /\ Fault
                                          \/ msg # "err" /\ NoFault
                                          \/ ~f.whole /\ NoFault
         /\ torn' = IF \E f \in In(web[u].l, n) : ~f.whole THEN torn \cup {n} ELSE torn
  BY DEF Read
<1>2. /\ web[u].pc = "next" /\ n \in web[u].todo
      /\ raced \subseteq raced' /\ raced' \subseteq raced \cup {n}
      /\ \A v \in Moderator \ {u} : Hands(v, n) => n \in raced'
      /\ UNCHANGED <<list, member, known, saver, spool, form, passed, strayed>>
      /\ UNCHANGED <<dismissed, saved, deleted, adminOps>>
  BY DEF Read, tables, files, Hands
<1> DEFINE w == [web[u] EXCEPT !.pc = "act", !.cur = n, !.msg = msg, !.todo = @ \ {n}]
<1>3. web' = [web EXCEPT ![u] = w]
  BY <1>1, HandlerState
<1>4. /\ w \in PostState /\ w.pc = "act" /\ w.cur = n /\ w.msg = msg /\ w.l = web[u].l
      /\ w.todo = web[u].todo \ {n} /\ w.dec = web[u].dec /\ w.alert = web[u].alert
  BY HandlerState DEF PostState, PC
<1> HIDE DEF w
<1>5. web'[u] = w /\ \A v \in Moderator \ {u} : web'[v] = web[v]
  BY <1>3, HandlerState
<1>6. Fault \/ UNCHANGED <<faults, limit>>
  BY <1>1 DEF NoFault
<1>7. TypeOK'
  BY <1>1, <1>2, <1>3, <1>4, <1>6, HandlerTyped, Typed DEF TypeOK, RepoTypeOK
<1>8. faults <= faults' /\ (Fault => faults' > 0) /\ faults \in Nat
  BY <1>6, Faulted, Typed DEF NoFault
<1>9. GoodPost(w, saver, deleted, passed', strayed')
  <2>1. msg # "err" => saver[n].l.id = web[u].l.id
    BY <1>1 DEF In, StorageFolder, ModInv, FilesOK
  <2> QED  BY <1>2, <1>4, <2>1, HandlerState DEF GoodPost, InHand
<1>10. faults' = 0 => Carried(w, spool', torn')
  <2> SUFFICES ASSUME faults' = 0, ~w.alert, NEW m \in File, w.dec[m] # "postpone", m \notin torn'
               PROVE  m \in w.todo \/ (m = n /\ msg # "err") \/ NotIn(spool, w.l, m)
    BY <1>2, <1>4 DEF Carried
  <2>1. CASE m # n
    BY <1>1, <1>2, <1>4, <1>8, <2>1, HandlerState DEF Carried
  <2>2. CASE m = n /\ msg = "err"
    <3>1. In(web[u].l, n) = {}
      BY <1>1, <1>8, <2>2
    <3> QED  BY <1>4, <2>2, <3>1 DEF In, StorageFolder, NotIn
  <2> QED  BY <2>1, <2>2
<1>11. OnceInv'
  <2> SUFFICES ASSUME faults' = 0, NEW m \in File, m \notin raced'  PROVE Once(m)'
    BY DEF OnceInv
  <2>1. Once(m)
    BY <1>2, <1>8 DEF ModInv, OnceInv
  <2>2. InQueue' = InQueue /\ Decisions(m)' = Decisions(m)
    BY <1>2 DEF InQueue, Decisions
  <2>3. CASE m # n
    <3>1. ~Hands(u, m) /\ ~Hands(u, m)'
      BY <1>2, <1>4, <1>5, <2>3 DEF Hands
    <3> QED  BY <1>2, <1>5, <2>1, <2>2, <3>1, OnceOther
  <2>4. CASE m = n
    <3>1. \A v \in Moderator : v # u => ~Hands(v, n)' /\ ~Hands(v, n)
      BY <1>2, <1>5, <2>4 DEF Hands
    <3>2. \A v \in Moderator : ~Unlinks(v, n)
      BY <1>2, <3>1 DEF Hands, Unlinks
    <3>3. \A v \in Moderator : Reads(v, n)' => v = u /\ msg # "err"
      BY <1>4, <1>5, <3>1 DEF Hands, Reads
    <3>4. msg # "err" => n \in InQueue
      BY <1>1 DEF In, InQueue
    <3>5. n \in InQueue => Decisions(n) = 0
      BY <2>1, <2>4, <3>2 DEF Once
    <3> QED  BY <2>1, <2>2, <2>4, <3>1, <3>3, <3>4, <3>5 DEF Once
  <2> QED  BY <2>3, <2>4
<1>12. \A m \in File : passed[m] <= passed'[m]
  <2>1. \A m \in File : passed[m] \in Nat
    BY Typed
  <2> QED  BY <1>2, <2>1
<1>13. ModInv'
  <2>1. /\ spool \ spool' = {} /\ dismissed' \ dismissed = {} /\ strayed' \ strayed = {}
        /\ spool' \subseteq spool /\ strayed \subseteq strayed' /\ dismissed \subseteq dismissed'
        /\ torn \subseteq torn'
    BY <1>1, <1>2
  <2> QED  BY <1>2, <1>5, <1>7, <1>8, <1>9, <1>10, <1>11, <1>12, <2>1, HandlerKeeps
<1> QED  BY <1>7, <1>13

(* All of a file goes: it is in one folder.                                *)
LEMMA Gone ==
    ASSUME FilesOK, NEW l, NEW n \in File, l.id = saver[n].l.id, spool' = Without(l, n)
    PROVE  /\ spool' \subseteq spool /\ NotIn(spool', l, n) /\ n \notin InQueue'
           /\ \A f \in spool \ spool' : f.name = n
           /\ \A m : m \in InQueue' => m \in InQueue
  BY DEF FilesOK, Without, In, StorageFolder, NotIn, InQueue

(* What follows a failed deletion or a failed forward: the handler goes on *)
(* to the check box or to the next file, with an alert.                    *)
LEMMA AlertedGood ==
    ASSUME TypeOK, ModInv, NEW u \in Moderator, web[u].pc = "act",
           NEW w, w = [web[u] EXCEPT !.pc = After(u), !.alert = TRUE]
    PROVE  /\ w \in PostState /\ w.pc \notin {"act", "unlink"}
           /\ GoodPost(w, saver, deleted, passed, strayed)
           /\ \A sp, to : Carried(w, sp, to)
<1>1. /\ w.pc \in {"known", "next"} /\ w.l = web[u].l /\ w.todo = web[u].todo /\ w.alert
      /\ w.dec = web[u].dec /\ w.cur = web[u].cur /\ w.msg = web[u].msg /\ w \in PostState
  BY AfterPC, HandlerState DEF PostState, PC
<1> QED  BY <1>1, HandlerState DEF GoodPost, InHand, Carried

LEMMA RemoveKeeps ==
    ASSUME TypeOK, ModInv, NEW u \in Moderator, Remove(u)
    PROVE  TypeOK' /\ ModInv'
<1> DEFINE n == web[u].cur
<1>1. /\ web[u].pc = "act" /\ n \in File
      /\ UNCHANGED <<list, member, known, saver, form, passed, strayed>>
      /\ UNCHANGED <<saved, torn, raced, deleted, adminOps>>
  BY HandlerState DEF Remove, GoodPost, InHand, tables
<1>2. CASE /\ UNCHANGED <<spool, dismissed>> /\ (Fault \/ NoFault)
           /\ web' = [web EXCEPT ![u].pc = After(u), ![u].alert = TRUE]
  <2> DEFINE w == [web[u] EXCEPT !.pc = After(u), !.alert = TRUE]
  <2>1. web' = [web EXCEPT ![u] = w]
    BY <1>2, HandlerState
  <2>2. UNCHANGED <<list, member, files, form, history, adminOps>> /\ known' \subseteq KnownRow
    BY <1>1, <1>2 DEF files, history, TypeOK, RepoTypeOK
  <2>3. /\ w \in PostState /\ w.pc \notin {"act", "unlink"}
        /\ GoodPost(w, saver, deleted, passed, strayed) /\ Carried(w, spool, torn)
    BY <1>1, AlertedGood
  <2> HIDE DEF w
  <2> QED  BY <1>1, <1>2, <2>1, <2>2, <2>3, QuietKeeps DEF NoFault
<1>3. CASE /\ In(web[u].l, n) # {} /\ NoFault
           /\ spool' = Without(web[u].l, n) /\ dismissed' = dismissed \cup {n}
           /\ web' = [web EXCEPT ![u].pc = After(u)]
  <2> DEFINE w == [web[u] EXCEPT !.pc = After(u)]
  <2>1. web' = [web EXCEPT ![u] = w]
    BY <1>3, HandlerState
  <2>2. /\ w \in PostState /\ w.pc \in {"known", "next"} /\ w.cur = n /\ w.msg = web[u].msg
        /\ w.l = web[u].l /\ w.todo = web[u].todo /\ w.dec = web[u].dec /\ w.alert = web[u].alert
    BY AfterPC, HandlerState DEF PostState, PC
  <2> HIDE DEF w
  <2>3. web'[u] = w /\ \A v \in Moderator \ {u} : web'[v] = web[v]
    BY <2>1, HandlerState
  <2>4. saver[n].l.id = web[u].l.id /\ saver[n].st \in Offered /\ n \in InQueue
    BY <1>3 DEF In, StorageFolder, ModInv, FilesOK, InQueue
  <2>5. /\ spool' \subseteq spool /\ NotIn(spool', w.l, n) /\ n \notin InQueue'
        /\ \A f \in spool \ spool' : f.name = n
        /\ \A m : m \in InQueue' => m \in InQueue
    BY <1>1, <1>3, <2>2, <2>4, Gone DEF ModInv
  <2>6. UNCHANGED <<faults, limit>> /\ faults \in Nat /\ \A m \in File : passed[m] \in Nat
    BY <1>3, Typed DEF NoFault
  <2>7. TypeOK'
    <3>1. known' \subseteq KnownRow /\ dismissed' \subseteq File /\ passed' \in [File -> Nat]
      BY <1>1, <1>3, Typed DEF TypeOK, RepoTypeOK
    <3> QED  BY <1>1, <2>1, <2>2, <2>5, <2>6, <3>1, HandlerTyped, Typed
  <2>8. GoodPost(w, saver, deleted, passed', strayed')
    BY <1>1, <2>2, HandlerState DEF GoodPost, InHand
  <2>9. faults' = 0 => Carried(w, spool', torn')
    BY <1>1, <2>2, <2>5, <2>6, HandlerState DEF Carried, NotIn
  <2>10. OnceInv'
    <3> SUFFICES ASSUME faults' = 0, NEW m \in File, m \notin raced'  PROVE Once(m)'
      BY DEF OnceInv
    <3>1. Once(m)
      BY <1>1, <2>6 DEF ModInv, OnceInv
    <3>2. CASE m # n
      <4>1. ~Hands(u, m) /\ ~Hands(u, m)'
        BY <2>2, <2>3, <3>2 DEF Hands
      <4>2. passed'[m] = passed[m] /\ (m \in dismissed' <=> m \in dismissed)
        BY <1>1, <1>3, <3>2
      <4> QED  BY <2>3, <2>5, <3>1, <4>1, <4>2, OnceOther
    <3>3. CASE m = n
      <4>1. \A v \in Moderator : ~Hands(v, m)' /\ ~Unlinks(v, m) /\ ~Reads(v, m)'
        BY <1>1, <2>2, <2>3, <3>1, <3>3 DEF Once, Hands, Unlinks, Reads
      <4>2. Decisions(m) = 0
        BY <2>4, <3>1, <3>3, <4>1 DEF Once
      <4>3. Decisions(m)' <= 1
        BY <1>1, <2>6, <4>2 DEF Decisions
      <4> QED  BY <2>5, <3>3, <4>1, <4>3 DEF Once
    <3> QED  BY <3>2, <3>3
  <2>11. ModInv'
    <3>1. \A m \in File : passed[m] <= passed'[m]
      BY <1>1, <2>6
    <3>2. /\ strayed \subseteq strayed' /\ dismissed \subseteq dismissed' /\ torn \subseteq torn'
          /\ strayed' \ strayed = {} /\ faults <= faults'
      BY <1>1, <1>3, <2>6
    <3>3. /\ \A f \in spool \ spool' : passed[f.name] > 0 \/ f.name \in strayed \cup dismissed'
          /\ \A m \in File : passed'[m] # passed[m] \/ m \in dismissed' \ dismissed
                               => saver[m].st \in Offered
      BY <1>1, <1>3, <2>4, <2>5
    <3> QED  BY <1>1, <2>3, <2>5, <2>7, <2>8, <2>9, <2>10, <3>1, <3>2, <3>3, HandlerKeeps
  <2> QED  BY <2>7, <2>11
<1> QED  BY <1>2, <1>3 DEF Remove

LEMMA UnlinkKeeps ==
    ASSUME TypeOK, ModInv, NEW u \in Moderator, Unlink(u)
    PROVE  TypeOK' /\ ModInv'
<1> DEFINE n == web[u].cur
           w == [web[u] EXCEPT !.pc = After(u)]
<1>1. /\ web[u].pc = "unlink" /\ n \in File /\ web[u].msg # "err"
      /\ saver[n].l.id = web[u].l.id /\ saver[n].st \in Offered
      /\ passed[n] > 0 \/ n \in strayed
      /\ UNCHANGED <<list, member, known, saver, form, history, adminOps>>
      /\ web' = [web EXCEPT ![u] = w]
  BY HandlerState DEF Unlink, GoodPost, InHand, SentTo, tables
<1>2. /\ w \in PostState /\ w.pc \in {"known", "next"} /\ w.cur = n /\ w.msg = web[u].msg
      /\ w.l = web[u].l /\ w.todo = web[u].todo /\ w.dec = web[u].dec /\ w.alert = web[u].alert
  BY AfterPC, HandlerState DEF PostState, PC
<1> HIDE DEF w
<1>3. GoodPost(w, saver, deleted, passed, strayed)
  BY <1>1, <1>2, HandlerState DEF GoodPost, InHand
<1>4. known' \subseteq KnownRow
  BY <1>1 DEF TypeOK, RepoTypeOK
<1>5. CASE Fault /\ UNCHANGED spool
  <2>1. faults' = 0 => Carried(w, spool, torn)
    BY <1>5, Faulted, Typed
  <2>2. UNCHANGED <<list, member, files, form, history, adminOps>>
    BY <1>1, <1>5 DEF files
  <2> QED  BY <1>1, <1>2, <1>3, <1>4, <1>5, <2>1, <2>2, QuietKeeps
<1>6. CASE NoFault /\ spool' = Without(web[u].l, n)
  <2>1. web'[u] = w /\ \A v \in Moderator \ {u} : web'[v] = web[v]
    BY <1>1, HandlerState
  <2>2. /\ spool' \subseteq spool /\ NotIn(spool', w.l, n) /\ n \notin InQueue'
        /\ \A f \in spool \ spool' : f.name = n
        /\ \A m : m \in InQueue' => m \in InQueue
    BY <1>1, <1>2, <1>6, Gone DEF ModInv
  <2>3. UNCHANGED <<faults, limit>> /\ faults \in Nat /\ \A m \in File : passed[m] \in Nat
    BY <1>6, Typed DEF NoFault
  <2>4. UNCHANGED <<passed, strayed, dismissed, saved, torn, raced, deleted>>
    BY <1>1 DEF history
  <2>5. TypeOK'
    BY <1>1, <1>2, <1>4, <2>2, <2>3, <2>4, HandlerTyped, Typed
  <2>6. GoodPost(w, saver, deleted, passed', strayed')
    BY <1>3, <2>4
  <2>7. faults' = 0 => Carried(w, spool', torn')
    BY <1>1, <1>2, <2>2, <2>3, <2>4, HandlerState DEF Carried, NotIn
  <2>8. OnceInv'
    <3> SUFFICES ASSUME faults' = 0, NEW m \in File, m \notin raced'  PROVE Once(m)'
      BY DEF OnceInv
    <3>1. Once(m)
      BY <2>3, <2>4 DEF ModInv, OnceInv
    <3>2. CASE m # n
      <4>1. ~Hands(u, m) /\ ~Hands(u, m)'
        BY <1>2, <2>1, <3>2 DEF Hands
      <4> QED  BY <2>1, <2>2, <2>4, <3>1, <4>1, OnceOther
    <3>3. CASE m = n
      <4>1. \A v \in Moderator : ~Hands(v, m)' /\ ~Reads(v, m)'
        BY <1>1, <1>2, <2>1, <3>1, <3>3 DEF Once, Hands, Reads
      <4>2. Decisions(m)' = Decisions(m)
        BY <2>4 DEF Decisions
      <4> QED  BY <2>2, <3>1, <3>3, <4>1, <4>2 DEF Once
    <3> QED  BY <3>2, <3>3
  <2>9. ModInv'
    <3>1. \A m \in File : passed[m] <= passed'[m]
      BY <2>3, <2>4
    <3>2. /\ strayed \subseteq strayed' /\ dismissed \subseteq dismissed' /\ torn \subseteq torn'
          /\ strayed' \ strayed = {} /\ dismissed' \ dismissed = {} /\ faults <= faults'
      BY <2>3, <2>4
    <3>3. \A f \in spool \ spool' : passed[f.name] > 0 \/ f.name \in strayed \cup dismissed'
      BY <1>1, <2>2
    <3> QED  BY <1>1, <2>1, <2>2, <2>4, <2>5, <2>6, <2>7, <2>8, <3>1, <3>2, <3>3, HandlerKeeps
  <2> QED  BY <2>5, <2>9
<1> QED  BY <1>5, <1>6 DEF Unlink

(* What sendmail was given counts for the list of the mail or for another. *)
LEMMA SentCounts ==
    ASSUME TypeOK, ModInv, NEW u \in Moderator, Forward(u)
    PROVE  /\ passed' \in [File -> Nat] /\ strayed \subseteq strayed' /\ strayed' \subseteq File
           /\ \A m \in File : passed[m] <= passed'[m] /\ passed'[m] <= passed[m] + 1
           /\ \A m \in File : m # web[u].cur => passed'[m] = passed[m]
           /\ \A m \in File : passed'[m] # passed[m] => saver[m].st \in Offered
           /\ \A m \in strayed' \ strayed : saver[m].l.addr \in deleted /\ saver[m].st \in Offered
<1>1. /\ web[u].pc = "act" /\ web[u].cur \in File /\ web[u].msg # "err"
      /\ saver[web[u].cur].st \in Offered
      /\ saver[web[u].cur].l.addr \in deleted \cup {web[u].l.addr}
      /\ passed \in [File -> Nat] /\ strayed \subseteq File
  BY HandlerState, Typed DEF Forward, GoodPost, InHand, SentTo
<1>2. \/ UNCHANGED <<passed, strayed>>
      \/ passed' = [passed EXCEPT ![web[u].cur] = @ + 1] /\ UNCHANGED strayed
      \/ /\ web[u].l.addr # saver[web[u].cur].l.addr
         /\ strayed' = strayed \cup {web[u].cur} /\ UNCHANGED passed
  BY DEF Forward
<1> QED  BY <1>1, <1>2

LEMMA ForwardKeeps ==
    ASSUME TypeOK, ModInv, NEW u \in Moderator, Forward(u)
    PROVE  TypeOK' /\ ModInv'
<1> DEFINE n == web[u].cur
<1>1. /\ web[u].pc = "act" /\ n \in File /\ web[u].msg # "err"
      /\ UNCHANGED <<list, member, known, files, form, dismissed, saved, torn, raced, deleted>>
      /\ UNCHANGED <<adminOps, saver, spool>>
  BY HandlerState DEF Forward, GoodPost, InHand, tables, files
<1>2. known' \subseteq KnownRow /\ dismissed' \subseteq File /\ torn' \subseteq File /\ raced' \subseteq File
  BY <1>1, Typed DEF TypeOK, RepoTypeOK
<1>3. ASSUME NEW w \in PostState, web' = [web EXCEPT ![u] = w], Fault \/ NoFault,
             GoodPost(w, saver, deleted, passed', strayed'),
             faults' = 0 => Carried(w, spool, torn), OnceInv'
      PROVE  TypeOK' /\ ModInv'
  <2>1. TypeOK'
    BY <1>1, <1>2, <1>3, SentCounts, HandlerTyped DEF NoFault
  <2>2. web'[u] = w /\ \A v \in Moderator \ {u} : web'[v] = web[v]
    BY <1>3, HandlerState
  <2>3. /\ GoodPost(web'[u], saver, deleted, passed', strayed')
        /\ faults' = 0 => Carried(web'[u], spool', torn')
    BY <1>1, <1>3, <2>2
  <2>4. /\ spool' \subseteq spool /\ dismissed \subseteq dismissed' /\ torn \subseteq torn'
        /\ spool \ spool' = {} /\ dismissed' \ dismissed = {}
    BY <1>1
  <2>5. faults <= faults'
    BY <1>3, Faulted
  <2> QED  BY <1>1, <1>3, <2>1, <2>2, <2>3, <2>4, <2>5, SentCounts, HandlerKeeps
<1>4. CASE /\ web' = [web EXCEPT ![u].pc = "unlink"] /\ Receivers(web[u].l) # {} /\ NoFault
           /\ IF web[u].l.addr = saver[n].l.addr
              THEN passed' = [passed EXCEPT ![n] = @ + 1] /\ UNCHANGED strayed
              ELSE strayed' = strayed \cup {n} /\ UNCHANGED passed
  <2> DEFINE w == [web[u] EXCEPT !.pc = "unlink"]
  <2>1. web' = [web EXCEPT ![u] = w]
    BY <1>4, HandlerState
  <2>2. /\ w \in PostState /\ w.pc = "unlink" /\ w.cur = n /\ w.msg = web[u].msg
        /\ w.l = web[u].l /\ w.todo = web[u].todo /\ w.dec = web[u].dec /\ w.alert = web[u].alert
    BY HandlerState DEF PostState, PC
  <2> HIDE DEF w
  <2>3. web'[u] = w /\ \A v \in Moderator \ {u} : web'[v] = web[v]
    BY <2>1, HandlerState
  <2>4. passed'[n] > 0 \/ n \in strayed'
    BY <1>1, <1>4, HandlerState
  <2>5. GoodPost(w, saver, deleted, passed', strayed')
    BY <1>1, <2>2, <2>4, HandlerState DEF GoodPost, InHand
  <2>6. faults' = faults /\ faults \in Nat
    BY <1>4, Typed DEF NoFault
  <2>7. faults' = 0 => Carried(w, spool, torn)
    BY <1>1, <2>2, <2>6, HandlerState DEF Carried
  <2>8. OnceInv'
    <3> SUFFICES ASSUME faults' = 0, NEW m \in File, m \notin raced'  PROVE Once(m)'
      BY DEF OnceInv
    <3>1. Once(m)
      BY <1>1, <2>6 DEF ModInv, OnceInv
    <3>2. InQueue' = InQueue
      BY <1>1 DEF InQueue
    <3>3. CASE m # n
      <4>1. ~Hands(u, m) /\ ~Hands(u, m)'
        BY <2>2, <2>3, <3>3 DEF Hands
      <4>2. passed'[m] = passed[m]
        BY <3>3, SentCounts
      <4> QED  BY <1>1, <2>3, <3>1, <3>2, <4>1, <4>2, OnceOther
    <3>4. CASE m = n
      <4>1. Decisions(m) = 0 /\ Hands(u, m) /\ Unlinks(u, m)'
        BY <1>1, <2>2, <2>3, <3>1, <3>4 DEF Once, Reads, Hands, Unlinks
      <4>2. \A v \in Moderator : Hands(v, m)' => v = u
        BY <2>3, <3>1, <4>1 DEF Once, Hands
      <4>3. \A v \in Moderator : ~Reads(v, m)'
        BY <2>2, <2>3, <4>2 DEF Hands, Reads
      <4>4. Decisions(m)' <= 1
        <5>1. passed[m] \in Nat /\ passed'[m] \in Nat /\ passed'[m] <= passed[m] + 1
          BY SentCounts, HandlerState
        <5> QED  BY <1>1, <4>1, <5>1 DEF Decisions
      <4> QED  BY <4>1, <4>2, <4>3, <4>4 DEF Once
    <3> QED  BY <3>3, <3>4
  <2> QED  BY <1>3, <1>4, <2>1, <2>2, <2>5, <2>7, <2>8
<1>5. CASE /\ web' = [web EXCEPT ![u].pc = After(u), ![u].alert = TRUE]
           /\ Fault \/ (NoFault /\ UNCHANGED <<passed, strayed>>)
  <2> DEFINE w == [web[u] EXCEPT !.pc = After(u), !.alert = TRUE]
  <2>1. web' = [web EXCEPT ![u] = w]
    BY <1>5, HandlerState
  <2>2. /\ w \in PostState /\ w.pc \notin {"act", "unlink"}
        /\ GoodPost(w, saver, deleted, passed, strayed) /\ Carried(w, spool, torn)
    BY <1>1, AlertedGood
  <2> HIDE DEF w
  <2>3. GoodPost(w, saver, deleted, passed', strayed')
    BY <2>2, PostStays, SentCounts, HandlerState
  <2>4. OnceInv'
    <3>1. CASE Fault
      BY <3>1, Faulted DEF OnceInv
    <3>2. CASE NoFault /\ UNCHANGED <<passed, strayed>>
      <4>1. InQueue' = InQueue /\ web'[u] = w /\ \A v \in Moderator \ {u} : web'[v] = web[v]
        BY <1>1, <2>1, HandlerState DEF InQueue
      <4>2. faults <= faults' /\ faults \in Nat
        BY <3>2, Faulted, Typed
      <4> QED  BY <1>1, <2>2, <3>2, <4>1, <4>2, SameHands, OnceStays DEF ModInv
    <3> QED  BY <1>5, <3>1, <3>2
  <2> QED  BY <1>3, <1>5, <2>1, <2>2, <2>3, <2>4
<1> QED  BY <1>4, <1>5 DEF Forward
-----------------------------------------------------------------------------
(* Save                                                                    *)

(* A step of Save concerns one file and no handler.                        *)
LEMMA SaverKeeps ==
    ASSUME TypeOK, ModInv, NEW n \in File,
           UNCHANGED <<tables, form, web, passed, strayed, dismissed, torn, raced, deleted>>,
           \A m \in File \ {n} : saver'[m] = saver[m],
           saver[n].st \in Offered => saver'[n].st \in Offered /\ saver'[n].l = saver[n].l,
           SaversOK', FilesOK', Accounted', OnceInv', CarriedInv'
    PROVE  ModInv'
<1>1. KeysUnique'
  BY KnownsUnique DEF ModInv, tables
<1>2. \A m \in File : saver[m].st \in Offered => saver'[m].st \in Offered /\ saver'[m].l = saver[m].l
  OBVIOUS
<1>3. FormsOK'
  <2>1. \A u \in Moderator : form[u].names \subseteq File
    BY Typed DEF FormState
  <2> QED  BY <1>2, <2>1 DEF ModInv, FormsOK, SentTo
<1>4. PostsOK'
  <2>1. passed \in [File -> Nat] /\ \A m \in File : passed[m] <= passed[m]
    BY Typed
  <2>2. \A w : GoodPost(w, saver, deleted, passed, strayed) => GoodPost(w, saver', deleted, passed, strayed)
    BY <1>2, <2>1, PostStays
  <2> QED  BY <2>2 DEF ModInv, PostsOK
<1>5. QueueBelongsToList'
  <2>1. \A m \in strayed : m \in File /\ saver[m].st \in Offered
    BY Typed DEF ModInv, SaversOK
  <2> QED  BY <1>2, <2>1 DEF ModInv, QueueBelongsToList
<1> QED  BY <1>1, <1>3, <1>4, <1>5 DEF ModInv

LEMMA LoadListKeeps ==
    ASSUME TypeOK, ModInv, NEW n \in File, NEW a, LoadList(n, a)
    PROVE  TypeOK' /\ ModInv'
<1>1. PICK l \in GetList(a) : saver' = [saver EXCEPT ![n] = [st |-> "loaded", l |-> l]]
  BY DEF LoadList
<1>2. /\ saver[n].st = "new" /\ UNCHANGED <<tables, list, member, known, spool, form, web>>
      /\ UNCHANGED <<passed, strayed, dismissed, saved, torn, raced, deleted, faults, adminOps, limit>>
  BY DEF LoadList, tables, history, bounds
<1>3. l \in ListRow /\ Live(l)
  BY DEF GetList, TypeOK, RepoTypeOK, Live
<1>4. saver'[n].st = "loaded" /\ saver'[n].l = l /\ \A m \in File \ {n} : saver'[m] = saver[m]
  BY <1>1, Typed
<1>5. TypeOK'
  <2>1. saver' \in [File -> SaverState]
    BY <1>1, <1>3, Typed DEF SaverState
  <2> QED  BY <1>2, <2>1 DEF TypeOK, RepoTypeOK, SaverState
<1>6. SaversOK'
  <2>1. \A k : Live(k)' = Live(k)
    BY <1>2 DEF Live
  <2> QED  BY <1>2, <1>3, <1>4, <2>1 DEF ModInv, SaversOK, Offered
<1>7. FilesOK'
  <2>1. \A f \in spool : f.name \in File /\ f.name # n
    BY <1>2 DEF TypeOK, ModInv, FilesOK, Offered
  <2> QED  BY <1>2, <1>4, <2>1 DEF ModInv, FilesOK
<1>8. Accounted'
  BY <1>2, <1>4 DEF ModInv, Accounted, InQueue
<1>9. OnceInv' /\ CarriedInv'
  BY <1>2 DEF ModInv, OnceInv, Once, Hands, Reads, Unlinks, Decisions, InQueue, CarriedInv
<1>10. ModInv'
  BY <1>2, <1>4, <1>6, <1>7, <1>8, <1>9, SaverKeeps DEF Offered
<1> QED  BY <1>5, <1>10

(* A file that appears has a new name: nobody can have decided about it.   *)
LEMMA TempFileKeeps ==
    ASSUME TypeOK, ModInv, NEW n \in File, TempFile(n)
    PROVE  TypeOK' /\ ModInv'
<1> DEFINE f == [name |-> n, folder |-> StorageFolder(saver[n].l), whole |-> FALSE]
<1>1. /\ saver[n].st = "loaded" /\ UNCHANGED <<tables, list, member, known, form, web>>
      /\ UNCHANGED <<passed, strayed, dismissed, saved, torn, raced, deleted, adminOps>>
      /\ Fault \/ NoFault
  BY DEF TempFile, tables, history
<1>2. \/ spool' = spool \cup {f} /\ saver' = [saver EXCEPT ![n].st = "writing"]
      \/ spool' = spool /\ saver' = [saver EXCEPT ![n].st = "refused"]
  BY DEF TempFile
<1>3. /\ saver'[n].l = saver[n].l /\ \A m \in File \ {n} : saver'[m] = saver[m]
      /\ \/ saver'[n].st = "writing" /\ spool' = spool \cup {f}
         \/ saver'[n].st = "refused" /\ spool' = spool
  BY <1>2, Typed DEF SaverState
<1>4. /\ saver[n].l \in ListRow /\ n \notin saved /\ passed[n] = 0
      /\ n \notin dismissed \cup strayed
  BY <1>1 DEF ModInv, SaversOK, Offered
<1>5. /\ f.name = n /\ f.folder = saver[n].l.id /\ f.whole = FALSE
      /\ f \in [name: File, folder: Id, whole: BOOLEAN]
  BY <1>4 DEF StorageFolder, ListRow
<1>6. \A g \in spool : g.name \in File /\ g.name # n
  BY <1>1 DEF TypeOK, ModInv, FilesOK, Offered
<1> HIDE DEF f
<1>7. faults <= faults' /\ limit' = limit /\ faults' \in 0..limit.faults /\ faults \in Nat
  BY <1>1, Faulted, Typed
<1>8. TypeOK'
  <2>1. saver' \in [File -> SaverState]
    BY <1>2, Typed DEF SaverState, Offered
  <2>2. spool' \subseteq [name: File, folder: Id, whole: BOOLEAN]
    BY <1>3, <1>5 DEF TypeOK
  <2> QED  BY <1>1, <1>7, <2>1, <2>2 DEF TypeOK, RepoTypeOK, SaverState
<1>9. SaversOK'
  <2>1. \A k : Live(k)' = Live(k)
    BY <1>1 DEF Live
  <2> QED  BY <1>1, <1>3, <1>4, <2>1 DEF ModInv, SaversOK, Offered
<1>10. FilesOK'
  <2>1. \A g \in spool : saver'[g.name] = saver[g.name]
    BY <1>3, <1>6
  <2> QED  BY <1>3, <1>5, <2>1 DEF ModInv, FilesOK, Offered
<1>11. Accounted'
  BY <1>1, <1>3, <1>5 DEF ModInv, Accounted, InQueue
<1>12. OnceInv'
  <2> SUFFICES ASSUME faults' = 0, NEW m \in File, m \notin raced  PROVE Once(m)'
    BY <1>1 DEF OnceInv
  <2>1. Once(m)
    BY <1>7 DEF ModInv, OnceInv
  <2>2. /\ Decisions(m)' = Decisions(m)
        /\ \A u \in Moderator : /\ Hands(u, m)' <=> Hands(u, m)
                                /\ Reads(u, m)' <=> Reads(u, m)
                                /\ Unlinks(u, m)' <=> Unlinks(u, m)
    BY <1>1 DEF Decisions, Hands, Reads, Unlinks
  <2>3. CASE m # n
    <3>1. m \in InQueue' => m \in InQueue
      BY <1>3, <1>5, <2>3 DEF InQueue
    <3> QED  BY <2>1, <2>2, <3>1 DEF Once
  <2>4. CASE m = n
    <3>1. Decisions(m) = 0
      BY <1>4, <2>4 DEF Decisions
    <3> QED  BY <2>1, <2>2, <3>1 DEF Once
  <2> QED  BY <2>3, <2>4
<1>13. CarriedInv'
  <2> SUFFICES ASSUME faults' = 0, NEW u \in Moderator  PROVE Carried(web[u], spool', torn)
    BY <1>1 DEF CarriedInv
  <2>1. Carried(web[u], spool, torn)
    BY <1>7 DEF ModInv, CarriedInv
  <2>2. web[u].dec[n] = "postpone"
    BY <1>1, HandlerState DEF GoodPost, SentTo, Offered
  <2>3. \A m : m # n /\ NotIn(spool, web[u].l, m) => NotIn(spool', web[u].l, m)
    BY <1>3, <1>5 DEF NotIn
  <2> QED  BY <2>1, <2>2, <2>3 DEF Carried
<1>14. ModInv'
  <2>1. saver[n].st \notin Offered
    BY <1>1 DEF Offered
  <2> QED  BY <1>1, <1>3, <1>9, <1>10, <1>11, <1>12, <1>13, <2>1, SaverKeeps
<1> QED  BY <1>8, <1>14

(* Writing goes on when moderators have removed the file meanwhile.        *)
LEMMA WriteKeeps ==
    ASSUME TypeOK, ModInv, NEW n \in File, Write(n)
    PROVE  TypeOK' /\ ModInv'
<1> DEFINE whole(f) == IF f.name = n THEN [f EXCEPT !.whole = TRUE] ELSE f
<1>1. /\ saver[n].st = "writing" /\ UNCHANGED <<tables, list, member, known, form, web>>
      /\ UNCHANGED <<passed, strayed, dismissed, torn, raced, deleted, adminOps>>
      /\ Fault \/ NoFault
  BY DEF Write, tables
<1>2. \/ /\ spool' = {whole(f) : f \in spool} /\ saved' = saved \cup {n}
         /\ saver' = [saver EXCEPT ![n].st = "saved"]
      \/ /\ spool' = Without(saver[n].l, n) /\ UNCHANGED saved /\ Fault
         /\ saver' = [saver EXCEPT ![n].st = "failed"]
  BY DEF Write
<1>3. /\ saver'[n].l = saver[n].l /\ \A m \in File \ {n} : saver'[m] = saver[m]
      /\ saver'[n].st \in {"saved", "failed"} /\ saver' \in [File -> SaverState]
  BY <1>2, Typed DEF SaverState, Offered
<1>4. \A f \in spool :
         /\ f.name \in File /\ f.whole \in BOOLEAN
         /\ f.name # n => whole(f) = f
         /\ whole(f).name = f.name /\ whole(f).folder = f.folder
         /\ f.name = n => whole(f).whole
         /\ whole(f) \in [name: File, folder: Id, whole: BOOLEAN]
  BY DEF TypeOK
<1> HIDE DEF whole
<1>5. faults <= faults' /\ limit' = limit /\ faults' \in 0..limit.faults /\ faults \in Nat
  BY <1>1, Faulted, Typed
<1>6. saver[n].l \in ListRow
  BY <1>1 DEF ModInv, SaversOK
<1>7. CASE /\ spool' = {whole(f) : f \in spool} /\ saved' = saved \cup {n}
           /\ saver'[n].st = "saved"
  <2>1. TypeOK'
    <3>1. spool' \subseteq [name: File, folder: Id, whole: BOOLEAN]
      BY <1>4, <1>7
    <3> QED  BY <1>1, <1>3, <1>5, <1>7, <3>1 DEF TypeOK, RepoTypeOK, SaverState
  <2>2. SaversOK'
    <3>1. \A k : Live(k)' = Live(k)
      BY <1>1 DEF Live
    <3> QED  BY <1>1, <1>3, <1>6, <1>7, <3>1 DEF ModInv, SaversOK, Offered
  <2>3. FilesOK'
    <3> SUFFICES ASSUME NEW f \in spool
                 PROVE  /\ saver'[whole(f).name].st \in Offered
                        /\ whole(f).folder = saver'[whole(f).name].l.id
                        /\ whole(f).whole <=> saver'[whole(f).name].st = "saved"
      BY <1>7 DEF FilesOK
    <3>1. CASE f.name = n
      BY <1>3, <1>4, <1>7, <3>1 DEF ModInv, FilesOK, Offered
    <3>2. CASE f.name # n
      BY <1>3, <1>4, <3>2 DEF ModInv, FilesOK
    <3> QED  BY <3>1, <3>2
  <2>4. InQueue' = InQueue
    BY <1>4, <1>7 DEF InQueue
  <2>5. Accounted'
    BY <1>1, <1>3, <2>4 DEF ModInv, Accounted
  <2>6. OnceInv'
    BY <1>1, <1>5, <2>4 DEF ModInv, OnceInv, Once, Hands, Reads, Unlinks, Decisions
  <2>7. CarriedInv'
    <3>1. \A l, m : NotIn(spool, l, m) => NotIn(spool', l, m)
      BY <1>4, <1>7 DEF NotIn
    <3>2. faults' = 0 => \A u \in Moderator : Carried(web[u], spool', torn)
      BY <1>5, <3>1 DEF ModInv, CarriedInv, Carried
    <3> QED  BY <1>1, <3>2 DEF CarriedInv
  <2>8. ModInv'
    BY <1>1, <1>3, <1>7, <2>2, <2>3, <2>5, <2>6, <2>7, SaverKeeps DEF Offered
  <2> QED  BY <2>1, <2>8
<1>8. CASE /\ spool' = Without(saver[n].l, n) /\ UNCHANGED saved /\ Fault
           /\ saver'[n].st = "failed"
  <2>1. faults' > 0 /\ spool' \subseteq spool
    BY <1>8, Faulted DEF Without
  <2>2. TypeOK'
    BY <1>1, <1>3, <1>5, <1>8, <2>1 DEF TypeOK, RepoTypeOK, SaverState
  <2>3. SaversOK'
    <3>1. \A k : Live(k)' = Live(k)
      BY <1>1 DEF Live
    <3> QED  BY <1>1, <1>3, <1>6, <1>8, <3>1 DEF ModInv, SaversOK, Offered
  <2>4. \A f \in spool : f.name = n => f \notin spool'
    BY <1>8 DEF Without, In, StorageFolder, ModInv, FilesOK
  <2>5. FilesOK'
    BY <1>3, <1>4, <2>1, <2>4 DEF ModInv, FilesOK
  <2>6. Accounted'
    <3> SUFFICES ASSUME NEW m \in File, saver'[m].st \in {"writing", "saved"}
                 PROVE  m \in InQueue' \/ passed[m] > 0 \/ m \in dismissed \/ m \in strayed
      BY <1>1 DEF Accounted
    <3>1. m # n
      BY <1>8
    <3>2. m \in InQueue => m \in InQueue'
      BY <1>8, <3>1 DEF InQueue, Without, In
    <3> QED  BY <1>3, <3>1, <3>2 DEF ModInv, Accounted
  <2>7. OnceInv' /\ CarriedInv'
    BY <2>1 DEF OnceInv, CarriedInv
  <2>8. ModInv'
    BY <1>1, <1>3, <1>8, <2>3, <2>5, <2>6, <2>7, SaverKeeps DEF Offered
  <2> QED  BY <2>2, <2>8
<1> QED  BY <1>2, <1>3, <1>7, <1>8, Typed DEF SaverState

-----------------------------------------------------------------------------
(* Forms, crashes, administrators                                          *)

(* A file in the folder of a list was sent to that list, as the list is    *)
(* there: otherwise its own list has been deleted.                         *)
LEMMA ShowKeeps ==
    ASSUME TypeOK, ModInv, NEW u \in Moderator, NEW a \in ListAddr, Show(u, a)
    PROVE  TypeOK' /\ ModInv'
<1>1. PICK l \in GetList(a) :
         form' = [form EXCEPT ![u] =
            [addr |-> a, names |-> {f.name : f \in {g \in spool : g.folder = StorageFolder(l)}}]]
  BY DEF Show
<1> DEFINE names == {f.name : f \in {g \in spool : g.folder = StorageFolder(l)}}
<1>2. /\ UNCHANGED <<tables, list, member, known, saver, spool, web, passed, strayed>>
      /\ UNCHANGED <<dismissed, saved, torn, raced, deleted, faults, adminOps, limit>>
  BY DEF Show, tables, files, history, bounds
<1>3. l \in list /\ l.addr = a
  BY DEF GetList
<1>4. \A n \in names : n \in File /\ SentTo(saver, deleted, n, a)
  <2> SUFFICES ASSUME NEW f \in spool, f.folder = l.id
               PROVE  f.name \in File /\ SentTo(saver, deleted, f.name, a)
    BY DEF StorageFolder
  <2>1. f.name \in File /\ saver[f.name].st \in Offered /\ saver[f.name].l.id = l.id
    BY DEF TypeOK, ModInv, FilesOK
  <2>2. Live(saver[f.name].l)
    BY <2>1 DEF ModInv, SaversOK, Offered
  <2>3. saver[f.name].l.addr \in deleted \/ saver[f.name].l.addr = l.addr
    BY <1>3, <2>1, <2>2 DEF Live, ModInv, KeysUnique, UniqueIn
  <2> QED  BY <1>3, <2>1, <2>3 DEF SentTo
<1>5. /\ form'[u].addr = a /\ form'[u].names = names
      /\ \A v \in Moderator \ {u} : form'[v] = form[v]
  BY <1>1, Typed
<1>6. form' \in [Moderator -> FormState]
  BY <1>1, <1>4, Typed DEF FormState
<1> HIDE DEF names
<1>7. TypeOK'
  BY <1>2, <1>6 DEF TypeOK, RepoTypeOK, FormState
<1>8. FormsOK'
  BY <1>2, <1>4, <1>5 DEF ModInv, FormsOK
<1>9. ModInv'
  <2>1. KeysUnique' /\ QueueBelongsToList'
    BY <1>2 DEF ModInv, KeysUnique, UniqueIn, QueueBelongsToList
  <2>2. SaversOK' /\ FilesOK'
    BY <1>2 DEF ModInv, SaversOK, FilesOK, Live
  <2>3. PostsOK' /\ CarriedInv'
    BY <1>2 DEF ModInv, PostsOK, CarriedInv
  <2>4. Accounted'
    BY <1>2 DEF ModInv, Accounted, InQueue
  <2>5. OnceInv'
    BY <1>2 DEF ModInv, OnceInv, Once, Hands, Reads, Unlinks, Decisions, InQueue
  <2> QED  BY <1>8, <2>1, <2>2, <2>3, <2>4, <2>5 DEF ModInv
<1> QED  BY <1>7, <1>9

LEMMA CrashKeeps ==
    ASSUME TypeOK, ModInv, Crash
    PROVE  TypeOK' /\ ModInv'
<1>1. /\ UNCHANGED <<tables, list, member, known, spool, form, passed, strayed, dismissed>>
      /\ UNCHANGED <<saved, torn, raced, deleted, adminOps>>
      /\ \A u \in Moderator : web'[u] = NoPost
  BY DEF Crash, tables, history
<1>2. faults' > 0 /\ limit' = limit /\ faults' \in 0..limit.faults
  BY Faulted DEF Crash
<1>3. \A n \in File :
         /\ saver'[n].l = saver[n].l /\ saver'[n].st \in {"new", "loaded", "refused"} \cup Offered
         /\ saver[n].st = "new" <=> saver'[n].st = "new"
         /\ saver[n].st = "saved" <=> saver'[n].st = "saved"
         /\ saver[n].st \in Offered <=> saver'[n].st \in Offered
         /\ saver'[n].st # "writing"
  <2> SUFFICES ASSUME NEW n \in File
               PROVE  /\ saver'[n].l = saver[n].l
                      /\ saver'[n].st = CASE saver[n].st = "loaded"  -> "refused"
                                          [] saver[n].st = "writing" -> "failed"
                                          [] OTHER                   -> saver[n].st
                      /\ saver[n].st \in {"new", "loaded", "refused"} \cup Offered
    BY DEF Offered
  <2>1. saver[n] \in SaverState
    BY Typed
  <2> QED  BY <2>1 DEF Crash, SaverState
<1>4. saver' \in [File -> SaverState]
  <2> SUFFICES ASSUME NEW n \in File PROVE saver'[n] \in SaverState
    BY DEF Crash
  <2>1. saver[n] \in SaverState
    BY Typed
  <2>2. \E st : saver'[n] = [saver[n] EXCEPT !.st = st]
    BY DEF Crash
  <2> QED  BY <1>3, <2>1, <2>2 DEF SaverState
<1>5. web' \in [Moderator -> PostState]
  BY NoPostTyped DEF Crash
<1>6. TypeOK'
  BY <1>1, <1>2, <1>4, <1>5 DEF TypeOK, RepoTypeOK, SaverState, PostState
<1>7. KeysUnique' /\ QueueBelongsToList'
  <2>1. strayed \subseteq File
    BY Typed
  <2> QED  BY <1>1, <1>3, <2>1 DEF ModInv, KeysUnique, UniqueIn, QueueBelongsToList
<1>8. SaversOK'
  <2>1. \A k : Live(k)' = Live(k)
    BY <1>1 DEF Live
  <2> QED  BY <1>1, <1>3, <2>1 DEF ModInv, SaversOK
<1>9. FilesOK'
  <2>1. \A f \in spool : f.name \in File
    BY DEF TypeOK
  <2> QED  BY <1>1, <1>3, <2>1 DEF ModInv, FilesOK
<1>10. FormsOK'
  <2>1. \A u \in Moderator : form[u].names \subseteq File
    BY Typed DEF FormState
  <2> QED  BY <1>1, <1>3, <2>1 DEF ModInv, FormsOK, SentTo
<1>11. PostsOK'
  BY <1>1 DEF PostsOK, GoodPost, NoPost, InHand
<1>12. Accounted'
  BY <1>1, <1>3 DEF ModInv, Accounted, InQueue, Offered
<1>13. OnceInv' /\ CarriedInv'
  BY <1>2 DEF OnceInv, CarriedInv
<1> QED  BY <1>6, <1>7, <1>8, <1>9, <1>10, <1>11, <1>12, <1>13 DEF ModInv

(* What an administrator does to the tables.                               *)
LEMMA AdminActs ==
    ASSUME TypeOK, ModInv, Admin
    PROVE  /\ RepoTypeOK' /\ KeysUnique' /\ deleted \subseteq deleted' /\ deleted' \subseteq ListAddr
           /\ \A r \in list : r.addr \in deleted' \/ \E n \in list' : n.id = r.id /\ n.addr = r.addr
<1> DEFINE Fine == /\ RepoTypeOK' /\ KeysUnique'
                   /\ \A r \in list : \/ r.addr \in deleted'
                                      \/ \E n \in list' : n.id = r.id /\ n.addr = r.addr
<1>1. RepoTypeOK /\ KeysUnique /\ deleted \subseteq ListAddr /\ limit.who \subseteq Address
  BY ModeratorAssumption, Typed DEF TypeOK, ModInv, Address
<1>2. ASSUME NEW a \in ListAddr, Create(a)  PROVE Fine
  <2>1. list \subseteq list'
    BY <1>2 DEF Create
  <2> QED  BY <1>1, <1>2, <2>1, CreateUnique, ListsTyped
<1>3. ASSUME NEW l \in list, NEW set \in SettingsChoice, Update(l, set)  PROVE Fine
  <2>1. set \in Settings
    BY ChoiceAssumption
  <2> QED  BY <1>1, <1>3, <2>1, UpdateUnique, UpdatedRow, ListsTyped
<1>4. ASSUME NEW l \in list, NEW addrs \in SUBSET Address,
             AddMembers(l, addrs, AllRoles) \/ RemoveMembers(l, addrs)
      PROVE  Fine
  <2>1. l.id \in Id /\ AllRoles \in Role
    BY <1>1 DEF RepoTypeOK, ListRow, AllRoles, Role
  <2>2. RepoTypeOK' /\ UNCHANGED list
    BY <1>1, <1>4, <2>1, MembersTyped
  <2> QED  BY <1>1, <1>4, <2>2, AddMembersUnique, RemoveMembersUnique
<1>5. ASSUME NEW l \in list, Delete(l), deleted' = deleted \cup {l.addr}  PROVE Fine
  BY <1>1, <1>5, DeleteUnique, DeletedRow, ListsTyped
<1>6. deleted \subseteq deleted' /\ deleted' \subseteq ListAddr
  BY <1>1 DEF Admin, RepoTypeOK, ListRow
<1>7. Fine
  <2> HIDE DEF Fine
  <2>1. \A x \in limit.who : {x} \in SUBSET Address
    BY <1>1
  <2> QED  BY <1>1, <1>2, <1>3, <1>4, <1>5, <2>1 DEF Admin
<1> QED  BY <1>6, <1>7

LEMMA AdminKeeps ==
    ASSUME TypeOK, ModInv, Admin
    PROVE  TypeOK' /\ ModInv'
<1>1. /\ UNCHANGED <<saver, spool, form, web, passed, strayed, dismissed, saved, torn, raced>>
      /\ UNCHANGED <<faults, limit>> /\ adminOps < limit.adminOps /\ adminOps' = adminOps + 1
  BY DEF Admin, files
<1>2. TypeOK'
  BY <1>1, AdminActs, Typed DEF TypeOK
<1>3. SaversOK'
  <2>1. \A k : Live(k) => Live(k)'
    BY AdminActs DEF Live
  <2> QED  BY <1>1, <2>1 DEF ModInv, SaversOK
<1>4. FilesOK' /\ FormsOK' /\ QueueBelongsToList'
  BY <1>1, AdminActs DEF ModInv, FilesOK, FormsOK, SentTo, QueueBelongsToList
<1>5. PostsOK'
  <2>1. passed \in [File -> Nat] /\ \A m \in File : passed[m] <= passed[m]
    BY Typed
  <2>2. \A w : GoodPost(w, saver, deleted, passed, strayed) => GoodPost(w, saver, deleted', passed, strayed)
    BY <2>1, AdminActs, PostStays
  <2> QED  BY <1>1, <2>2 DEF ModInv, PostsOK
<1>6. Accounted' /\ CarriedInv'
  BY <1>1 DEF ModInv, Accounted, InQueue, CarriedInv
<1>7. OnceInv'
  BY <1>1 DEF ModInv, OnceInv, Once, Hands, Reads, Unlinks, Decisions, InQueue
<1> QED  BY <1>2, <1>3, <1>4, <1>5, <1>6, <1>7, AdminActs DEF ModInv

LEMMA StutterKeeps ==
    ASSUME TypeOK, ModInv, UNCHANGED vars
    PROVE  TypeOK' /\ ModInv'
<1>1. /\ UNCHANGED <<list, member, known, saver, spool, form, web, passed, strayed, dismissed>>
      /\ UNCHANGED <<saved, torn, raced, deleted, faults, adminOps, limit>>
  BY DEF vars, tables, files, history, bounds
<1>2. TypeOK' /\ KeysUnique' /\ QueueBelongsToList'
  BY <1>1 DEF TypeOK, RepoTypeOK, ModInv, KeysUnique, UniqueIn, QueueBelongsToList
<1>3. SaversOK' /\ FilesOK' /\ FormsOK' /\ PostsOK' /\ CarriedInv'
  BY <1>1 DEF ModInv, SaversOK, FilesOK, FormsOK, PostsOK, CarriedInv, Live
<1>4. Accounted' /\ OnceInv'
  BY <1>1 DEF ModInv, Accounted, OnceInv, Once, Hands, Reads, Unlinks, Decisions, InQueue
<1> QED  BY <1>2, <1>3, <1>4 DEF ModInv

LEMMA InitMod == Init => TypeOK /\ ModInv
<1> SUFFICES ASSUME Init PROVE TypeOK /\ ModInv
  OBVIOUS
<1>1. limit \in [faults: Nat, adminOps: Nat, who: SUBSET Moderator]
  BY LimitsAssumption DEF Init
<1>2. TypeOK
  <2>1. saver \in [File -> SaverState] /\ form \in [Moderator -> FormState]
    BY DEF Init, NoSave, SaverState, FormState
  <2>2. web \in [Moderator -> PostState]
    BY NoPostTyped DEF Init
  <2>3. RepoTypeOK
    BY InitAssumption DEF Init, RepoTypeOK
  <2> QED  BY <1>1, <2>1, <2>2, <2>3 DEF Init, TypeOK, SaverState, FormState, PostState
<1>3. KeysUnique
  BY InitKeysAssumption DEF Init, KeysUnique
<1>4. SaversOK /\ FilesOK /\ FormsOK /\ Accounted /\ QueueBelongsToList
  BY DEF Init, SaversOK, FilesOK, FormsOK, Accounted, QueueBelongsToList, NoSave, Offered
<1>5. PostsOK /\ CarriedInv
  BY DEF Init, PostsOK, GoodPost, CarriedInv, Carried, NoPost, InHand
<1>6. OnceInv
  BY DEF Init, OnceInv, Once, Hands, Reads, Decisions, NoPost, InQueue
<1> QED  BY <1>2, <1>3, <1>4, <1>5, <1>6 DEF ModInv

LEMMA NextKeeps ==
    ASSUME TypeOK, ModInv, [Next]_vars
    PROVE  TypeOK' /\ ModInv'
<1>1. limit.who \subseteq Moderator
  BY Typed
<1>2. ASSUME NEW n \in File, (\E a \in ListAddr : LoadList(n, a)) \/ TempFile(n) \/ Write(n)
      PROVE  TypeOK' /\ ModInv'
  BY <1>2, LoadListKeeps, TempFileKeeps, WriteKeeps
<1>3. ASSUME NEW u \in limit.who, NEW a \in ListAddr, Show(u, a)  PROVE TypeOK' /\ ModInv'
  BY <1>1, <1>3, ShowKeeps
<1>4. ASSUME NEW u \in limit.who, NEW n \in File, Read(u, n)  PROVE TypeOK' /\ ModInv'
  BY <1>1, <1>4, ReadKeeps
<1>5. ASSUME NEW u \in limit.who, Post(u) \/ Authorize(u) \/ Skip(u) \/ Redirect(u) \/ Return(u)
      PROVE  TypeOK' /\ ModInv'
  BY <1>1, <1>5, PostKeeps, AuthorizeKeeps, SkipKeeps, RedirectKeeps, ReturnKeeps
<1>6. ASSUME NEW u \in limit.who, Remove(u) \/ Forward(u) \/ Unlink(u) \/ Known(u)
      PROVE  TypeOK' /\ ModInv'
  BY <1>1, <1>6, RemoveKeeps, ForwardKeeps, UnlinkKeeps, KnownKeeps
<1> QED  BY <1>2, <1>3, <1>4, <1>5, <1>6, CrashKeeps, AdminKeeps, StutterKeeps DEF Next

LEMMA ModInvariant == Spec => [](TypeOK /\ ModInv)
<1>1. TypeOK /\ ModInv /\ [Next]_vars => (TypeOK /\ ModInv)'
  BY NextKeeps
<1> QED  BY <1>1, InitMod, PTL DEF Spec
-----------------------------------------------------------------------------
(* What follows                                                            *)

LEMMA ModSafe ==
    ASSUME TypeOK, ModInv
    PROVE  NoMailLost /\ DecidedOnce /\ DecisionsCarriedOut
<1>1. NoMailLost
  <2> SUFFICES ASSUME NEW n \in saved
               PROVE  \/ \E f \in spool : f.name = n
                      \/ passed[n] > 0 \/ n \in dismissed
                      \/ n \in strayed /\ saver[n].l.addr \in deleted
    BY DEF NoMailLost
  <2>1. n \in File /\ saver[n].st = "saved"
    BY Typed DEF ModInv, SaversOK
  <2> QED  BY <2>1 DEF ModInv, Accounted, InQueue, QueueBelongsToList
<1>2. DecidedOnce
  <2> SUFFICES ASSUME NEW n \in File, Decisions(n) > 1, n \notin raced, faults = 0  PROVE FALSE
    BY Typed DEF DecidedOnce, Decisions
  <2>1. Decisions(n) \in Nat /\ Decisions(n) <= 1
    BY Typed DEF Decisions, ModInv, OnceInv, Once
  <2> QED  BY <2>1
<1>3. DecisionsCarriedOut
  <2> SUFFICES ASSUME NEW u \in Moderator, web[u].pc = "done", ~web[u].alert, faults = 0,
                      NEW n \in File, web[u].dec[n] # "postpone", n \notin torn
               PROVE  In(web[u].l, n) = {}
    BY DEF DecisionsCarriedOut
  <2>1. Carried(web[u], spool, torn) /\ web[u].todo = {}
    BY HandlerState DEF GoodPost
  <2>2. NotIn(spool, web[u].l, n)
    BY <2>1 DEF Carried
  <2> QED  BY <2>2 DEF NotIn, In, StorageFolder
<1> QED  BY <1>1, <1>2, <1>3

(* Every variable keeps its type; in particular failing calls and changes  *)
(* stay within the bounds of the behaviour.                                *)
THEOREM ModerationTyped == Spec => []TypeOK
  BY ModInvariant, PTL

(* A mail that Save has reported as kept waits in the queue until a        *)
(* moderator forwards or dismisses it, however handlers interleave, fail   *)
(* and die; only a list that has got the id of a deleted one may forward   *)
(* it instead.                                                             *)
THEOREM KeptMailsStay == Spec => []NoMailLost
  BY ModInvariant, ModSafe, PTL

(* Without faults a mail is forwarded or dismissed once, unless two POST   *)
(* handlers had read it before either was done with it: nothing else lets  *)
(* a mail be forwarded twice.                                              *)
THEOREM OneDecision == Spec => []DecidedOnce
  BY ModInvariant, ModSafe, PTL

(* A mail reaches the receivers of another list than its own only if its   *)
(* own list has been deleted, even with forms that are out of date and     *)
(* addresses and ids that are given again.                                 *)
THEOREM QueueOfOneList == Spec => []QueueBelongsToList
  BY ModInvariant, PTL DEF ModInv

(* A moderator who is shown no error finds everything that she decided     *)
(* about, and that could be read, out of the queue.                        *)
THEOREM DecisionsHold == Spec => []DecisionsCarriedOut
  BY ModInvariant, ModSafe, PTL

-----------------------------------------------------------------------------
(* The promise of the queue                                                *)

Off == {n \in File : saver[n].st \in Offered}
Out == [n \in File |-> passed[n] + IF n \in strayed THEN 1 ELSE 0]

LEMMA OutTyped == ASSUME TypeOK PROVE \A n \in File : Out[n] > 0 <=> passed[n] > 0 \/ n \in strayed
  BY Typed DEF Out

LEMMA SameQueue ==
    ASSUME UNCHANGED <<InQueue, Off, saved, Out, dismissed>>
    PROVE  UNCHANGED Queue!vars
  BY DEF Queue!vars, InQueue, Off, Out

(* Nothing that the queue promises about has changed.                      *)
LEMMA SameFiles ==
    ASSUME UNCHANGED <<InQueue, Off, saved, passed, strayed, dismissed>>
    PROVE  UNCHANGED Queue!vars
  BY SameQueue DEF Out

LEMMA SaverQueues ==
    ASSUME TypeOK, ModInv, NEW n \in File,
           (\E a \in ListAddr : LoadList(n, a)) \/ TempFile(n) \/ Write(n)
    PROVE  [Queue!Next]_Queue!vars
<1>1. saver \in [File -> SaverState] /\ UNCHANGED <<passed, strayed, dismissed, Out>>
  BY Typed DEF LoadList, TempFile, Write, history, Out
<1>2. ASSUME NEW a \in ListAddr, LoadList(n, a)  PROVE UNCHANGED Queue!vars
  <2>1. Off' = Off
    BY <1>1, <1>2 DEF LoadList, Off, Offered
  <2> QED  BY <1>1, <1>2, <2>1, SameFiles DEF LoadList, history, InQueue
<1>3. CASE TempFile(n)
  <2>1. CASE saver' = [saver EXCEPT ![n].st = "refused"] /\ UNCHANGED spool
    <3>1. Off' = Off
      BY <1>1, <1>3, <2>1 DEF TempFile, Off, Offered, SaverState
    <3> QED  BY <1>1, <1>3, <2>1, <3>1, SameFiles DEF TempFile, InQueue, history
  <2>2. CASE /\ saver' = [saver EXCEPT ![n].st = "writing"]
             /\ spool' = spool \cup {[name |-> n, folder |-> StorageFolder(saver[n].l), whole |-> FALSE]}
    <3>1. Off' = Off \cup {n} /\ n \notin Off
      BY <1>1, <1>3, <2>2 DEF TempFile, Off, Offered, SaverState
    <3>2. InQueue' = InQueue \cup {n}
      <4> DEFINE f == [name |-> n, folder |-> StorageFolder(saver[n].l), whole |-> FALSE]
      <4>1. f.name = n /\ spool' = spool \cup {f}
        BY <2>2
      <4> HIDE DEF f
      <4> QED  BY <4>1 DEF InQueue
    <3>3. UNCHANGED saved
      BY <1>3 DEF TempFile, history
    <3>4. Queue!Offer(n)
      BY <1>1, <3>1, <3>2, <3>3 DEF Queue!Offer, InQueue, Off, Out
    <3> QED  BY <3>4 DEF Queue!Next
  <2> QED  BY <1>3, <2>1, <2>2 DEF TempFile
<1>4. CASE Write(n)
  <2>1. saver[n].st = "writing"
    BY <1>4 DEF Write
  <2>2. CASE /\ saver' = [saver EXCEPT ![n].st = "saved"] /\ saved' = saved \cup {n}
             /\ spool' = {IF f.name = n THEN [f EXCEPT !.whole = TRUE] ELSE f : f \in spool}
    <3>1. Off' = Off /\ n \in Off /\ n \notin saved
      BY <1>1, <2>1, <2>2 DEF Off, Offered, SaverState, ModInv, SaversOK
    <3>2. InQueue' = InQueue
      <4>1. \A f \in spool : [f EXCEPT !.whole = TRUE].name = f.name
        BY DEF TypeOK
      <4> QED  BY <2>2, <4>1 DEF InQueue
    <3>3. n \in InQueue \/ n \in dismissed \/ Out[n] > 0
      BY <2>1, OutTyped DEF ModInv, Accounted
    <3>4. Queue!Keep(n)
      BY <1>1, <2>2, <3>1, <3>2, <3>3 DEF Queue!Keep, InQueue, Off, Out
    <3> QED  BY <3>4 DEF Queue!Next
  <2>3. CASE /\ saver' = [saver EXCEPT ![n].st = "failed"] /\ UNCHANGED saved
             /\ spool' = Without(saver[n].l, n)
    <3>1. Off' = Off /\ n \notin saved
      BY <1>1, <2>1, <2>3 DEF Off, Offered, SaverState, ModInv, SaversOK
    <3>2. InQueue' = InQueue \ {n}
      BY <2>3 DEF InQueue, Without, In, StorageFolder, ModInv, FilesOK
    <3>3. CASE n \in InQueue
      <4>1. Queue!Withdraw(n)
        BY <1>1, <2>3, <3>1, <3>2, <3>3 DEF Queue!Withdraw, InQueue, Off, Out
      <4> QED  BY <4>1 DEF Queue!Next
    <3>4. CASE n \notin InQueue
      BY <1>1, <2>3, <3>1, <3>2, <3>4, SameFiles
    <3> QED  BY <3>3, <3>4
  <2> QED  BY <1>4, <2>2, <2>3 DEF Write
<1> QED  BY <1>2, <1>3, <1>4

(* Removing a file that is in no folder, or not there, changes nothing.    *)
LEMMA RemoveQueues ==
    ASSUME TypeOK, ModInv, NEW u \in Moderator, Remove(u)
    PROVE  [Queue!Next]_Queue!vars
<1>0. PICK n \in File : n = web[u].cur
  BY HandlerState DEF Remove, GoodPost, InHand
<1>1. UNCHANGED <<saver, saved, passed, strayed, Off, Out>>
  BY <1>0, HandlerState DEF Remove, GoodPost, InHand, Off, Out
<1>2. CASE UNCHANGED <<spool, dismissed>>
  BY <1>1, <1>2, SameFiles DEF InQueue
<1>3. CASE /\ In(web[u].l, n) # {} /\ spool' = Without(web[u].l, n)
           /\ dismissed' = dismissed \cup {n}
  <2>1. n \in InQueue /\ InQueue' = InQueue \ {n}
    BY <1>3 DEF InQueue, Without, In, StorageFolder, ModInv, FilesOK
  <2>2. Queue!Dismiss(n)
    BY <1>1, <1>3, <2>1 DEF Queue!Dismiss, InQueue, Off, Out
  <2> QED  BY <1>1, <2>2 DEF Queue!Next
<1> QED  BY <1>0, <1>2, <1>3 DEF Remove

LEMMA UnlinkQueues ==
    ASSUME TypeOK, ModInv, NEW u \in Moderator, Unlink(u)
    PROVE  [Queue!Next]_Queue!vars
<1>0. PICK n \in File : n = web[u].cur
  BY HandlerState DEF Unlink, GoodPost, InHand
<1>1. /\ saver[n].l.id = web[u].l.id
      /\ passed[n] > 0 \/ n \in strayed
      /\ UNCHANGED <<saver, saved, passed, strayed, dismissed, Off, Out>>
  BY <1>0, HandlerState DEF Unlink, GoodPost, InHand, history, Off, Out
<1>2. CASE UNCHANGED spool
  BY <1>1, <1>2, SameFiles DEF InQueue
<1>3. CASE spool' = Without(web[u].l, n)
  <2>1. InQueue' = InQueue \ {n}
    BY <1>1, <1>3 DEF InQueue, Without, In, StorageFolder, ModInv, FilesOK
  <2>2. CASE n \in InQueue
    <3>1. Out[n] > 0
      BY <1>1, OutTyped
    <3>2. Queue!Clear(n)
      BY <1>1, <2>1, <2>2, <3>1 DEF Queue!Clear, InQueue, Off, Out
    <3> QED  BY <1>1, <3>2 DEF Queue!Next
  <2>3. CASE n \notin InQueue
    BY <1>1, <2>1, <2>3, SameFiles
  <2> QED  BY <2>2, <2>3
<1> QED  BY <1>0, <1>2, <1>3 DEF Unlink

LEMMA ForwardQueues ==
    ASSUME TypeOK, ModInv, NEW u \in Moderator, Forward(u)
    PROVE  [Queue!Next]_Queue!vars
<1>0. PICK n \in File : n = web[u].cur
  BY HandlerState DEF Forward, GoodPost, InHand
<1>1. /\ n \in Off
      /\ UNCHANGED <<saver, spool, saved, dismissed, Off, InQueue>>
  BY <1>0, HandlerState DEF Forward, GoodPost, InHand, SentTo, files, Off, InQueue
<1>2. ASSUME \A m \in File : Out'[m] = IF m = n THEN Out[m] + 1 ELSE Out[m]
      PROVE  Out' = [Out EXCEPT ![n] = @ + 1]
  <2>1. Out = [m \in File |-> Out[m]] /\ Out' = [m \in File |-> Out'[m]]
    BY DEF Out
  <2> HIDE DEF Out
  <2> QED  BY <1>2, <2>1
<1>3. CASE UNCHANGED <<passed, strayed>>
  BY <1>1, <1>3, SameFiles
<1>4. ASSUME Out' = [Out EXCEPT ![n] = @ + 1]  PROVE Queue!Next
  <2>1. Queue!Forward(n)
    BY <1>1, <1>4 DEF Queue!Forward, InQueue, Off, Out
  <2> QED  BY <1>1, <2>1 DEF Queue!Next
<1>5. CASE passed' = [passed EXCEPT ![n] = @ + 1] /\ UNCHANGED strayed
  <2>1. \A m \in File : Out'[m] = IF m = n THEN Out[m] + 1 ELSE Out[m]
    BY <1>5, Typed DEF Out
  <2> QED  BY <1>2, <1>4, <2>1
<1>6. CASE strayed' = strayed \cup {n} /\ UNCHANGED passed
  <2>1. CASE n \in strayed
    <3>1. strayed' = strayed
      BY <1>6, <2>1
    <3> QED  BY <1>1, <1>6, <3>1, SameFiles
  <2>2. CASE n \notin strayed
    <3>1. \A m \in File : Out'[m] = IF m = n THEN Out[m] + 1 ELSE Out[m]
      BY <1>6, <2>2, Typed DEF Out
    <3> QED  BY <1>2, <1>4, <3>1
  <2> QED  BY <2>1, <2>2
<1> QED  BY <1>0, <1>3, <1>5, <1>6 DEF Forward

LEMMA QuietQueues ==
    ASSUME TypeOK, NEW u \in Moderator,
           \/ \E a \in ListAddr : Show(u, a)
           \/ \E n \in File : Read(u, n)
           \/ Post(u) \/ Authorize(u) \/ Skip(u) \/ Known(u) \/ Redirect(u) \/ Return(u)
    PROVE  UNCHANGED Queue!vars
<1>1. UNCHANGED <<spool, saver, saved, passed, strayed, dismissed>>
  <2>1. \A a : Show(u, a) => UNCHANGED <<spool, saver, saved, passed, strayed, dismissed>>
    BY DEF Show, files, history
  <2>2. \A n : Read(u, n) => UNCHANGED <<spool, saver, saved, passed, strayed, dismissed>>
    BY DEF Read, files
  <2> QED  BY <2>1, <2>2 DEF Post, Authorize, Skip, Known, Redirect, Return, files, history
<1> QED  BY <1>1, SameFiles DEF InQueue, Off

LEMMA OthersQueue ==
    ASSUME TypeOK, Crash \/ Admin \/ UNCHANGED vars
    PROVE  UNCHANGED Queue!vars
<1>1. UNCHANGED <<spool, saved, passed, strayed, dismissed>>
  BY DEF Crash, Admin, vars, files, history
<1>2. Off' = Off
  <2>1. CASE Crash
    <3>1. \A n \in File : saver'[n].st \in Offered <=> saver[n].st \in Offered
      <4> SUFFICES ASSUME NEW n \in File
                   PROVE  saver'[n].st = CASE saver[n].st = "loaded"  -> "refused"
                                           [] saver[n].st = "writing" -> "failed"
                                           [] OTHER                   -> saver[n].st
        BY DEF Offered
      <4>1. saver[n] \in SaverState
        BY Typed
      <4> QED  BY <2>1, <4>1 DEF Crash, SaverState
    <3> QED  BY <3>1 DEF Off
  <2>2. CASE UNCHANGED saver
    BY <2>2 DEF Off
  <2> QED  BY <2>1, <2>2 DEF Admin, vars, files
<1> QED  BY <1>1, <1>2, SameFiles DEF InQueue

LEMMA NextQueues ==
    ASSUME TypeOK, ModInv, [Next]_vars
    PROVE  [Queue!Next]_Queue!vars
<1>1. limit.who \subseteq Moderator
  BY Typed
<1>2. ASSUME NEW n \in File, (\E a \in ListAddr : LoadList(n, a)) \/ TempFile(n) \/ Write(n)
      PROVE  [Queue!Next]_Queue!vars
  BY <1>2, SaverQueues
<1>3. ASSUME NEW u \in limit.who, \/ \E a \in ListAddr : Show(u, a)
                                  \/ \E n \in File : Read(u, n)
                                  \/ Post(u) \/ Authorize(u) \/ Skip(u) \/ Known(u)
                                  \/ Redirect(u) \/ Return(u)
      PROVE  UNCHANGED Queue!vars
  BY <1>1, <1>3, QuietQueues
<1>4. ASSUME NEW u \in limit.who, Remove(u) \/ Forward(u) \/ Unlink(u)
      PROVE  [Queue!Next]_Queue!vars
  BY <1>1, <1>4, RemoveQueues, ForwardQueues, UnlinkQueues
<1> QED  BY <1>2, <1>3, <1>4, OthersQueue DEF Next

LEMMA InitQueues == Init => Queue!Init
  BY DEF Init, Queue!Init, NoSave, Offered

(* The queue of a list does what ModQueue promises, for any number of      *)
(* moderators, forms, handlers, files and faults: a mail whose sender was  *)
(* told that it is kept leaves it by way of a list or by a moderator's     *)
(* word only.                                                              *)
THEOREM KeepsTheQueue == Spec => ImplementsQueue
<1>1. TypeOK /\ ModInv /\ [Next]_vars => [Queue!Next]_Queue!vars
  BY NextQueues
<1> QED  BY <1>1, InitQueues, ModInvariant, PTL DEF Spec, ImplementsQueue, Queue!Spec

-----------------------------------------------------------------------------
(* The pages of the form                                                   *)

(* There is a first page, and no more than a hundred.                      *)
LEMMA PagesBounded == \A n \in Count : maxPage(n) \in 1..100
  BY DEF maxPage, Count, Readdirnames, modPerPage

(* Whatever page is asked for, negative numbers and those beyond the last  *)
(* page included, a page that exists is shown (web.go:940-951).            *)
THEOREM PageExists == \A n \in Count, asked \in Int : Page(asked, n) \in 1..maxPage(n)
  BY PagesBounded DEF Page

(* A page begins where its number says: the condition that keeps the slice *)
(* in its bounds (web.go:996) never hides mails.                           *)
LEMMA PageBegins ==
  ASSUME NEW n \in Count, n > 0, NEW page \in 1..maxPage(n)
  PROVE  First(page, n) = (page - 1) * 10 /\ First(page, n) \in 0..(n - 1)
<1>1. (page - 1) * 10 < n
  BY PagesBounded DEF maxPage, Count, Readdirnames, modPerPage
<1> QED
  BY <1>1, PagesBounded DEF First, modPerPage, Count

(* No page is empty unless the queue is (web.go:990-1002).                 *)
THEOREM NoEmptyPage ==
  \A n \in Count : n > 0 => \A page \in 1..maxPage(n) : Shown(page, n) # {}
<1> SUFFICES ASSUME NEW n \in Count, n > 0, NEW page \in 1..maxPage(n)
             PROVE  Shown(page, n) # {}
  OBVIOUS
<1>1. First(page, n) \in Shown(page, n)
  BY PageBegins DEF Shown, modPerPage
<1> QED
  BY <1>1

(* A moderator who looks at every page sees every mail, and sees it once,  *)
(* if nobody removes mails meanwhile (web.go:990-1002).                    *)
THEOREM EveryMailOnOnePage ==
  \A n \in Count : \A i \in 0..(n - 1) :
     \E page \in 1..maxPage(n) :
        /\ i \in Shown(page, n)
        /\ \A other \in 1..maxPage(n) : i \in Shown(other, n) => other = page
<1> SUFFICES ASSUME NEW n \in Count, NEW i \in 0..(n - 1)
             PROVE  \E page \in 1..maxPage(n) :
                       /\ i \in Shown(page, n)
                       /\ \A other \in 1..maxPage(n) : i \in Shown(other, n) => other = page
  OBVIOUS
<1> DEFINE q == (i \div 10) + 1
<1>1. n > 0 /\ i \in Nat /\ n \in Nat
  BY DEF Count, Readdirnames
<1>2. q \in 1..maxPage(n)
  BY <1>1 DEF maxPage, modPerPage
<1>3. \A other \in 1..maxPage(n) :
         i \in Shown(other, n) <=> (other - 1) * 10 <= i /\ i < (other - 1) * 10 + 10
  BY <1>1, PageBegins, PagesBounded DEF Shown, modPerPage
<1>4. (q - 1) * 10 <= i /\ i < (q - 1) * 10 + 10
  BY <1>1
<1>5. \A other \in 1..maxPage(n) : i \in Shown(other, n) => other = q
  BY <1>1, <1>3, PagesBounded
<1> QED
  BY <1>2, <1>3, <1>4, <1>5

(* Every link leads to a page that exists, and every page has links to the *)
(* one before and the one after, so that one can look at every page by     *)
(* following links, whatever pages are left out (web.go:966-988).          *)
THEOREM NeighboursLinked ==
  \A n \in Count : \A page \in 1..maxPage(n) :
     /\ PageLinks(page, n) \subseteq 1..maxPage(n)
     /\ \A p \in {page - 1, page + 1} : p \in 1..maxPage(n) => p \in PageLinks(page, n)
<1> SUFFICES ASSUME NEW n \in Count, NEW page \in 1..maxPage(n)
             PROVE  /\ PageLinks(page, n) \subseteq 1..maxPage(n)
                    /\ \A p \in {page - 1, page + 1} :
                          p \in 1..maxPage(n) => p \in PageLinks(page, n)
  OBVIOUS
<1>1. maxPage(n) \in 1..100
  BY PagesBounded
<1>2. PageLinks(page, n) \subseteq 1..maxPage(n)
  BY <1>1 DEF PageLinks
<1>3. page - 1 \in 1..maxPage(n) => page - 1 \in PageLinks(page, n)
  <2>1. page - 1 = (page - 1) \div 1 /\ 1 \in Powers
    BY <1>1 DEF Powers
  <2> QED
    BY <1>1, <2>1 DEF PageLinks
<1>4. page + 1 \in 1..maxPage(n) => page + 1 \in PageLinks(page, n)
  <2>1. page + 1 = (page + 1) * 1 /\ 1 \in Powers
    BY <1>1 DEF Powers
  <2> QED
    BY <1>1, <2>1 DEF PageLinks
<1> QED
  BY <1>2, <1>3, <1>4
=============================================================================
