---------------------------- MODULE MCForwarding ----------------------------
(***************************************************************************)
(* Two lists that may be receivers of one another, a person who writes and *)
(* one who receives and may redirect; and mails to one list with a field   *)
(* of every shape.  A line should have six characters and may have nine.   *)
(***************************************************************************)
EXTENDS Forwarding

MCKeys == <<"Comments", "Content-Type", "Errors-To", "From", "List-Id", "Reply-To", "Sender", "To",
            "X-Long", "X-Spam", "X-Text", "X-Wide">>

(* The name of X-Long is as long as it may be, that of X-Wide too long.    *)
MCWidth == [k \in Range(MCKeys) |-> IF k = "X-Long" THEN Hard - 3 ELSE IF k = "X-Wide" THEN Hard - 2 ELSE 1]
MCJoined == {"Reply-To", "To"}

Glyphs == <<"a", "b", "c", "d", "e", "f", "g", "h", "i", "j">>
MCWord == Range(Glyphs) \cup {"broken", "html", "mixed", "plain", "yes"}

(* All bodies of at most n characters with ink at both ends.               *)
BodiesUpTo(n) ==
    UNION {{[i \in 1..m |-> IF i \in spaces THEN WS ELSE Text(Glyphs[i])] : spaces \in SUBSET (2..(m - 1))} :
             m \in 1..n}

Mail(from, to) ==
    [NoHeader EXCEPT !["From"] = <<[i \in DOMAIN from |-> Box(from[i], from[i])]>>,
                     !["To"] = [i \in DOMAIN to |-> <<Box(to[i], to[i])>>],
                     !["Content-Type"] = <<<<Text("plain")>>>>]

With(header, k, body) == [header EXCEPT ![k] = <<body>>]

OneList(receivers) ==
    [hide |-> {}, receivers |-> [l \in ListAddr |-> receivers],
     notifieds |-> [l \in ListAddr |-> {}], bounces |-> [l \in ListAddr |-> {}],
     passes |-> [l \in ListAddr |-> {"p"}], others |-> [l \in ListAddr |-> "mod"], redirect |-> {}]

FoldCases ==
    {[conf |-> OneList({"r"}), sender |-> "p", header |-> With(Mail(<<"p">>, <<"A">>), k, body)] :
       k \in {"X-Long", "X-Text"}, body \in BodiesUpTo(10)}

(* Who gets the mail of A and of B, what lists do with it and who is       *)
(* notified, who hides.                                                    *)
Chains == {[A |-> {"B", "r"}, B |-> {"r"}]}
Meshes == {[A |-> a, B |-> b] : a \in {{"B"}, {"r"}, {"B", "r"}}, b \in {{"A"}, {"r"}}}

Rules == {[passes |-> [A |-> {"p", "B"}, B |-> {"p", "A"}], others |-> [A |-> "mod", B |-> "mod"],
           notifieds |-> [A |-> {"B"}, B |-> {}]],
          [passes |-> [A |-> {"p", "A"}, B |-> {"q"}], others |-> [A |-> "mod", B |-> "reject"],
           notifieds |-> [A |-> {"B"}, B |-> {}]],
          [passes |-> [A |-> {}, B |-> {"A"}], others |-> [A |-> "mod", B |-> "mod"],
           notifieds |-> [A |-> {}, B |-> {"A"}]]}

Nested(graphs, redirects) ==
    {[hide |-> h, receivers |-> g, notifieds |-> r.notifieds, bounces |-> [A |-> {"p"}, B |-> {"A"}],
      passes |-> r.passes, others |-> r.others, redirect |-> d] :
        h \in {{}, {"A"}, {"B"}}, g \in graphs, r \in Rules, d \in redirects}

FromP == Mail(<<"p">>, <<"A">>)
ToBoth == Mail(<<"p">>, <<"A", "B">>)

Letters ==
    {Mail(<<"p", "q">>, <<"B", "A">>),
     With(With(FromP, "Reply-To", <<Box("p", "p")>>), "Sender", <<Box("p", "p")>>),
     With(ToBoth, "X-Spam", <<Text("yes")>>),
     With(FromP, "Content-Type", <<Text("broken")>>),
     With(ToBoth, "Content-Type", <<Text("html")>>),
     With(FromP, "X-Wide", <<Text("a")>>),
     With(FromP, "Comments", <<>>),             \* Content-Type is lost
     With(ToBoth, "Errors-To", <<>>),           \* From is lost
     With(ToBoth, "X-Text", <<>>)}              \* the end of the header is lost

CasesOf(confs, headers) == [conf: confs, sender: {"p"}, header: headers]

(* Two lists whose moderators read the mail of the other list's address.   *)
Notified == [OneList({"r"}) EXCEPT !.passes = [l \in ListAddr |-> {}],
                                   !.notifieds = [A |-> {"B"}, B |-> {"A"}]]
Nudged == {[conf |-> Notified, sender |-> "p", header |-> FromP]}

(* A moderator who redirects notifications to a list.                      *)
Redirecting == [Notified EXCEPT !.notifieds = [A |-> {"r"}, B |-> {"A"}], !.redirect = {<<"r", "B">>}]
AwayFromDesk == CasesOf({Redirecting}, {FromP, ToBoth})

MCCases ==
    FoldCases
    \cup CasesOf(Nested(Meshes, {{}, {<<"r", "A">>}, {<<"r", "B">>}}), {FromP, ToBoth})
    \cup CasesOf(Nested(Chains, {{}}), Letters)
    \cup Nudged \cup AwayFromDesk

EmptyLast == {[conf |-> OneList({"r"}), sender |-> "p", header |-> With(FromP, "X-Text", <<>>)]}
=============================================================================
