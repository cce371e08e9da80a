----------------------------- MODULE MCHostDoc -----------------------------
(* A plain and a rich field, texts of up to four units, two users.        *)
EXTENDS HostDoc, TLC

MCTyped == {<<Flagged>>, <<High, Low>>}
MCInserts == {<<>>, <<"o">>}
MCOriginals == {<<Flagged, "o">>}

Pages(plain, rich) == [f \in Fields |-> IF f \in Rich THEN rich ELSE plain]
Mix(p, f, owner, acts, n, k, r) ==
  [page |-> p, field |-> f, owner |-> owner, acts |-> acts, moves |-> n, runs |-> k, requests |-> r]
X == Flagged

Typing == Mix(Pages(<<X, "o", X>>, <<>>), "plain", "u1", {"type"}, 2, 2, 1)
RichTyping == Mix(Pages(<<>>, <<X, X>>), "rich", "u1", {"type", "astray"}, 1, 2, 1)
\* A page that rewrites what is put into its plain field.
Correcting == Mix(Pages(<<X, "o">>, <<>>), "plain", "u1", {"type", "astray"}, 1, 2, 1)
Rewriting == Mix(Pages(<<X, "o", X>>, <<>>), "plain", "u1", {"click", "rewrite", "full"}, 2, 1, 2)
Switching == Mix(Pages(<<X>>, <<X>>), "plain", "u1", {"connect", "leave"}, 3, 1, 2)
Crossing == Mix(Pages(<<X>>, <<X>>), "plain", "u1", {"connect", "leave"}, 3, 2, 1)
Signing == Mix(Pages(<<X>>, <<>>), "plain", "u1", {"type", "sign"}, 3, 1, 1)
Abandoning == Mix(Pages(<<X, "o">>, <<>>), "plain", "u1", {"sign", "type"}, 2, 2, 1)
Reloading == Mix(Pages(<<X>>, <<>>), None, "u1", {"connect", "reload", "type"}, 3, 1, 1)
Arriving == Mix(Pages(<<X>>, <<>>), None, None, {"connect", "sign"}, 3, 2, 1)

MCLoads == {Typing, RichTyping, Correcting, Rewriting, Switching, Crossing, Signing, Abandoning,
            Reloading, Arriving}
=============================================================================
