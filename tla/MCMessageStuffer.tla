-------------------------- MODULE MCMessageStuffer --------------------------
(***************************************************************************)
(* A small world of commitments for MessageStuffer.  Relay roots r1 and r2 *)
(* are two versions of the BEEFY MMR; channel roots c1 and c2 are those of *)
(* two versions of the sender's header, over message MMR roots m1 and m2.  *)
(* The submissions are the two genuine proofs, every proof that differs    *)
(* from one of them in one component, and splices of the two.              *)
(***************************************************************************)
EXTENDS MessageStuffer

MCHash == {"zero", "r1", "r2", "h1", "h2", "c1", "c2", "m1", "m2"}
MCLeaf == {"beefy1", "beefy2", "garbage", "msg1", "msg2"}
MCHeader == {"head1", "head2", "nodigest", "badheader"}

MCMmrCommits ==
    [h \in MCHash |-> CASE h = "r1" -> {"beefy1"}
                        [] h = "r2" -> {"beefy1", "beefy2", "garbage"}
                        [] h = "m1" -> {"msg1"}
                        [] h = "m2" -> {"msg1", "msg2"}
                        [] OTHER -> {}]
MCTreeCommits ==
    [h \in MCHash |-> CASE h = "h1" -> {"head1", "nodigest"}
                        [] h = "h2" -> {"head2", "badheader"}
                        [] h = "c1" -> {"m1"}
                        [] h = "c2" -> {"m2"}
                        [] OTHER -> {}]
MCLeafExtraOf ==
    [l \in MCLeaf |-> CASE l = "beefy1" -> "h1" [] l = "beefy2" -> "h2"
                        [] OTHER -> Undecodable]
MCChannelRootOf ==
    [h \in MCHeader |-> CASE h = "head1" -> "c1" [] h = "head2" -> "c2"
                          [] h = "nodigest" -> NoDigest
                          [] OTHER -> Undecodable]

Genuine(r, beefy, h, head, c, m, msg) ==
    [target |-> r,
     proof |-> [stage_1 |-> [of |-> r, leaves |-> <<beefy>>],
                stage_2 |-> [root |-> h, leaf |-> head, path |-> TRUE, wide |-> FALSE],
                stage_3 |-> [root |-> c, leaf |-> m, path |-> TRUE, wide |-> FALSE],
                stage_4 |-> [of |-> m, leaves |-> <<msg>>]]]

GenuineSubmissions ==
    {Genuine("r1", "beefy1", "h1", "head1", "c1", "m1", "msg1"),
     Genuine("r2", "beefy2", "h2", "head2", "c2", "m2", "msg2")}

LeafVectors == {<<>>} \cup {<<a>> : a \in MCLeaf} \cup {<<"beefy1", "beefy2">>}
MessageVectors == {<<"msg1">>, <<"msg2">>, <<"msg1", "msg2">>, <<"beefy1">>}

Variants(s) ==
    {[s EXCEPT !.target = h] : h \in MCHash}
    \cup {[s EXCEPT !.proof.stage_1.of = h] : h \in MCHash}
    \cup {[s EXCEPT !.proof.stage_1.leaves = ls] : ls \in LeafVectors}
    \cup {[s EXCEPT !.proof.stage_2.root = h] : h \in MCHash}
    \cup {[s EXCEPT !.proof.stage_2.leaf = h] : h \in MCHeader}
    \cup {[s EXCEPT !.proof.stage_2.path = FALSE]}
    \cup {[s EXCEPT !.proof.stage_2.wide = TRUE]}
    \cup {[s EXCEPT !.proof.stage_3.root = h] : h \in MCHash}
    \cup {[s EXCEPT !.proof.stage_3.leaf = h] : h \in MCHash}
    \cup {[s EXCEPT !.proof.stage_3.path = FALSE]}
    \cup {[s EXCEPT !.proof.stage_3.wide = TRUE]}
    \cup {[s EXCEPT !.proof.stage_4.of = h] : h \in MCHash}
    \cup {[s EXCEPT !.proof.stage_4.leaves = ls] : ls \in MessageVectors}
    \cup {[s EXCEPT !.target = h, !.proof.stage_1.of = h] : h \in MCHash}

(* The upper stages of one proof with the lower stages of another, fitted  *)
(* together where they meet.                                               *)
Spliced(s, t) ==
    {[s EXCEPT !.proof.stage_3.leaf = t.proof.stage_3.leaf,
               !.proof.stage_4 = t.proof.stage_4],
     [s EXCEPT !.proof.stage_3 = t.proof.stage_3, !.proof.stage_4 = t.proof.stage_4],
     [s EXCEPT !.proof.stage_2.leaf = t.proof.stage_2.leaf,
               !.proof.stage_3 = t.proof.stage_3, !.proof.stage_4 = t.proof.stage_4],
     [t EXCEPT !.proof.stage_1 = s.proof.stage_1],
     [t EXCEPT !.target = s.target, !.proof.stage_1 = s.proof.stage_1]}

MCSubmissions ==
    UNION {Variants(s) : s \in GenuineSubmissions}
    \cup UNION {Spliced(s, t) : s, t \in GenuineSubmissions}
MCTestSubmissions == {[of |-> m, leaves |-> <<l>>] : m \in {"m1", "m2"},
                                                    l \in {"msg1", "msg2"}}
=============================================================================
