---------------------------------- MODULE MCChain ----------------------------------
(* Small chains for TLC.                                                        *)
EXTENDS Chain, TLC

CONSTANTS a, b, field, absent

TwoNames == {a, b}
OneField == {field}
TwoFields == {field, absent}
ToName(form) == {[form |-> form, of |-> n] : n \in Names}
ToField(form) == {[form |-> form, of |-> f] : f \in Fields}
Kinds(refs) == [parallel : BOOLEAN, as : Names \cup {None}, refs : refs]
UpTo(n, kinds) == UNION {[1..m -> kinds] : m \in 1..n}

(* At most one reference a step, to an output, in braces, or any reference to   *)
(* the parameter; and one chain whose last step reads twice.                    *)
Singles(form) == {{}} \cup {{r} : r \in ToName(form)}
BracedChains == UpTo(3, Kinds(Singles("braced")))
PlainChains == UpTo(2, Kinds(Singles("plain") \cup {{r} : r \in ToField("braced") \cup ToField("plain")}))
Pair(kind) == [parallel |-> kind, as |-> a, refs |-> {}]
TwoReads == {<<Pair(FALSE), Pair(FALSE), [parallel |-> TRUE, as |-> b, refs |-> {}],
               [parallel |-> TRUE, as |-> a, refs |-> {[form |-> "braced", of |-> b]}],
               [parallel |-> FALSE, as |-> None, refs |-> ToName("braced")]>>}
AllChains == BracedChains \cup PlainChains \cup TwoReads
===================================================================================
