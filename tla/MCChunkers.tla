-------------------------------- MODULE MCChunkers --------------------------------
(* Texts put together from lines, for TLC.                                         *)
EXTENDS Chunkers

Heading(h) == <<h, "newline">>
Line(words) == [i \in 1..words |-> "word"] \o <<"newline">>
Empty == <<"newline">>
TwoSentences == <<"word", "stop", "word", "word", "stop">>
LongLine == [i \in 1..7 |-> "word"]

Blocks == {Heading("h1"), Heading("h2"), Heading("h3"), Line(1), Line(3), Empty}
Sections == {FlattenSeq(lines) : lines \in SeqOf(Blocks, 4)}
Nested == {Heading("h1") \o FlattenSeq(lines) : lines \in [1..4 -> Blocks \ {Line(1)}]}
Prose == {FlattenSeq(lines) : lines \in SeqOf({Line(1), Line(2), Empty, TwoSentences}, 4)}
Unbroken == {LongLine, TwoSentences \o LongLine, LongLine \o <<"stop">> \o LongLine}
Hollow == {Heading("h1") \o [i \in 1..n |-> "newline"] \o lines :
             n \in 5..7, lines \in {<<>>, Line(1), Heading("h2") \o Line(1), Heading("h1") \o Line(1)}}
BothStrategies == {"title", "semantic"}
AllTexts == Sections \cup Nested \cup Prose \cup Unbroken \cup Hollow
===================================================================================
