------------------------------- MODULE SqlText -------------------------------
(***************************************************************************)
(* How the Python package turns the texts of an application's statements   *)
(* into one body (dbapi.py, transaction.py, parameters.py) and what SQLite *)
(* makes of that body.  A text is a sequence of lexical pieces: marks that *)
(* open or close a comment or a quote, semicolons, parentheses, plain      *)
(* placeholders, and "w" for any word.                                     *)
(***************************************************************************)
EXTENDS Integers, Sequences, SequencesExt

CONSTANTS
    MaxText,         \* pieces of a text
    Followers        \* texts of the statement after it

VARIABLE text        \* the statement of an application under examination

Pieces == {"'", "[", "]", "--", "nl", "/*", "*/", ";", "(", ")", "?", ":", "1", "w"}
Texts == UNION {[1..n -> Pieces] : n \in 1..MaxText}

\* The loops of _kind and prepare leave and enter quotes and comments alike; a
\* doubled quote leaves one and enters it again.
Opens == [p \in Pieces |-> CASE p = "--" -> "line" [] p = "/*" -> "block"
                             [] p = "'" -> "quote" [] p = "[" -> "bracket" [] OTHER -> "plain"]
Closes == [line |-> "nl", block |-> "*/", quote |-> "'", bracket |-> "]"]

Mode(sql) ==
    LET mode[i \in 0..Len(sql)] ==
          IF i = 0 THEN "plain"
          ELSE IF mode[i - 1] = "plain"
               THEN IF sql[i] \in Pieces THEN Opens[sql[i]] ELSE "plain"
               ELSE IF sql[i] = Closes[mode[i - 1]] THEN "plain" ELSE mode[i - 1]
    IN mode

\* The places of a text that are neither quoted nor part of a comment.
Plain(sql) == LET mode == Mode(sql) IN
    {i \in 1..Len(sql) : mode[i - 1] = "plain" /\ mode[i] = "plain"}

Count(places, sql, piece) == Cardinality({i \in places : sql[i] = piece})

\* Nothing is left open but a line comment.
Terminated(sql) == Mode(sql)[Len(sql)] \in {"plain", "line"}

Depth(places, sql) == Count(places, sql, "(") - Count(places, sql, ")")

\* _kind accepts one balanced statement; semicolons may follow it.
_kind(sql) ==
    LET plain == Plain(sql)
        Level(i) == Depth({j \in plain : j < i}, sql)
        words == {i \in plain : sql[i] \in {"w", ";"} /\ Level(i) = 0}
    IN  /\ Terminated(sql) /\ Depth(plain, sql) = 0
        /\ \E i \in words : sql[i] = "w"
        /\ \A i, j \in words : sql[i] = ";" /\ sql[j] = "w" => j < i

\* prepare accepts plain placeholders only, as many as there are parameters.
Preparable(sql, count) ==
    LET plain == Plain(sql) IN
    /\ Terminated(sql)
    /\ \A i \in plain : /\ sql[i] # ":"
                        /\ sql[i] = "?" => i = Len(sql) \/ sql[i + 1] # "1"
    /\ Count(plain, sql, "?") = count

Numbered == <<"?1", "?2", "?3", "?4", "?5", "?6", "?7", "?8">>

\* The placeholders of a prepared text carry their number among the parameters
\* of the whole body.
prepare(sql, offset) ==
    LET plain == Plain(sql) IN
    [i \in 1..Len(sql) |->
       IF sql[i] = "?" /\ i \in plain
       THEN Numbered[offset + Count({j \in plain : j <= i}, sql, "?")] ELSE sql[i]]

\* Mutant of _body: no newline ends the comment of the first text.
BodyUnended(first, second, count) ==
    prepare(first, 0) \o <<";", "nl">> \o prepare(second, count) \o <<"nl">>

\* _body and Transaction.execute: a newline ends each text before the separator.
_body(first, second, count) ==
    prepare(first, 0) \o <<"nl">> \o <<"nl", ";", "nl">> \o prepare(second, count) \o <<"nl">>

-----------------------------------------------------------------------------
\* The statements SQLite finds in a body: what stands between the semicolons
\* outside quotes and comments, parentheses notwithstanding, and has a token.
Statements(body) ==
    LET mode == Mode(body)
        plain == Plain(body)
        ends == {i \in plain : body[i] = ";"} \cup {Len(body) + 1}
        tokens == {i \in 1..Len(body) :
                     /\ ~(i \in plain /\ body[i] \in {";", "nl"})
                     /\ mode[i] \notin {"line", "block"} /\ mode[i - 1] \notin {"line", "block"}}
        Between(e) == {i \in tokens : i < e /\ \A f \in ends : f < e => f < i}
        Taken(places) == LET order == SetToSortSeq(places, <) IN
                         [k \in 1..Len(order) |-> body[order[k]]]
        order == SetToSortSeq({e \in ends : Between(e) # {}}, <)
    IN [n \in 1..Len(order) |-> Taken(Between(order[n]))]

\* SQLite parses no statement that starts with anything but a word, or whose
\* parentheses do not match.
Parses(list) ==
    \A n \in 1..Len(list) : list[n][1] = "w" /\ Depth(Plain(list[n]), list[n]) = 0

Accepted(sql) == _kind(sql) /\ Preparable(sql, Count(Plain(sql), sql, "?"))

\* Whatever quotes, comments, trailing comments and semicolons its statements
\* have, a body is refused as a whole or is exactly those two statements in
\* their order, each with its own parameters and no others: neither the idea
\* of the text that _kind has nor the one of prepare differs from SQLite's in a
\* way that matters, and no statement swallows the separator after it.
BodiesSplitBack ==
    text # <<>> /\ Accepted(text) =>
        \A next \in Followers :
            LET count == Count(Plain(text), text, "?")
                list == Statements(_body(text, next, count))
            IN Parses(list) =>
                 /\ Len(list) = 2
                 /\ list = Statements(prepare(text, 0)) \o Statements(prepare(next, count))
=============================================================================
