---------------------------- MODULE MCQueryText ----------------------------
(***************************************************************************)
(* Instances of QueryText for TLC.                                         *)
(***************************************************************************)
EXTENDS QueryText

ComQuery(attributes, size, setSize, params, n) ==
    [type |-> "query", attributes |-> attributes, size |-> size, setSize |-> setSize,
     params |-> params, text |-> Text(n)]

Prepare(attributes, n) ==
    [type |-> "prepare", attributes |-> attributes, text |-> Text(n)]

PgQuery(n)       == [type |-> "Query", text |-> Text(n)]
PgParse(name, n) == [type |-> "Parse", name |-> name, text |-> Text(n)]

\* Commands of a connection with query attributes, or without; no parameters.
Commands(attributes, lengths) ==
    {ComQuery(attributes, size, setSize, <<>>, n) :
        size \in {1, 2, 3, 8}, setSize \in {1, 2, 3, 8}, n \in lengths}
    \cup {Prepare(attributes, n) : n \in lengths}

Two(messages) == {<<a, b>> : a \in messages, b \in messages}

\* Lengths on both sides of a byte's range, of which one makes a Parse message
\* of 256 bytes; PostgreSQL messages alone and sent ahead; a query attribute;
\* a text with a NUL byte.
WholeStreams ==
    Two(Commands(TRUE, {0, 3})) \cup Two(Commands(FALSE, {1}))
    \cup {<<Prepare(FALSE, n)>> : n \in {245, 250, 251, 252, 260}}
    \cup {<<PgQuery(n)>> : n \in {0, 1, 2, 246, 247, 248, 251, 252}}
    \cup {<<PgParse(name, n)>> : name \in 0..2, n \in {0, 1, 5, 245, 250}}
    \cup Two({PgQuery(1), PgParse(1, 2)})
    \cup {<<ComQuery(TRUE, 1, 1, <<[name |-> 2, value |-> 1]>>, 4)>>,
          <<[type |-> "prepare", attributes |-> FALSE, text |-> <<65, 0, 66>>]>>}

\* Short enough for every way to cut them: inside a header, inside the length,
\* and where the bytes read as a length come from a count, a type or a text.
SomeCutStreams ==
    Two({ComQuery(TRUE, 1, 1, <<>>, 1), Prepare(TRUE, 0), ComQuery(TRUE, 2, 1, <<>>, 0)})

SomeStreams == WholeStreams \cup SomeCutStreams
=============================================================================
