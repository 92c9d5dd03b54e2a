----------------------------- MODULE MCDispatch -----------------------------
(***************************************************************************)
(* Dispatch for TLC: a client that calls any of a few commands on two      *)
(* keys, one that empties hashes of seven fields, and connections on which *)
(* a few commands follow each other.                                       *)
(***************************************************************************)
EXTENDS Dispatch

\* The trees of hashes.
Avl == INSTANCE AvlTree
AvlSearch(t, key)    == Avl!search(t, key)
AvlInsertion(t, key) == Avl!insertion(t, key)
AvlDeletion(t, key)  == Avl!deletion(t, key)
AvlInOrder(t)        == Avl!InOrder(t)
AvlCorrect(t)        == Avl!assertCorrect(t)

Cmd(name, args) == [name |-> <<name>>, args |-> [i \in DOMAIN args |-> <<args[i]>>]]
On(key, calls) == {Cmd(c[1], <<key>> \o Tail(c)) : c \in calls}

Uppercase == [lpush |-> "LPUSH"]

Strings == {<<"SET", "2">>, <<"SET", "x">>, <<"GET">>, <<"INCRBY", "3">>, <<"INCRBY", "x">>}
Hashes  == {<<"HSET", "1", "x">>, <<"HSET", "2", "x">>, <<"HGET", "1">>, <<"HDEL", "1">>, <<"HDEL", "2">>,
            <<"HMSET", "3", "x", "1", "y">>, <<"HMGET", "1", "3">>}
Zsets   == {<<"ZADD", "1", "m">>, <<"ZADD", "2", "n", "x", "m">>, <<"ZADD", "x", "m">>, <<"ZSCORE", "m">>,
            <<"ZINCRBY", "-1", "m">>, <<"ZINCRBY", "x", "n">>, <<"ZREM", "m">>, <<"ZREM", "m", "n">>}
Lists   == {<<"LPUSH", "x", "y">>, <<"RPUSH", "z">>, <<"LPOP">>, <<"RPOP">>, <<"LINDEX", "-1">>, <<"LINDEX", "x">>,
            <<"LLEN">>, <<"LRANGE", "0", "-1">>, <<"LRANGE", "0", "1">>, <<"LRANGE", "x", "1">>}
Refused == {<<"GET", "1">>, <<"HSET", "1">>, <<"ZADD", "1">>, <<"FLUSHALL">>}

OnA == On("a", Strings \cup Hashes \cup Zsets \cup Lists \cup Refused)
OnB == On("b", {<<"SET", "x">>, <<"HSET", "1", "x">>, <<"ZINCRBY", "1", "m">>})

\* A value of any bytes, a name in small letters, and a command that no executor knows.
Sent == {[name |-> <<"SET">>, args |-> <<<<"b">>, <<"CR", "LF", "$">>>>],
         Cmd("lpush", <<"a", "x">>), Cmd("FLUSHALL", <<>>)}

\* Hashes with trees of four levels.  With the second, deleting the root and then only least fields
\* ends the process.
Fill(fields) == Cmd("HMSET", <<"a">> \o FlattenSeq([i \in DOMAIN fields |-> <<ToString(fields[i]), "x">>]))
Delete(fields) == {Cmd("HDEL", <<"a", ToString(f)>>) : f \in fields}
Sevens == {Fill(<<4, 2, 6, 1, 3, 5, 0>>), Fill(<<0, 1, 5, 2, 4, 6, 3>>)}

Clients == {
    [direct |-> OnA \cup OnB, wire |-> {}, inline |-> FALSE, calls |-> 5],
    [direct |-> Sevens \cup Delete(0 .. 6) \cup {Cmd("HSET", <<"a", "7", "x">>)}, wire |-> {}, inline |-> FALSE, calls |-> 6],
    [direct |-> {}, wire |-> Sent, inline |-> FALSE, calls |-> 2],
    [direct |-> {}, wire |-> Sent, inline |-> TRUE, calls |-> 2]}
=============================================================================
