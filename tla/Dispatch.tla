------------------------------ MODULE Dispatch ------------------------------
(***************************************************************************)
(* Dispatch_Executor of src/v1/RESP_parser.hpp over the Wrap_objects of    *)
(* src/v1/IN-MEM_Helper.hpp, called as MemtableTestHarness of              *)
(* src/v1/test_runner.cpp calls it: with a command, or with the bytes of a *)
(* connection, which arrive in pieces.                                     *)
(*                                                                         *)
(* A word is a sequence of symbols, a number the word of its digits.  The  *)
(* memtable finds what was inserted and nothing else, as Memtable checks.  *)
(* A hash is a tree of fields and their values; what the tree's operations *)
(* are is left open, and MCDispatch takes those of AvlTree, as the code    *)
(* does.  Of a sorted set only score_hash is here: the skip list, and with *)
(* it ZRANK, ZRANGE and ZRANGEBYSCORE, is in SortedSet.                    *)
(***************************************************************************)
EXTENDS Integers, Sequences, FiniteSets, TLC, SequencesExt

CONSTANTS
    Sessions,        \* [direct, wire, inline, calls]: the commands called and those sent, whether
                     \* bytes that are no command may be sent among these, and how many
    Width,           \* bits of int64_t
    Upper, Null, Crash,
    TreeSearch(_, _), TreeInsertion(_, _), TreeDeletion(_, _), TreeInOrder(_),   \* class AVLtree
    TreeCorrect(_)   \* what its assertCorrect asks

Command == [name : Seq(STRING), args : Seq(Seq(STRING))]
Session == [direct : SUBSET Command, wire : SUBSET Command, inline : BOOLEAN, calls : Nat]

ASSUME DispatchAssumption == Width \in Nat \ {0} /\ Sessions \subseteq Session

VARIABLES
    memtable,        \* each key in use to its Wrap_object
    running,         \* no exception has left the harness
    reply,           \* to the command last executed: [cmd, status, val]
    in_flight,       \* bytes sent and not received
    rx_buffer,
    session,         \* what the client still may do
    sent, executed   \* history: the commands of the connection

vars == <<memtable, running, reply, in_flight, rx_buffer, session, sent, executed>>

Resp == INSTANCE RespParser

-----------------------------------------------------------------------------
(* Words, objects and replies.                                             *)

Int64 == -(2 ^ (Width - 1)) .. 2 ^ (Width - 1) - 1
ToWord(n) == <<ToString(n)>>
IsNum(w) == \E n \in Int64 : w = ToWord(n)
Num(w) == CHOOSE n \in Int64 : w = ToWord(n)

\* What the sum of two int64_t is where it is computed.
Wrapped(n) == ((n + 2 ^ (Width - 1)) % (2 ^ Width)) - 2 ^ (Width - 1)

Obj(type, val) == <<type, val>>
Type(o) == o[1]
Val(o) == o[2]
NewString == Obj("STRING", <<>>)
NewHash   == Obj("HASH", [tree |-> Null, vals |-> <<>>])
NewZset   == Obj("SORTED_SET", <<>>)
NewList   == Obj("LIST", <<>>)

\* The data of a reply.
Nothing == <<"NIL", Null>>
OK == <<"SIMPLE_STRING", Null>>
Integer(n) == <<"INTEGER", n>>
Double(n) == <<"DOUBLE", n>>
Bulk(w) == <<"BULK_STRING", w>>
Array(ws) == <<"ARRAY", ws>>

\* The outcome of a command: its key's object afterwards, and the reply.
Out(o, status, val) == [obj |-> o, status |-> status, val |-> val]
Ok(o, val)      == Out(o, "SUCCESS", val)
Nil(o)          == Out(o, "NOT_FOUND", Nothing)
WrapError(o)    == Out(o, "WRAP_OBJ_ERROR", Nothing)
RuntimeError(o) == Out(o, "RUNTIME_ERROR", Nothing)
Throws(o)       == Out(o, "THROWS", Nothing)

\* A map in which k has the value v, and the other keys theirs.
Put(f, k, v) == [j \in DOMAIN f \cup {k} |-> IF j = k THEN v ELSE f[j]]

-----------------------------------------------------------------------------
(* The objects' methods.                                                   *)

\* A field of the tree; its value is beside it.
HasField(h, f) == TreeSearch(h.tree, f) # Null
\* Mutant: a field that is there is inserted once more.
set_field_again(h, f, w) == [tree |-> TreeInsertion(h.tree, f), vals |-> Put(h.vals, f, w)]
set_field(h, f, w) ==
    [tree |-> IF HasField(h, f) THEN h.tree ELSE TreeInsertion(h.tree, f), vals |-> Put(h.vals, f, w)]
set_multiple(h, fvs) == FoldLeft(LAMBDA g, fv : set_field(g, fv[1], fv[2]), h, fvs)
get_field(h, f) == IF HasField(h, f) THEN h.vals[f] ELSE <<>>
delete_field(h, f) == [tree |-> TreeDeletion(h.tree, f), vals |-> [g \in DOMAIN h.vals \ {f} |-> h.vals[g]]]

zset_add(z, score, m) == Put(z, m, score)
zset_remove(z, ms) == [m \in DOMAIN z \ ms |-> z[m]]

Resolved(v, i) == IF i < 0 THEN Len(v) + i ELSE i
InList(v, i) == Resolved(v, i) \in 0 .. Len(v) - 1

Pairs(args) == [i \in 1 .. (Len(args) - 1) \div 2 |-> <<args[2 * i], args[2 * i + 1]>>]
FieldPairs(args) == [i \in DOMAIN Pairs(args) |-> <<Num(Pairs(args)[i][1]), Pairs(args)[i][2]>>]

-----------------------------------------------------------------------------
(* Commands on an object o of their own type, or of any.                   *)

Is(o, type) == Type(o) = type

\* Without a number in the object, or with another type, incr_by has no value to take.
\* Mutant: what is no number counts as zero.
IncrbyFromZero(o, args) ==
    IF ~IsNum(args[2]) \/ ~Is(o, "STRING") THEN RuntimeError(o)
    ELSE LET n == Wrapped((IF IsNum(Val(o)) THEN Num(Val(o)) ELSE 0) + Num(args[2]))
         IN  IF IsNum(Val(o)) THEN Ok(Obj("STRING", ToWord(n)), Integer(n)) ELSE RuntimeError(Obj("STRING", ToWord(n)))
Incrby(o, args) ==
    IF ~IsNum(args[2]) \/ ~Is(o, "STRING") \/ ~IsNum(Val(o)) THEN RuntimeError(o)
    ELSE LET n == Wrapped(Num(Val(o)) + Num(args[2])) IN Ok(Obj("STRING", ToWord(n)), Integer(n))

\* Takes the value of set_field before it looks for an error.
Hset(o, args) ==
    IF ~Is(o, "HASH") THEN Throws(o)
    ELSE Ok(Obj("HASH", set_field(Val(o), Num(args[2]), args[3])),
            Integer(IF HasField(Val(o), Num(args[2])) THEN 0 ELSE 1))
Hget(o, args) ==
    IF ~Is(o, "HASH") \/ ~HasField(Val(o), Num(args[2])) THEN Throws(o)
    ELSE Ok(o, Bulk(get_field(Val(o), Num(args[2]))))
\* Mutant: the value is taken first here, too.
HdelTakesValue(o, args) ==
    IF ~Is(o, "HASH") \/ ~HasField(Val(o), Num(args[2])) THEN Throws(o)
    ELSE Ok(Obj("HASH", delete_field(Val(o), Num(args[2]))), Integer(1))
Hdel(o, args) ==
    IF ~Is(o, "HASH") \/ ~HasField(Val(o), Num(args[2])) THEN WrapError(o)
    ELSE Ok(Obj("HASH", delete_field(Val(o), Num(args[2]))), Integer(1))
Hmset(o, args) ==
    IF ~Is(o, "HASH") THEN WrapError(o)
    ELSE Ok(Obj("HASH", set_multiple(Val(o), FieldPairs(args))), Integer(Len(Pairs(args))))
Hmget(o, args) ==
    IF ~Is(o, "HASH") THEN WrapError(o)
    ELSE Ok(o, Array([i \in 1 .. Len(args) - 1 |-> get_field(Val(o), Num(args[i + 1]))]))

\* The pairs before the first score that is no number.  Another type has each pair fail unnoticed.
Added(o, args) ==
    LET bad == {i \in DOMAIN Pairs(args) : ~IsNum(Pairs(args)[i][1])}
        n   == IF bad = {} THEN Len(Pairs(args)) ELSE Min(bad) - 1
        set[i \in 0 .. n] ==
            IF i = 0 THEN Val(o) ELSE zset_add(set[i - 1], Num(Pairs(args)[i][1]), Pairs(args)[i][2])
    IN  set[n]
Zadd(o, args) ==
    LET z == IF Is(o, "SORTED_SET") THEN Obj("SORTED_SET", Added(o, args)) ELSE o
    IN  IF \A i \in DOMAIN Pairs(args) : IsNum(Pairs(args)[i][1])
        THEN Ok(z, Integer(IF Is(o, "SORTED_SET") THEN Len(Pairs(args)) ELSE 0))
        ELSE RuntimeError(z)
Zscore(o, args) ==
    IF ~Is(o, "SORTED_SET") \/ args[2] \notin DOMAIN Val(o) THEN WrapError(o) ELSE Ok(o, Double(Val(o)[args[2]]))
Zincrby(o, args) ==
    IF ~IsNum(args[2]) THEN RuntimeError(o)
    ELSE IF ~Is(o, "SORTED_SET") THEN WrapError(o)
    ELSE LET old == IF args[3] \in DOMAIN Val(o) THEN Val(o)[args[3]] ELSE 0
         IN  Ok(Obj("SORTED_SET", zset_add(Val(o), old + Num(args[2]), args[3])), Double(old + Num(args[2])))
\* remove has a value, false, for a member that is not there: it counts.
Zrem(o, args) ==
    IF ~Is(o, "SORTED_SET") THEN Ok(o, Integer(0))
    ELSE Ok(Obj("SORTED_SET", zset_remove(Val(o), ToSet(Tail(args)))), Integer(Len(args) - 1))

\* The elements one after the other; v is the list with all of them.
Pushed(o, v) == IF ~Is(o, "LIST") THEN WrapError(o) ELSE Ok(Obj("LIST", v), Integer(Len(v)))
Lpush(o, args) == Pushed(o, Reverse(Tail(args)) \o Val(o))
Rpush(o, args) == Pushed(o, Val(o) \o Tail(args))
Lpop(o, args) ==
    IF ~Is(o, "LIST") \/ Val(o) = <<>> THEN WrapError(o) ELSE Ok(Obj("LIST", Tail(Val(o))), Bulk(Head(Val(o))))
Rpop(o, args) ==
    IF ~Is(o, "LIST") \/ Val(o) = <<>> THEN WrapError(o) ELSE Ok(Obj("LIST", Front(Val(o))), Bulk(Last(Val(o))))
Lindex(o, args) ==
    IF ~IsNum(args[2]) THEN RuntimeError(o)
    ELSE IF ~Is(o, "LIST") \/ ~InList(Val(o), Num(args[2])) THEN WrapError(o)
    ELSE Ok(o, Bulk(Val(o)[Resolved(Val(o), Num(args[2])) + 1]))
Llen(o, args) == IF ~Is(o, "LIST") THEN Throws(o) ELSE Ok(o, Integer(Len(Val(o))))
Lrange(o, args) ==
    IF ~IsNum(args[2]) \/ ~IsNum(args[3]) THEN RuntimeError(o)
    ELSE LET start == Resolved(Val(o), Num(args[2]))
             end   == Resolved(Val(o), Num(args[3]))
         IN  IF \/ ~Is(o, "LIST")
                \/ ~InList(Val(o), Num(args[2])) \/ ~InList(Val(o), Num(args[3])) \/ start > end
             THEN WrapError(o)
             ELSE Ok(o, Array(SubSeq(Val(o), start + 1, end + 1)))

-----------------------------------------------------------------------------
(* execute_command_internal.                                               *)

ArgsOk(name, n) ==
    CASE name \in {"GET", "LPOP", "RPOP", "LLEN"}          -> n = 1
      [] name \in {"INCRBY", "HGET", "HDEL", "ZSCORE", "LINDEX"} -> n = 2
      [] name \in {"HSET", "ZINCRBY", "LRANGE"}            -> n = 3
      [] name \in {"SET", "HMGET", "ZREM", "LPUSH", "RPUSH"} -> n >= 2
      [] name \in {"HMSET", "ZADD"}                        -> n >= 3 /\ n % 2 = 1

TypeOf(name) ==
    CASE name \in {"SET", "GET", "INCRBY"}                        -> "STRING"
      [] name \in {"HSET", "HGET", "HDEL", "HMSET", "HMGET"}      -> "HASH"
      [] name \in {"ZADD", "ZSCORE", "ZINCRBY", "ZREM"}           -> "SORTED_SET"
      [] name \in {"LPUSH", "RPUSH", "LPOP", "RPOP", "LINDEX", "LLEN", "LRANGE"} -> "LIST"

New(type) ==
    CASE type = "STRING" -> NewString [] type = "HASH" -> NewHash
      [] type = "SORTED_SET" -> NewZset [] type = "LIST" -> NewList

\* Whatever is there, or a new object of the type.
\* Mutant: an object of another type is replaced.
get_or_replace(key, type) ==
    IF key \in DOMAIN memtable /\ Type(memtable[key]) = type THEN memtable[key] ELSE New(type)
get_or_create(key, type) == IF key \in DOMAIN memtable THEN memtable[key] ELSE New(type)

Creating == {"SET", "INCRBY", "HSET", "HMSET", "ZADD", "ZINCRBY", "LPUSH", "RPUSH"}

\* What a reading command says of a key that is not there.
Missing(name) ==
    CASE name \in {"ZREM", "LLEN"} -> Ok(Null, Integer(0))
      [] name = "LRANGE" -> Ok(Null, Array(<<>>))
      [] OTHER -> Nil(Null)

Effect(name, o, args) ==
    CASE name = "SET"     -> Ok(Obj("STRING", args[2]), OK)
      [] name = "GET"     -> IF Is(o, "STRING") THEN Ok(o, Bulk(Val(o))) ELSE WrapError(o)
      [] name = "INCRBY"  -> Incrby(o, args)
      [] name = "HSET"    -> Hset(o, args)
      [] name = "HGET"    -> Hget(o, args)
      [] name = "HDEL"    -> Hdel(o, args)
      [] name = "HMSET"   -> Hmset(o, args)
      [] name = "HMGET"   -> Hmget(o, args)
      [] name = "ZADD"    -> Zadd(o, args)
      [] name = "ZSCORE"  -> Zscore(o, args)
      [] name = "ZINCRBY" -> Zincrby(o, args)
      [] name = "ZREM"    -> Zrem(o, args)
      [] name = "LPUSH"   -> Lpush(o, args)
      [] name = "RPUSH"   -> Rpush(o, args)
      [] name = "LPOP"    -> Lpop(o, args)
      [] name = "RPOP"    -> Rpop(o, args)
      [] name = "LINDEX"  -> Lindex(o, args)
      [] name = "LLEN"    -> Llen(o, args)
      [] name = "LRANGE"  -> Lrange(o, args)

Commands == {"SET", "GET", "INCRBY", "HSET", "HGET", "HDEL", "HMSET", "HMGET", "ZADD", "ZSCORE", "ZINCRBY",
             "ZREM", "LPUSH", "RPUSH", "LPOP", "RPOP", "LINDEX", "LLEN", "LRANGE"}
Name(cmd) == cmd.name[1]
KeyOf(cmd) == cmd.args[1]

outcome(cmd) ==
    IF Name(cmd) \in Creating THEN Effect(Name(cmd), get_or_create(KeyOf(cmd), TypeOf(Name(cmd))), cmd.args)
    ELSE IF KeyOf(cmd) \notin DOMAIN memtable THEN Missing(Name(cmd))
    ELSE Effect(Name(cmd), memtable[KeyOf(cmd)], cmd.args)

\* An exception, or a deletion in the AVL tree that dereferences nullptr, ends the process.
execute_command_internal(cmd) ==
    LET out     == outcome(cmd)
        refused == IF Name(cmd) \notin Commands THEN "RUNTIME_ERROR" ELSE "INVALID_ARGS"
    IN  IF Name(cmd) \notin Commands \/ ~ArgsOk(Name(cmd), Len(cmd.args))
        THEN /\ reply' = [cmd |-> cmd, status |-> refused, val |-> Nothing]
             /\ UNCHANGED <<memtable, running>>
        ELSE /\ reply' = [cmd |-> cmd, status |-> out.status, val |-> out.val]
             /\ memtable' = IF Name(cmd) \in Creating \/ KeyOf(cmd) \in DOMAIN memtable
                            THEN Put(memtable, KeyOf(cmd), out.obj) ELSE memtable
             /\ running' = ~(\/ out.status = "THROWS"
                             \/ /\ KeyOf(cmd) \in DOMAIN memtable'
                                /\ Is(out.obj, "HASH") /\ Val(out.obj).tree = Crash)

-----------------------------------------------------------------------------
(* The harness and its client.                                             *)

RunCmdDirect(cmd) ==
    /\ session.calls > 0 /\ session' = [session EXCEPT !.calls = @ - 1]
    /\ execute_command_internal(cmd)
    /\ UNCHANGED <<in_flight, rx_buffer, sent, executed>>

Element(w) == <<"$", ToString(Len(w))>> \o Resp!CRLF \o w \o Resp!CRLF
Encoded(cmd) ==
    LET tokens == <<cmd.name>> \o cmd.args
    IN  <<"*", ToString(Len(tokens))>> \o Resp!CRLF \o FlattenSeq([i \in DOMAIN tokens |-> Element(tokens[i])])

\* The client does not wait for replies.
Send(cmd) ==
    /\ session.calls > 0 /\ session' = [session EXCEPT !.calls = @ - 1]
    /\ in_flight' = in_flight \o Encoded(cmd)
    /\ sent' = Append(sent, [cmd EXCEPT !.name = IF @[1] \in DOMAIN Upper THEN <<Upper[@[1]]>> ELSE @])
    /\ UNCHANGED <<memtable, running, reply, rx_buffer, executed>>
SendInline ==
    /\ session.inline
    /\ session.calls > 0 /\ session' = [session EXCEPT !.calls = @ - 1]
    /\ in_flight' = in_flight \o <<"PING">> \o Resp!CRLF
    /\ UNCHANGED <<memtable, running, reply, rx_buffer, sent, executed>>

Receive ==
    /\ \E n \in 1 .. Len(in_flight) :
          /\ rx_buffer' = rx_buffer \o SubSeq(in_flight, 1, n)
          /\ in_flight' = SubSeq(in_flight, n + 1, Len(in_flight))
    /\ UNCHANGED <<memtable, running, reply, session, sent, executed>>

\* run_cmd_wire, by what the parser says.
AnswersCommand(r) ==
    /\ r.status = "SUCCESS"
    /\ rx_buffer' = SubSeq(rx_buffer, r.bytes_read + 1, Len(rx_buffer))
    /\ execute_command_internal(r.cmd)
    /\ executed' = Append(executed, r.cmd)
    /\ UNCHANGED <<in_flight, session, sent>>
AnswersError(r) ==
    /\ r.status = "ERROR"
    /\ rx_buffer' = <<>>
    /\ UNCHANGED <<memtable, running, reply, in_flight, session, sent, executed>>

Init ==
    /\ memtable = [k \in {} |-> Null] /\ running = TRUE
    /\ reply = [cmd |-> [name |-> <<"">>, args |-> <<>>], status |-> "NOT_FOUND", val |-> Nothing]
    /\ in_flight = <<>> /\ rx_buffer = <<>>
    /\ session \in Sessions
    /\ sent = <<>> /\ executed = <<>>

RunCmdWire == running /\ \E r \in {Resp!parse(rx_buffer)} : AnswersCommand(r) \/ AnswersError(r)
Next ==
    \/ \E cmd \in session.direct : running /\ RunCmdDirect(cmd)
    \/ \E cmd \in session.wire : running /\ Send(cmd)
    \/ running /\ SendInline
    \/ running /\ Receive
    \/ RunCmdWire
Spec == Init /\ [][Next]_vars

\* Bytes that were sent arrive, and the server looks at what it has.
FairSpec == Spec /\ WF_vars(running /\ Receive) /\ WF_vars(RunCmdWire)

-----------------------------------------------------------------------------
(* Properties.                                                             *)

\* The variables have their types; while the process runs, each hash's tree holds just the fields
\* that have values, in order, and numbers in strings fit int64_t.
TypeOK ==
    /\ running \in BOOLEAN
    /\ \A k \in DOMAIN memtable : LET o == memtable[k] IN
          /\ Type(o) \in {"STRING", "HASH", "SORTED_SET", "LIST"}
          /\ running /\ Type(o) = "HASH" => LET fields == TreeInOrder(Val(o).tree) IN
                /\ ToSet(fields) = DOMAIN Val(o).vals
                /\ \A i \in 2 .. Len(fields) : fields[i - 1] < fields[i]
    /\ Name(reply.cmd) = "INCRBY" /\ reply.status = "SUCCESS" => reply.val[2] \in Int64
    /\ Len(executed) <= Len(sent)

\* Every command a client sends over a connection is in the end executed, once, in order and as
\* it was meant, however the bytes were cut on the way and whatever bytes its values hold: the
\* parser asks for more until a command is whole and takes not a byte of the next one.
CommandsAnswered == <>[](session.inline \/ ~running \/ executed = sent)

Failures == {"INVALID_ARGS", "WRAP_OBJ_ERROR", "RUNTIME_ERROR", "THROWS"}
TheName == Name(reply'.cmd)
TheKey  == KeyOf(reply'.cmd)
Args    == reply'.cmd.args
Found   == TheKey \in DOMAIN memtable

\* Where ZADD's arguments before the first score that is no number have a score.
Parsed(args) == {i \in 1 .. Len(args) : i % 2 = 0 /\ \A j \in 1 .. i : j % 2 = 0 => IsNum(args[j])}

\* Those pairs are in the set, each member under its last score, and what else was in it.
KeepsParsed(old, new, args) ==
    LET pairs(m) == {i \in Parsed(args) : args[i + 1] = m}
    IN  /\ DOMAIN new = DOMAIN old \cup {args[i + 1] : i \in Parsed(args)}
        /\ \A m \in DOMAIN new : new[m] = IF pairs(m) = {} THEN old[m] ELSE Num(args[Max(pairs(m))])

\* What a reply says of the data.  A failed command leaves every object as it was, except that
\* ZADD keeps the pairs before the score it cannot parse, and that INCRBY, ZADD and ZINCRBY leave
\* an empty object under a key that had none.  A count that ZREM replies is that of its arguments:
\* only those that were members are gone.
RepliesTellChange ==
    [][/\ reply'.status \in Failures =>
             \/ memtable' = memtable
             \/ /\ DOMAIN memtable' = DOMAIN memtable \cup {TheKey}
                /\ \A k \in DOMAIN memtable \ {TheKey} : memtable'[k] = memtable[k]
                /\ \/ TheName \in {"INCRBY", "ZINCRBY"} /\ ~Found /\ memtable'[TheKey] = New(TypeOf(TheName))
                   \/ /\ TheName = "ZADD" /\ Type(memtable'[TheKey]) = "SORTED_SET"
                      /\ KeepsParsed(IF Found THEN Val(memtable[TheKey]) ELSE Val(NewZset),
                                     Val(memtable'[TheKey]), Args)
       /\ TheName = "ZREM" /\ reply'.status = "SUCCESS" /\ reply'.val # Integer(0) =>
             /\ reply'.val = Integer(Len(Args) - 1)
             /\ DOMAIN Val(memtable'[TheKey]) = DOMAIN Val(memtable[TheKey]) \ ToSet(Tail(Args))
      ]_<<memtable, reply>>

\* A command on an object of another type than its own leaves it alone, SET excepted, and fails,
\* except that ZADD and ZREM reply zero as if they had found nothing to do.
TypesKept ==
    [][\/ reply'.status = "INVALID_ARGS" \/ TheName \notin Commands
       \/ ~Found \/ Type(memtable[TheKey]) = TypeOf(TheName)
       \/ TheName = "SET"
       \/ /\ memtable' = memtable
          /\ \/ reply'.status \in Failures
             \/ TheName \in {"ZADD", "ZREM"} /\ reply'.val = Integer(0)]_<<memtable, reply>>

\* What ends the process: HSET, HGET and LLEN on an object of another type, HGET of a field that is
\* not there, and the deletion of a field in the hash's tree.  As long as the tree is in balance that
\* is never the deletion of its least field: as insertions keep the balance, and deletions of the
\* least field do, some other field was deleted before.  HSET and HMSET insert even into a tree out
\* of balance.
ExceptionsEscape ==
    [][running /\ ~running' =>
         LET o == memtable[TheKey]
             field == Num(Args[2])
         IN  \/ TheName \in {"HSET", "HGET", "LLEN"} /\ Found /\ Type(o) # TypeOf(TheName)
             \/ TheName = "HGET" /\ Type(o) = "HASH" /\ field \notin DOMAIN Val(o).vals
             \/ /\ TheName = "HDEL" /\ Type(o) = "HASH" /\ field \in DOMAIN Val(o).vals
                /\ TreeCorrect(Val(o).tree) => \E f \in DOMAIN Val(o).vals : f < field]_vars
=============================================================================
