------------------------------ MODULE Writables ------------------------------
(***************************************************************************)
(* The wire format of Writable.cpp, IntWritable.cpp and MethodWritable.cpp.*)
(*                                                                         *)
(* A stream is a sequence of the fields that were written to it: an int, a *)
(* string (its int length and its characters), a size_t or the bytes of a  *)
(* value.  The stream itself carries no tags: a reader that meets another  *)
(* field than the one it expects has lost its place, and what it makes of  *)
(* the bytes from there on is left open.                                   *)
(***************************************************************************)
EXTENDS IntWritable, Sequences, SequencesExt

Int32(v)  == [class |-> "IntWritable", value |-> v]
Blank     == [class |-> "Writable"]
MethodOf(name, method, params) ==
    [class |-> "MethodWritable", name |-> name, method |-> method, params |-> params]

-----------------------------------------------------------------------------
(* Writing.                                                                *)

(* writeString writes nothing at all for the empty string.                 *)
writeString(s) == IF s = "" THEN <<>> ELSE <<[string |-> s]>>

(* The length and the bytes of an IntWritable: its write(), and a result   *)
(* as Call::setValue and Connection::processResponse send it.              *)
writeInt(v) == <<[size |-> 4], [bytes |-> IntBytes(v)]>>

RECURSIVE write(_)

(* MethodWritable::write.                                                  *)
writeMethod(w) ==
    writeString(w.name) \o writeString(w.method) \o <<[size |-> Len(w.params)]>>
    \o FlattenSeq([i \in DOMAIN w.params |->
                      writeString(w.params[i].class) \o write(w.params[i])])

(* The virtual write() of a Writable; the base class writes nothing.       *)
write(w) ==
    CASE w.class = "IntWritable"    -> writeInt(w.value)
      [] w.class = "MethodWritable" -> writeMethod(w)
      [] OTHER                      -> <<>>

-----------------------------------------------------------------------------
(* Reading: from a stream, what was read and what is left, or why not.     *)

Ok(value, rest) == [st |-> "ok", value |-> value, rest |-> rest]
More == [st |-> "more"]     \* the read waits for bytes to come
Lost == [st |-> "lost"]     \* the next field is not the one expected

(* Go on with Op if the read r was good (x is r, evaluated once).          *)
Then(r, Op(_, _)) ==
    CHOOSE y \in {IF x.st = "ok" THEN Op(x.value, x.rest) ELSE x : x \in {r}} : TRUE

(* One boost::asio::read of a field.                                       *)
ReadField(kind, s) ==
    CASE s = <<>>                  -> More
      [] DOMAIN Head(s) = {kind}   -> Ok(Head(s)[kind], Tail(s))
      [] OTHER                     -> Lost

readString(s) == ReadField("string", s)

readInt(s) ==
    Then(ReadField("size", s), LAMBDA n, t :
    Then(ReadField("bytes", t), LAMBDA b, u : Ok(Int32(IntOfBytes(b)), u)))

RECURSIVE readFields(_, _)
RECURSIVE readParams(_, _, _)

(* n parameters, each after its class name, appended to those in params.   *)
readParams(n, params, s) ==
    IF n = 0 THEN Ok(params, s)
    ELSE Then(readString(s), LAMBDA class, t :
         Then(readFields(class, t), LAMBDA w, u :
         readParams(n - 1, Append(params, w), u)))

(* MethodWritable::readFields, and Call::read after the call's id.         *)
readMethod(s) ==
    Then(readString(s), LAMBDA name, t :
    Then(readString(t), LAMBDA method, u :
    Then(ReadField("size", u), LAMBDA n, v :
    Then(readParams(n, <<>>, v), LAMBDA params, w :
         Ok(MethodOf(name, method, params), w)))))

(* Mutant: getNewInstance does not know MethodWritable.                    *)
Mut_readFields(class, s) ==
    IF class = "IntWritable" THEN readInt(s) ELSE Ok(Blank, s)

(* Method::getNewInstance and the readFields of the instance; the base     *)
(* class, which any other name gets, reads nothing.                        *)
readFields(class, s) ==
    CASE class = "IntWritable"    -> readInt(s)
      [] class = "MethodWritable" -> readMethod(s)
      [] OTHER                    -> Ok(Blank, s)

-----------------------------------------------------------------------------
(* References the format is checked against: what a Writable should be     *)
(* when it arrives, and which ones have all their names.                   *)

RECURSIVE Arrives(_)
Arrives(w) ==
    CASE w.class = "IntWritable"    -> Int32(Received(w.value))
      [] w.class = "MethodWritable" ->
            [w EXCEPT !.params = [i \in DOMAIN @ |-> Arrives(@[i])]]
      [] OTHER                      -> w

RECURSIVE Named(_)
Named(w) ==
    w.class = "MethodWritable" =>
        /\ w.name # "" /\ w.method # ""
        /\ \A i \in DOMAIN w.params : Named(w.params[i])
=============================================================================
