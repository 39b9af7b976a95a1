------------------------------ MODULE MCSession ------------------------------
(* Small instances of Session for TLC.                                       *)
EXTENDS Session

FS(params, class) == [call |-> MethodOf("FSNameSystem", "create", params),
                      valueClass |-> class]

(* Sums inside and outside a char from ints inside and outside it, nested    *)
(* and blank parameters, and every way to go wrong.                          *)
MCRequests == {
    DataNodeProtocol_create(200, -300, 228, -1),
    DataNodeProtocol_create(100, 27, 1, 0),
    FS(<<Int32(10), Int32(-129)>>, "IntWritable"),
    FS(<<MethodOf("NameNode", "create", <<Int32(65536)>>), Int32(1)>>, "IntWritable"),
    FS(<<Blank, Int32(1)>>, "IntWritable"),
    FS(<<Int32(10)>>, "Writable"),
    FS(<<Int32(10)>>, "MethodWritable"),
    FS(<<MethodOf("NameNode", "", <<Int32(1)>>)>>, "IntWritable"),
    [call |-> MethodOf("", "create", <<Int32(1)>>), valueClass |-> "IntWritable"],
    [call |-> MethodOf("NameNode", "remove", <<Int32(1)>>), valueClass |-> "IntWritable"],
    [call |-> MethodOf("NameNode", "create", <<Int32(1), Int32(2)>>),
     valueClass |-> "IntWritable"] }
=============================================================================
