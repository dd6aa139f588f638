---------------------------- MODULE MCAlgorithms ----------------------------
EXTENDS Algorithms

MCKeys == 1 .. 7
\* The shape of the tree does not depend on the values: one key has several.
MCTreeVals == [k \in MCKeys |-> IF k = 2 THEN {1, 2} ELSE {1}]
MCHashKeyset == 1 .. 5
MCHashOf == <<32832, 32832, 32832, 32832, 2>>
MCByteKeys == <<<<1>>, <<1, 1>>, <<1, 1, 2>>, <<1, 2>>, <<2>>, <<2, 1, 1>>, <<2, 1, 2>>, <<2, 2>>>>

MCBlobs == {<<1>>, <<2, 3>>}
MCInts == {0, 127, 128, 255, 256, 2^14, 2^16 - 1, 2^16, 2^24}

Bytes(n) == [i \in 1 .. n |-> i]
Field(id, n) == [id |-> id, data |-> Bytes(n)]
MCMessages ==
  {[type |-> type, req |-> req, isreq |-> 1, fields |-> fields] :
     type \in {10, 300}, req \in {0, 2^16},
     fields \in {<<>>, <<Field(0, 1), Field(13, 8)>>, <<Field(14, 9), Field(300, 2)>>,
                 <<Field(1, 3), Field(2, 0)>>, <<Field(255, 4), Field(256, 300)>>}}
=============================================================================
