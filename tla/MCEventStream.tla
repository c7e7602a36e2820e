------------------------ MODULE MCEventStream -----------------------
(* Constants for TLC: the external call after one computed step, and    *)
(* the external call alone.                                             *)
EXTENDS EventStream

ShortGraph == [ocr |-> {}, external_call |-> {"ocr"}]
ShortInputs == ShortGraph

CallGraph == [external_call |-> {}]
CallInputs == CallGraph

====
