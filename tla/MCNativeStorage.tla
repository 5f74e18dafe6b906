-------------------------- MODULE MCNativeStorage --------------------------
(* NativeStorage on a few contracts at one or two blocks. *)
EXTENDS NativeStorage

CONSTANTS a, b

TwoContracts == {<<1, a>>, <<1, b>>}
TwoBlocks == {<<1, a>>, <<1, b>>, <<2, a>>}
=============================================================================
