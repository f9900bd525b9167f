---------------------------- MODULE MCUartDriver ----------------------------
(* Small instances of UartDriver.                                          *)
EXTENDS UartDriver

=============================================================================
