------------------------------ MODULE MCSdDriver -------------------------------
(* Values for the constants of SdDriver: a board with CRC whose clock is too *)
(* fast at first and a plain one, or one with CRC and a clock in its range.  *)
EXTENDS SdDriver

MCBoards == {[enable_crc |-> TRUE, fast |-> TRUE], [enable_crc |-> FALSE, fast |-> FALSE]}
MCCrcBoard == {[enable_crc |-> TRUE, fast |-> FALSE]}
================================================================================
