------------------------------- MODULE MCUart -------------------------------
(* Uart with events whose bytes include the header bytes.                  *)
EXTENDS Uart

\* CKBT51_CONNECTED (32) to two hosts and CKBT51_DISCONNECTED (35).
MCConnections == {<<32, 1>>, <<35, 2>>}
\* An acknowledgement of a report, and a battery event whose voltage is the header.
MCOthers == {<<161, 18, 0>>, <<181, 1, 170, 87>>}
MCNoise == {0, 1, 2, 6, 32, 35, 87, 170, 179, 255}
=============================================================================
