------------------------------ MODULE MCDevices ------------------------------
(***************************************************************************)
(* Devices for TLC.  SD card: a byte-addressed and a block-addressed card, *)
(* and one that the driver rejects.  Timers: a counter whose low half runs *)
(* over every four ticks, a PIT that reloads after eight and ticks six     *)
(* times in five microseconds.  Serial ports: FIFOs of two bytes, a rate   *)
(* both ports can have and two that the PL011 cannot and that overflow the *)
(* 16550's arithmetic, to zero and to a smaller rate.                      *)
(***************************************************************************)
EXTENDS Devices

MCCards == {[id |-> 1, family |-> "SDv2", addressing |-> "block"],
            [id |-> 2, family |-> "MMC", addressing |-> "byte"],
            [id |-> 3, family |-> "SDv1", addressing |-> "unknown"]}
MCTexts == {<<"\n">>}
MCConfigs == {[eight_n1 |-> TRUE, baud_rate |-> r] : r \in {3, 16, 17}}
=============================================================================
