----------------------------- MODULE MCStm32Can -----------------------------
(***************************************************************************)
(* Two devices whose ids differ in one bit, a command and two replies; the *)
(* other frames are a remote-request UNLOCK for the first device, which    *)
(* the filter lets through, and a frame with that device's bits but a      *)
(* standard identifier.                                                    *)
(***************************************************************************)
EXTENDS Stm32Can

MCDevices  == {{0}, {0, 4}}
MCCommands == {"SEEK"}
MCReplies  == {"UNLOCKED", "WRITES_CHECKED"}
MCPayloads == {<<0>>}
MCOthers   == {CommandId("UNLOCK", {0}) \cup {RTR},
               CommandId("UNLOCK", {0}) \ {IDE}}
=============================================================================
