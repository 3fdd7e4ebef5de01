------------------------------ MODULE MCAvrCan ------------------------------
(***************************************************************************)
(* Two devices whose ids differ in one bit, a command, two replies, and    *)
(* frames of up to one byte.  Of the filters nobody sets, those of RXB1    *)
(* let everything through on the first device and nothing on the second,   *)
(* and filter 1 lets nothing through on the first, and a reply of the      *)
(* first device on the second.                                             *)
(***************************************************************************)
EXTENDS AvrCan

MCDevices  == {{0}, {0, 4}}
MCRXF1     == [d \in MCDevices |->
                 IF d = {0} THEN PutEID({}) ELSE PutEID(ReplyId("UNLOCKED", {0}))]
MCSecond   == [d \in MCDevices |->
                 IF d = {0} THEN UNION {CommandRegs[e] \cup ReplyRegs[e] : e \in MCDevices}
                            ELSE {}]
MCMisread  == {CommandId("COMMIT_WRITES", {0})}
MCCommands == {"SEEK"}
MCReplies  == {"UNLOCKED", "PROG_DONE_ACK"}
MCPayloads == {<<>>}
=============================================================================
