-------------------------- MODULE MCRemoteCommand --------------------------
(* Instances of RemoteCommand for TLC: every call of up to MaxOutput units of
   each stream and MaxInput units of input, with a window that the larger
   outputs fill and a stdin window that the larger inputs fill. *)
EXTENDS RemoteCommand

CONSTANTS MaxOutput, MaxInput

MCCalls ==
    {c \in [out : 0..MaxOutput, err : 0..MaxOutput, reads : BOOLEAN,
            status : {"ok", "failed"}, style : Styles,
            input : 0..MaxInput, ioTimeout : BOOLEAN] :
        /\ c.style = "wget" => c.input = 0
        /\ c.style # "run" => ~ c.ioTimeout}

=============================================================================
