-------------------------- MODULE MCFlexVolumeTest --------------------------
(* Driver calls: init alone and with an extra argument, every supported   *)
(* command with its argument count and with a wrong one, and a command    *)
(* the script does not know.                                               *)
EXTENDS FlexVolumeTest

MCCalls == {<<"init">>, <<"init", "arg">>, <<"attach", "arg">>, <<"attach">>,
            <<"detach", "arg">>, <<"isattached", "arg">>,
            <<"getvolumename", "arg", "arg", "arg">>,
            <<"getvolumename", "arg", "arg">>, <<"mountdevice", "arg", "arg">>}
=============================================================================
