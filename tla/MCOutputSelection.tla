------------------------- MODULE MCOutputSelection -------------------------
(* A primary and a deep-buffer mixed profile, an HDMI direct profile for   *)
(* multichannel and compressed audio, and a speaker offload profile.       *)
(* MCProfiles also lets the primary output reach HDMI; in                  *)
(* MCProfilesDirectOnly only the direct profile reaches HDMI.              *)
EXTENDS OutputSelection

CONSTANTS spk, hdmi, s1, s2

Primary(devs) == [flags |-> {"primary"}, devices |-> devs, configs |-> {"pcm"},
                  format |-> 2, maxOpen |-> 1]
Deep == [flags |-> {"deep"}, devices |-> {spk}, configs |-> {"pcm"}, format |-> 4, maxOpen |-> 1]
HdmiDirect == [flags |-> {"direct"}, devices |-> {hdmi}, configs |-> {"hires", "compressed"},
               format |-> 4, maxOpen |-> 1]
Offload == [flags |-> {"direct", "offload"}, devices |-> {spk}, configs |-> {"compressed"},
            format |-> 0, maxOpen |-> 1]

MCProfiles == <<Primary({spk, hdmi}), Deep, HdmiDirect, Offload>>
MCProfilesDirectOnly == <<Primary({spk}), Deep, HdmiDirect, Offload>>
MCInitOpen == <<1, 2>>
MCRequests == {[flags |-> {}, config |-> "pcm"], [flags |-> {"deep"}, config |-> "pcm"],
               [flags |-> {}, config |-> "hires"], [flags |-> {"direct"}, config |-> "hires"],
               [flags |-> {"offload"}, config |-> "compressed"]}
=============================================================================
