------------------------- MODULE MCSurroundFormats -------------------------
(* Two HDMI sinks and one HDMI input.  The first sink reports PCM, AC3 and *)
(* AAC with its HE sub-format, the second PCM, E-AC3 and DTS.  The         *)
(* surround configuration is the default one without the formats no sink  *)
(* reports; AAC carries its sub-format.                                    *)
EXTENDS SurroundFormats

CONSTANTS tv, avr, arc

MCSurroundConfig == [f \in {"AC3", "E_AC3", "DTS", "DTS_HD", "AAC_LC"} |->
                        IF f = "AAC_LC" THEN {"AAC_HE_V1"} ELSE {}]
MCEdid == [d \in {tv, avr} |->
              IF d = tv THEN {"PCM", "AC3", "AAC_LC", "AAC_HE_V1"} ELSE {"PCM", "E_AC3", "DTS"}]
MCFormats == {"PCM", "AC3", "DTS", "AAC_LC"}
=============================================================================
