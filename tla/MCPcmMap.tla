-------------------------------- MODULE MCPcmMap --------------------------------
EXTENDS PcmMap

\* the layouts of FFmpeg with up to 8 channels, and every input of at most three channels
Usual == {{"FC"}, {"FL", "FR"}, {"FL", "FR", "LFE"}, {"FL", "FR", "FC"}, {"FL", "FR", "BC"},
          {"FL", "FR", "FC", "BC"}, {"FL", "FR", "BL", "BR"}, {"FL", "FR", "SL", "SR"}}
    \cup {{"FL", "FR", "FC"} \cup s : s \in {{"BL", "BR"}, {"SL", "SR"}, {"BL", "BR", "LFE"}, {"SL", "SR", "LFE"},
          {"SL", "SR", "BC"}, {"SL", "SR", "BC", "LFE"}, {"SL", "SR", "BL", "BR"}, {"SL", "SR", "FLOC", "FROC"},
          {"SL", "SR", "FLOC", "FROC", "LFE"}, {"BL", "BR", "FLOC", "FROC", "LFE"}, {"BL", "BR", "BC"}}}
SevenOne == {{"FL", "FR", "FC", "LFE", "BL", "BR", "SL", "SR"}}
AllMaps == Usual \cup SevenOne \cup UNION {kSubset(k, Channels) : k \in 1..3}
================================================================================
