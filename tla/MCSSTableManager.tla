--------------------------- MODULE MCSSTableManager ---------------------------
EXTENDS SSTableManager

\* Regions of up to 20 zones, with every order of min_zone and max_zone.
MCZones == 0 .. 20

MCMinSSZones == 2

\* The shape of tropodb_config_default.h (L0_zones = 100, min_ss_zone_count
\* = 5, level_count = 6, lower_concurrency = 1), scaled down: L0 takes more
\* zones than the validation leaves to it.
MCDefaultL0Zones == 10
MCDefaultLevelCount == 3
MCDefaultLanes == 1
=============================================================================
