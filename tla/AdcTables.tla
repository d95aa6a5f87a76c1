----------------------------- MODULE AdcTables -----------------------------
(***************************************************************************)
(* How app_adc_mon.c turns a mean of the ADC into a temperature and into a *)
(* percentage: integer arithmetic over two tables, with what it drops.     *)
(* ChargeGuard and BatteryGauge take the results as they come; here the    *)
(* mean of a window goes through everything the ADC can deliver.           *)
(***************************************************************************)
EXTENDS Integers, Sequences

VARIABLE mv   \* the mean of a window in millivolts

\* Resistances of the sensor in units of 10 ohms, at -30, -29 ... 125 degrees
g_ntc_table == <<
    11952, 11330, 10745, 10193, 9673, 9183, 8721, 8285, 7873, 7485, 7118,
    6771, 6443, 6133, 5840, 5562, 5300, 5051, 4816, 4593, 4381, 4181, 3991,
    3811, 3640, 3477, 3323, 3177, 3038, 2905, 2780, 2660, 2546, 2438, 2335,
    2237, 2144, 2055, 1970, 1890, 1813, 1739, 1669, 1602, 1539, 1478, 1420,
    1364, 1311, 1261, 1212, 1166, 1122, 1079, 1039, 1000, 963, 927, 893,
    861, 830, 800, 771, 743, 717, 692, 667, 644, 622, 600, 580, 560, 541,
    523, 505, 488, 472, 457, 442, 427, 413, 400, 387, 375, 363, 351, 340,
    330, 319, 309, 300, 291, 282, 273, 265, 257, 249, 242, 235, 228, 221,
    215, 209, 203, 197, 191, 186, 180, 175, 170, 166, 161, 157, 152, 148,
    144, 140, 137, 133, 129, 126, 123, 119, 116, 113, 110, 107, 105, 102,
    99, 97, 95, 92, 90, 88, 85, 83, 81, 79, 77, 76, 74, 72, 70, 69, 67, 65,
    64, 62, 61, 60, 59, 57, 56, 54, 53 >>

Coldest == -30
Hottest == 125

\* Voltages and percentages of the battery
g_bat_table == <<
    <<4200, 100>>, <<4150, 95>>, <<4100, 90>>, <<4060, 85>>, <<4020, 80>>,
    <<3980, 75>>, <<3950, 70>>, <<3920, 65>>, <<3890, 60>>, <<3860, 55>>,
    <<3840, 50>>, <<3820, 45>>, <<3800, 40>>, <<3780, 35>>, <<3760, 30>>,
    <<3740, 25>>, <<3710, 20>>, <<3670, 15>>, <<3630, 10>>, <<3580, 8>>,
    <<3500, 5>>, <<3400, 3>>, <<3200, 1>>, <<3000, 0>> >>

\* The sensor and a resistor of 1000 units share 3.3 V; a resistance has 16 bits.
Resistance(v) == LET r10 == (1000 * v) \div (3300 - v)
                 IN IF r10 > 65535 THEN 65535 ELSE r10

\* The cell through its divider, with the 130 mV the code adds
CellVoltage(v) == (v * 66 + 5) \div 10 + 130

\* The first pair of neighbours that the value lies between
Pair(table, value) ==
    CHOOSE i \in 1..(Len(table) - 1) :
        /\ table[i] >= value /\ value >= table[i + 1]
        /\ \A j \in 1..(i - 1) : table[j + 1] > value

\* Mutant: a resistance of the table counts as the next warmer degree.
ntc_temp_from_res_10ohm_warmer(r) ==
    IF r >= g_ntc_table[1] THEN Coldest
    ELSE IF r <= g_ntc_table[Len(g_ntc_table)] THEN Hottest
    ELSE LET i  == Pair(g_ntc_table, r)
             dr == g_ntc_table[i] - g_ntc_table[i + 1]
         IN Coldest + (i - 1) + (g_ntc_table[i] - r + dr - 1) \div dr

ntc_temp_from_res_10ohm(r) ==
    IF r >= g_ntc_table[1] THEN Coldest
    ELSE IF r <= g_ntc_table[Len(g_ntc_table)] THEN Hottest
    ELSE LET i  == Pair(g_ntc_table, r)
             dr == g_ntc_table[i] - g_ntc_table[i + 1]
         IN Coldest + (i - 1) + (g_ntc_table[i] - r) \div dr

\* Mutant: the quotient is rounded off.
bat_percent_from_mv_down(cell) ==
    LET mvs == [i \in DOMAIN g_bat_table |-> g_bat_table[i][1]]
        percent(i) == g_bat_table[i][2]
        last == Len(g_bat_table)
    IN IF cell >= mvs[1] THEN percent(1)
       ELSE IF cell <= mvs[last] THEN percent(last)
       ELSE LET i     == Pair(mvs, cell)
                d     == mvs[i] - mvs[i + 1]
                delta == (percent(i) - percent(i + 1)) * (mvs[i] - cell)
            IN percent(i) - delta \div d

bat_percent_from_mv(cell) ==
    LET mvs == [i \in DOMAIN g_bat_table |-> g_bat_table[i][1]]
        percent(i) == g_bat_table[i][2]
        last == Len(g_bat_table)
    IN IF cell >= mvs[1] THEN percent(1)
       ELSE IF cell <= mvs[last] THEN percent(last)
       ELSE LET i     == Pair(mvs, cell)
                d     == mvs[i] - mvs[i + 1]
                delta == (percent(i) - percent(i + 1)) * (mvs[i] - cell)
            IN percent(i) - (delta + d \div 2) \div d

\* The reference voltage, less one: 3300 would be no valid temperature.
LastMv == 3299

Sweep == mv' = (mv + 1) % (LastMv + 1)

SweepInit == mv = 0

SweepSpec == SweepInit /\ [][Sweep]_mv

---------------------------------------------------------------------------
\* Properties

\* Whatever the ADC delivers, the reading is the full degree that the sensor has
\* reached: between two entries never the warmer one, so that a threshold is
\* crossed at its entry of the table and nowhere else (app_adc_mon.c:211-233,
\* 447-453).
TemperatureIsReached ==
    mv > 0 => LET r == Resistance(mv) t == ntc_temp_from_res_10ohm(r) IN
              /\ t \in Coldest..Hottest
              /\ t > Coldest => r <= g_ntc_table[t - Coldest + 1]
              /\ t < Hottest => r > g_ntc_table[t - Coldest + 2]

\* More voltage never reads as less charge, over the whole range of the ADC, and
\* no reading is off the line between its neighbours by more than half a percent
\* (app_adc_mon.c:237-260, 458).
ChargeIsRounded ==
    LET cell == CellVoltage(mv) p == bat_percent_from_mv(cell) IN
    /\ p \in 0..100 /\ p <= bat_percent_from_mv(CellVoltage(mv + 1))
    /\ \A i \in 1..(Len(g_bat_table) - 1) :
         LET hi == g_bat_table[i] lo == g_bat_table[i + 1] d == hi[1] - lo[1] IN
         cell \in lo[1]..hi[1] =>
           LET off == (p - lo[2]) * d - (hi[2] - lo[2]) * (cell - lo[1])
           IN 2 * off <= d /\ 2 * off >= -d
===========================================================================
