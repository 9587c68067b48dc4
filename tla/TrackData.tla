----------------------------- MODULE TrackData -----------------------------
(***************************************************************************)
(* The two tracks the train programs are run on, row by row from the       *)
(* generated tables.  A node's place in the whole sequence, less one, is   *)
(* its index in the array; places in edges are such indices, distances     *)
(* are millimetres.  An edge's own src and reverse fields, which no        *)
(* program reads, are left out, and so are the names.                      *)
(***************************************************************************)
EXTENDS Integers, Sequences

TRACK_MAX == 144

Edge(dest, mm) == [dest |-> dest, dist |-> mm]

Node(type, num, reverse, edges) ==
    [type |-> type, num |-> num, reverse |-> reverse, edge |-> edges]

S(num, reverse, dest, mm) == Node("sensor", num, reverse, <<Edge(dest, mm)>>)
M(num, reverse, dest, mm) == Node("merge", num, reverse, <<Edge(dest, mm)>>)
N(reverse, dest, mm)      == Node("enter", 0, reverse, <<Edge(dest, mm)>>)
X(reverse)                  == Node("exit", 0, reverse, <<>>)

\* A switch: straight ahead, then curved.
B(num, reverse, dest, mm, curved, far) ==
    Node("branch", num, reverse, <<Edge(dest, mm), Edge(curved, far)>>)

\* What memset() leaves in the places a track does not use.
Unused == Node("none", 0, 0, <<>>)

-----------------------------------------------------------------------------
TrackA_SensorsA == <<
    S(0, 1, 103, 231), S(1, 0, 133, 504), S(2, 3, 106, 43),
    S(3, 2, 31, 437), S(4, 5, 85, 231), S(5, 4, 25, 642),
    S(6, 7, 27, 470), S(7, 6, 83, 229), S(8, 9, 23, 289),
    S(9, 8, 81, 229), S(10, 11, 81, 518), S(11, 10, 139, 43),
    S(12, 13, 87, 236), S(13, 12, 131, 325), S(14, 15, 135, 144),
    S(15, 14, 87, 417) >>

TrackA_SensorsB == <<
    S(16, 17, 61, 404), S(17, 16, 111, 231), S(18, 19, 33, 201),
    S(19, 18, 111, 239), S(20, 21, 50, 404), S(21, 20, 105, 231),
    S(22, 23, 9, 289), S(23, 22, 137, 43), S(24, 25, 4, 642),
    S(25, 24, 141, 50), S(26, 27, 7, 470), S(27, 26, 143, 50),
    S(28, 29, 119, 239), S(29, 28, 63, 201), S(30, 31, 2, 437),
    S(31, 30, 108, 50) >>

TrackA_SensorsC == <<
    S(32, 33, 19, 201), S(33, 32, 117, 246), S(34, 35, 129, 514),
    S(35, 34, 89, 239), S(36, 37, 90, 61), S(37, 36, 109, 433),
    S(38, 39, 115, 231), S(39, 38, 84, 128), S(40, 41, 109, 326),
    S(41, 40, 110, 128), S(42, 43, 104, 120), S(43, 42, 107, 333),
    S(44, 45, 70, 875), S(45, 44, 100, 43), S(46, 47, 59, 404),
    S(47, 46, 91, 239) >>

TrackA_SensorsD == <<
    S(48, 49, 121, 246), S(49, 48, 67, 201), S(50, 51, 99, 239),
    S(51, 50, 21, 404), S(52, 53, 69, 376), S(53, 52, 97, 239),
    S(54, 55, 97, 309), S(55, 54, 71, 384), S(56, 57, 75, 369),
    S(57, 56, 95, 316), S(58, 59, 47, 404), S(59, 58, 93, 231),
    S(60, 61, 17, 404), S(61, 60, 113, 239), S(62, 63, 28, 201),
    S(63, 62, 113, 246) >>

TrackA_SensorsE == <<
    S(64, 65, 123, 239), S(65, 64, 78, 201), S(66, 67, 48, 201),
    S(67, 66, 99, 239), S(68, 69, 53, 376), S(69, 68, 98, 50),
    S(70, 71, 54, 384), S(71, 70, 45, 875), S(72, 73, 95, 239),
    S(73, 72, 76, 376), S(74, 75, 57, 369), S(75, 74, 92, 50),
    S(76, 77, 112, 43), S(77, 76, 72, 376), S(78, 79, 105, 246),
    S(79, 78, 64, 201) >>

TrackA_Switches1to7 == <<
    B(1, 81, 11, 518, 8, 229), M(1, 80, 83, 188),
    B(2, 83, 80, 188, 6, 229), M(2, 82, 85, 185),
    B(3, 85, 5, 231, 82, 185), M(3, 84, 38, 128),
    B(4, 87, 14, 417, 13, 236), M(4, 86, 103, 185),
    B(5, 89, 34, 239, 93, 371), M(5, 88, 114, 155),
    B(6, 91, 46, 239, 115, 371), M(6, 90, 37, 61),
    B(7, 93, 58, 231, 89, 371), M(7, 92, 74, 50) >>

TrackA_Switches8to14 == <<
    B(8, 95, 56, 316, 73, 239), M(8, 94, 96, 155),
    B(9, 97, 55, 309, 52, 239), M(9, 96, 94, 155),
    B(10, 99, 51, 239, 66, 239), M(10, 98, 68, 50),
    B(11, 101, 102, 188, 107, 495), M(11, 100, 44, 43),
    B(12, 103, 1, 231, 86, 185), M(12, 102, 101, 188),
    B(13, 105, 20, 231, 79, 246), M(13, 104, 43, 120),
    B(14, 107, 101, 495, 42, 333), M(14, 106, 3, 43) >>

TrackA_Switches15to18 == <<
    B(15, 109, 36, 433, 41, 326), M(15, 108, 30, 50),
    B(16, 111, 16, 231, 18, 239), M(16, 110, 40, 128),
    B(17, 113, 60, 239, 62, 246), M(17, 112, 77, 43),
    B(18, 115, 39, 231, 91, 371), M(18, 114, 88, 155) >>

TrackA_Switches153to156 == <<
    B(153, 117, 125, 253, 32, 246), M(153, 116, 119, 0),
    B(154, 119, 116, 0, 29, 239), M(154, 118, 122, 0),
    B(155, 121, 127, 282, 49, 246), M(155, 120, 123, 0),
    B(156, 123, 120, 0, 65, 239), M(156, 122, 118, 0) >>

TrackA_Ends == <<
    N(125, 117, 253), X(124), N(127, 121, 282), X(126),
    N(129, 35, 514), X(128), N(131, 12, 325), X(130),
    N(133, 0, 504), X(132), N(135, 15, 144), X(134),
    N(137, 22, 43), X(136), N(139, 10, 43), X(138),
    N(141, 24, 50), X(140), N(143, 26, 50), X(142) >>

TrackA ==
    TrackA_SensorsA \o TrackA_SensorsB \o TrackA_SensorsC \o TrackA_SensorsD
    \o TrackA_SensorsE \o TrackA_Switches1to7 \o TrackA_Switches8to14 \o TrackA_Switches15to18
    \o TrackA_Switches153to156 \o TrackA_Ends

-----------------------------------------------------------------------------
TrackB_SensorsA == <<
    S(0, 1, 103, 231), S(1, 0, 133, 504), S(2, 3, 106, 43),
    S(3, 2, 31, 437), S(4, 5, 85, 231), S(5, 4, 25, 642),
    S(6, 7, 27, 470), S(7, 6, 83, 229), S(8, 9, 23, 289),
    S(9, 8, 81, 229), S(10, 11, 81, 282), S(11, 10, 15, 814),
    S(12, 13, 87, 236), S(13, 12, 131, 325), S(14, 15, 10, 814),
    S(15, 14, 87, 275) >>

TrackB_SensorsB == <<
    S(16, 17, 61, 404), S(17, 16, 111, 231), S(18, 19, 33, 201),
    S(19, 18, 111, 239), S(20, 21, 50, 404), S(21, 20, 105, 231),
    S(22, 23, 9, 289), S(23, 22, 135, 43), S(24, 25, 4, 642),
    S(25, 24, 137, 50), S(26, 27, 7, 470), S(27, 26, 139, 50),
    S(28, 29, 119, 239), S(29, 28, 63, 201), S(30, 31, 2, 437),
    S(31, 30, 108, 50) >>

TrackB_SensorsC == <<
    S(32, 33, 19, 201), S(33, 32, 117, 246), S(34, 35, 129, 514),
    S(35, 34, 89, 239), S(36, 37, 90, 61), S(37, 36, 109, 433),
    S(38, 39, 115, 231), S(39, 38, 84, 128), S(40, 41, 109, 326),
    S(41, 40, 110, 128), S(42, 43, 104, 120), S(43, 42, 107, 333),
    S(44, 45, 70, 780), S(45, 44, 100, 50), S(46, 47, 59, 404),
    S(47, 46, 91, 239) >>

TrackB_SensorsD == <<
    S(48, 49, 121, 246), S(49, 48, 67, 201), S(50, 51, 99, 239),
    S(51, 50, 21, 404), S(52, 53, 69, 282), S(53, 52, 97, 229),
    S(54, 55, 97, 309), S(55, 54, 71, 376), S(56, 57, 75, 282),
    S(57, 56, 95, 316), S(58, 59, 47, 404), S(59, 58, 93, 231),
    S(60, 61, 17, 404), S(61, 60, 113, 239), S(62, 63, 28, 201),
    S(63, 62, 113, 246) >>

TrackB_SensorsE == <<
    S(64, 65, 123, 239), S(65, 64, 78, 201), S(66, 67, 48, 201),
    S(67, 66, 99, 239), S(68, 69, 53, 282), S(69, 68, 98, 50),
    S(70, 71, 54, 376), S(71, 70, 45, 780), S(72, 73, 95, 239),
    S(73, 72, 76, 282), S(74, 75, 57, 282), S(75, 74, 92, 43),
    S(76, 77, 112, 43), S(77, 76, 72, 282), S(78, 79, 105, 246),
    S(79, 78, 64, 201) >>

TrackB_Switches1to7 == <<
    B(1, 81, 11, 282, 8, 229), M(1, 80, 83, 188),
    B(2, 83, 80, 188, 6, 229), M(2, 82, 85, 185),
    B(3, 85, 5, 231, 82, 185), M(3, 84, 38, 128),
    B(4, 87, 14, 275, 13, 236), M(4, 86, 103, 185),
    B(5, 89, 34, 239, 93, 371), M(5, 88, 114, 155),
    B(6, 91, 46, 239, 115, 371), M(6, 90, 37, 61),
    B(7, 93, 58, 231, 89, 371), M(7, 92, 74, 43) >>

TrackB_Switches8to14 == <<
    B(8, 95, 56, 316, 73, 239), M(8, 94, 96, 155),
    B(9, 97, 55, 309, 52, 229), M(9, 96, 94, 155),
    B(10, 99, 51, 239, 66, 239), M(10, 98, 68, 50),
    B(11, 101, 102, 188, 107, 495), M(11, 100, 44, 50),
    B(12, 103, 1, 231, 86, 185), M(12, 102, 101, 188),
    B(13, 105, 20, 231, 79, 246), M(13, 104, 43, 120),
    B(14, 107, 101, 495, 42, 333), M(14, 106, 3, 43) >>

TrackB_Switches15to18 == <<
    B(15, 109, 36, 433, 41, 326), M(15, 108, 30, 50),
    B(16, 111, 16, 231, 18, 239), M(16, 110, 40, 128),
    B(17, 113, 60, 239, 62, 246), M(17, 112, 77, 43),
    B(18, 115, 39, 231, 91, 371), M(18, 114, 88, 155) >>

TrackB_Switches153to156 == <<
    B(153, 117, 125, 253, 32, 246), M(153, 116, 119, 0),
    B(154, 119, 116, 0, 29, 239), M(154, 118, 122, 0),
    B(155, 121, 127, 282, 49, 246), M(155, 120, 123, 0),
    B(156, 123, 120, 0, 65, 239), M(156, 122, 118, 0) >>

TrackB_Ends == <<
    N(125, 117, 253), X(124), N(127, 121, 282), X(126),
    N(129, 35, 514), X(128), N(131, 12, 325), X(130),
    N(133, 0, 504), X(132), N(135, 22, 43), X(134),
    N(137, 24, 50), X(136), N(139, 26, 50), X(138) >>

TrackB ==
    TrackB_SensorsA \o TrackB_SensorsB \o TrackB_SensorsC \o TrackB_SensorsD
    \o TrackB_SensorsE \o TrackB_Switches1to7 \o TrackB_Switches8to14 \o TrackB_Switches15to18
    \o TrackB_Switches153to156 \o TrackB_Ends
    \o [i \in 1 .. 4 |-> Unused]

=============================================================================
