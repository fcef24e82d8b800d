--------------------------- MODULE MCCourseSyllabus ---------------------------
(* Three chunks: two terms of unit 1, one each of 2 and 3, and one of 4.   *)
EXTENDS CourseSyllabus
MCUnitOf == <<<<1, 1>>, <<2, 3>>, <<4>>>>
MCTerms == {"", "sun", "rain", "wind", "snow", "fog"}
=============================================================================
