------------------------------ MODULE MCMovieFfi ------------------------------
(***************************************************************************)
(* A small instance of MoviePlayerFfi, with a file for every way to open   *)
(* and to convert.                                                         *)
(***************************************************************************)
EXTENDS MoviePlayerFfi

Movie(type, w, h, rows) ==
    [exists |-> TRUE, whole |-> TRUE, width |-> w, height |-> h, counts |-> TRUE,
     type |-> type, input |-> TRUE, stream |-> TRUE, decodable |-> TRUE,
     decodedWidth |-> w, decoded |-> rows, subsampled |-> FALSE]

\* One file for each check of open.
Rejected ==
    LET good == Movie("Rgb", 2, 2, 2)
    IN  { [good EXCEPT !.exists = FALSE], [good EXCEPT !.whole = FALSE],
          [good EXCEPT !.width = 0], [good EXCEPT !.counts = FALSE],
          [good EXCEPT !.input = FALSE], [good EXCEPT !.stream = FALSE],
          [good EXCEPT !.decodable = FALSE], [good EXCEPT !.decodedWidth = 3],
          [good EXCEPT !.decoded = 1], Movie("Rgba", 2, 3, 3) }

\* As their header says: rows that divide by three or not, with blocks of 32
\* pixels and without.
Exact ==
    { Movie("Rgb", 2, 2, 2), Movie("Yuv", 2, 2, 2),
      Movie("Rgba", 65, 5, 7), Movie("Rgba", 32, 3, 4), Movie("Rgba", 3, 2, 3) }

\* Accepted, and not shown.
Faulty ==
    { Movie("Rgb", 2, 2, 3), Movie("Yuv", 2, 2, 3), Movie("Rgba", 2, 1, 2),
      [Movie("Rgb", 2, 2, 2) EXCEPT !.subsampled = TRUE], Movie("Unknown", 2, 2, 2) }

AllFiles == Rejected \union Exact \union Faulty

==============================================================================
