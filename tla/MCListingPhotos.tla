--------------------------- MODULE MCListingPhotos ---------------------------
(* ListingPhotos on small instances: as many photos as a listing may       *)
(* carry and one more, two process requests at once.                       *)
EXTENDS ListingPhotos, TLC

CONSTANTS p1, p2, q1, q2, r1, r2, a, b

TwoPhotos == {p1, p2}
OneStarter == {q1}
TwoStarters == {q1, q2}
OnePipeline == {r1}
TwoPipelines == {r1, r2}
OnePublisher == {q1}
NoPublishers == {}
OnePicture == {a}
TwoPictures == {a, b}

Symmetry == Permutations(Photos) \cup Permutations(Pipelines)
==============================================================================
