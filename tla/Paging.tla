------------------------------- MODULE Paging -------------------------------
(* How a list is cut into pages: Paginate is the server's half, PageView the *)
(* numbers and links the pager draws from what the server answered.          *)
EXTENDS Integers, FiniteSetsExt

\* No link (null in the source).
NoLink == -1

\* The page from offset on; past the end the answer says where the list ends.
Paginate(total, offset, limit) ==
  LET start == Min({offset, total})
      end == Min({start + limit, total})
  IN [total |-> total, offset |-> start, limit |-> limit, count |-> end - start]

\* Mutant of PageView: a full last page is followed by another.
PageViewRounded(p) ==
  LET pages == Max({1, p.total \div p.limit + 1})
      lastOffset == (pages - 1) * p.limit
      back == IF p.offset < p.limit THEN 0 ELSE p.offset - p.limit
  IN [page |-> Min({pages, p.offset \div p.limit + 1}),
      pages |-> pages,
      first |-> IF p.offset > 0 THEN 0 ELSE NoLink,
      prev |-> IF p.offset > 0 THEN Min({lastOffset, back}) ELSE NoLink,
      next |-> IF p.offset + p.limit < p.total THEN p.offset + p.limit ELSE NoLink,
      last |-> IF p.offset # lastOffset THEN lastOffset ELSE NoLink]

PageView(p) ==
  LET pages == Max({1, (p.total + p.limit - 1) \div p.limit})
      lastOffset == (pages - 1) * p.limit
      back == IF p.offset < p.limit THEN 0 ELSE p.offset - p.limit
  IN [page |-> Min({pages, p.offset \div p.limit + 1}),
      pages |-> pages,
      first |-> IF p.offset > 0 THEN 0 ELSE NoLink,
      prev |-> IF p.offset > 0 THEN Min({lastOffset, back}) ELSE NoLink,
      next |-> IF p.offset + p.limit < p.total THEN p.offset + p.limit ELSE NoLink,
      last |-> IF p.offset # lastOffset THEN lastOffset ELSE NoLink]

PastEnd(p) == p.total > 0 /\ p.count = 0 /\ p.offset > 0

OffsetOfPage(n, pages, limit) == (Min({Max({1, n}), Max({1, pages})}) - 1) * limit

\* A page of a list the client holds: past the end it is the last page.
ClientPage(total, offset, limit) ==
  LET pages == (total + limit - 1) \div limit
      lastOffset == IF pages = 0 THEN 0 ELSE (pages - 1) * limit
  IN Paginate(total, Min({offset, lastOffset}), limit)

LinksOf(v) == {v.first, v.prev, v.next, v.last} \ {NoLink}

\* The rows, by number, of the page at offset o of a list.
RowsAt(total, o, limit) ==
  LET p == Paginate(total, o, limit) IN (p.offset + 1) .. (p.offset + p.count)
=============================================================================
