----------------------------- MODULE MCDesktop ------------------------------
EXTENDS Desktop
\* The start button, three menu items, two desktop icons, the manager's title
\* bar, close button and icons, close buttons of about and shell, a
\* point on the bare desktop.
MCPoints == {<<10, 580>>, <<40, 470>>, <<40, 495>>, <<40, 530>>, <<20, 30>>, <<20, 100>>,
             <<200, 65>>, <<315, 60>>, <<80, 90>>, <<150, 90>>, <<320, 90>>, <<385, 70>>, <<600, 300>>}
=============================================================================
